---------------------------- MODULE TrainingSync ----------------------------
(***************************************************************************)
(* trainingsplan: the page (index.html, logic.js) and the server that logs *)
(* its entries (main.rs, write_excercise_log of sqldb.rs).                 *)
(*                                                                         *)
(* The page keeps a list of entries.  "Sync" posts every entry it shows,   *)
(* each in a request of its own, and returns; an entry leaves the page     *)
(* when a request that posted it is answered with success.  The user goes  *)
(* on typing, deleting and pressing Sync while requests are under way, the *)
(* server may be killed and answers may get lost.                          *)
(***************************************************************************)
EXTENDS TrainingDb, Sequences

CONSTANTS Items,      \* entries of the page
          Values,     \* what the number fields of an entry may hold
          Blank,      \* nothing typed: sent as null, accepted
          Refused,    \* values the server's u32 fields do not accept
          MaxPosts,   \* bound on the requests per entry
          MaxPending, \* bound on those of them that are under way
          MaxLosses   \* bound on lost requests and answers

ASSUME ValuesAssumption == Blank \in Values /\ Refused \subseteq Values \ {Blank}
ASSUME NetAssumption    == MaxPosts \in Nat /\ MaxPending \in Nat /\ MaxLosses \in Nat

VARIABLES item,    \* "unused", "shown", "synced" (removed by an answer), "deleted"
          value,   \* what an entry's fields hold
          menu,    \* the exercises the page has loaded
          posts,   \* the requests of each entry, oldest first
          log,     \* excercise_log: which request of which entry wrote a row
          losses

pageVars == <<item, value, menu, posts, log, losses>>
vars     == <<dbVars, pageVars>>

(* sent -> logged -> answered, or failed on the way *)
PostState == {"sent", "logged", "answered", "failed"}
Post      == [value : Values, state : PostState]

Shown == {i \in Items : item[i] = "shown"}
Row(i, k, v) == [item |-> i, post |-> k, value |-> v]

PostIs(i, k, s) == k \in 1..Len(posts[i]) /\ posts[i][k].state = s
UnderWay(i) == {k \in 1..Len(posts[i]) : posts[i][k].state \in {"sent", "logged"}}
Becomes(i, k, s) == posts' = [posts EXCEPT ![i][k].state = s]
-----------------------------------------------------------------------------
Init ==
    /\ DbInit
    /\ item = [i \in Items |-> "unused"]
    /\ value = [i \in Items |-> Blank]
    /\ menu = {}
    /\ posts = [i \in Items |-> <<>>]
    /\ log = {}
    /\ losses = 0

(* load_excercise_list() when the page is (re)loaded: what it showed is    *)
(* gone, and nobody waits for the answers any more.                        *)
LoadPage ==
    /\ Serving # {}
    /\ menu' = {t \in Templates : rows[t] > 0}
    /\ item' = [i \in Items |-> IF i \in Shown THEN "deleted" ELSE item[i]]
    /\ UNCHANGED <<dbVars, value, posts, log, losses>>

(* "Add" appends an entry for the selected exercise. *)
AddEntry(i) ==
    /\ item[i] = "unused"
    /\ menu # {}
    /\ item' = [item EXCEPT ![i] = "shown"]
    /\ UNCHANGED <<dbVars, value, menu, posts, log, losses>>

Type(i, v) ==
    /\ i \in Shown
    /\ value' = [value EXCEPT ![i] = v]
    /\ UNCHANGED <<dbVars, item, menu, posts, log, losses>>

Delete(i) ==
    /\ i \in Shown
    /\ item' = [item EXCEPT ![i] = "deleted"]
    /\ UNCHANGED <<dbVars, value, menu, posts, log, losses>>

(* Mutant: an entry is not taken off the page by its answer. *)
AnswerKeeps(i, k) ==
    /\ PostIs(i, k, "logged")
    /\ Becomes(i, k, "answered")
    /\ UNCHANGED <<dbVars, item, value, menu, log, losses>>

(* Mutant: the entry is removed when the request is sent. *)
SyncRemoving ==
    /\ Serving # {} /\ Shown # {}
    /\ \A i \in Shown : Len(posts[i]) < MaxPosts /\ Cardinality(UnderWay(i)) < MaxPending
    /\ posts' = [i \in Items |->
                   IF i \in Shown THEN Append(posts[i], [value |-> value[i], state |-> "sent"])
                                  ELSE posts[i]]
    /\ item' = [i \in Items |-> IF i \in Shown THEN "synced" ELSE item[i]]
    /\ UNCHANGED <<dbVars, value, menu, log, losses>>

(* sync_excercise(): one POST per entry shown, also for those an earlier   *)
(* Sync has posted and not heard of yet.  Without a server the requests    *)
(* fail at once and nothing changes.                                       *)
Sync ==
    /\ Serving # {} /\ Shown # {}
    /\ \A i \in Shown : Len(posts[i]) < MaxPosts /\ Cardinality(UnderWay(i)) < MaxPending
    /\ posts' = [i \in Items |->
                   IF i \in Shown THEN Append(posts[i], [value |-> value[i], state |-> "sent"])
                                  ELSE posts[i]]
    /\ UNCHANGED <<dbVars, item, value, menu, log, losses>>

(* excercise_add on the server: a value that is no u32 is a bad request;   *)
(* without the table, unwrap() ends the worker and the connection.         *)
HandlePost(i, k) ==
    /\ PostIs(i, k, "sent")
    /\ IF posts[i][k].value \notin Refused /\ "excercise_log" \in tables
         THEN /\ Becomes(i, k, "logged")
              /\ log' = log \union {Row(i, k, posts[i][k].value)}
         ELSE /\ Becomes(i, k, "failed")
              /\ UNCHANGED log
    /\ UNCHANGED <<dbVars, item, value, menu, losses>>

(* Mutant: the answer is recorded under a status nobody knows. *)
AnswerOddly(i, k) ==
    /\ PostIs(i, k, "logged")
    /\ Becomes(i, k, "success")
    /\ item' = [item EXCEPT ![i] = IF i \in Shown THEN "synced" ELSE @]
    /\ UNCHANGED <<dbVars, value, menu, log, losses>>

(* complete(aXhr, 'success'): the entry that was posted leaves the page,   *)
(* whatever it holds by now.                                               *)
Answer(i, k) ==
    /\ PostIs(i, k, "logged")
    /\ Becomes(i, k, "answered")
    /\ item' = [item EXCEPT ![i] = IF i \in Shown THEN "synced" ELSE @]
    /\ UNCHANGED <<dbVars, value, menu, log, losses>>

(* The request or its answer is lost: complete() is called with another    *)
(* status and does nothing.                                                *)
Lose(i, k) ==
    /\ PostIs(i, k, "sent") \/ PostIs(i, k, "logged")
    /\ losses < MaxLosses
    /\ losses' = losses + 1
    /\ Becomes(i, k, "failed")
    /\ UNCHANGED <<dbVars, item, value, menu, log>>

(* A server that is killed takes the connections with it. *)
ServerDies(p) ==
    /\ Crash(p)
    /\ posts' = IF p \in Serving
                  THEN [i \in Items |-> [k \in 1..Len(posts[i]) |->
                          IF k \in UnderWay(i) THEN [posts[i][k] EXCEPT !.state = "failed"]
                                              ELSE posts[i][k]]]
                  ELSE posts
    /\ UNCHANGED <<item, value, menu, log, losses>>

Server(i) == \E k \in 1..MaxPosts : HandlePost(i, k) \/ Answer(i, k)

PageNext ==
    \/ LoadPage \/ Sync
    \/ \E i \in Items :
         \/ AddEntry(i) \/ Delete(i) \/ (\E v \in Values : Type(i, v))
         \/ Server(i) \/ (\E k \in 1..MaxPosts : Lose(i, k))

ProcNext == \E p \in Procs : (Prepare(p) /\ UNCHANGED pageVars) \/ ServerDies(p)

Next == (MakeRuntime /\ UNCHANGED pageVars) \/ ProcNext \/ PageNext

Spec == Init /\ [][Next]_vars

(* Servers are restarted, requests are answered, and the user presses Sync *)
(* again as long as an entry is shown.                                     *)
FairSpec ==
    /\ Spec
    /\ \A p \in Procs : WF_vars(Prepare(p) /\ UNCHANGED pageVars)
    /\ \A i \in Items : SF_vars(Server(i))
    /\ WF_vars(Sync)
-----------------------------------------------------------------------------
(* Types of the page, of the requests and of the log. *)
SyncTypeOK ==
    /\ DbTypeOK
    /\ item \in [Items -> {"unused", "shown", "synced", "deleted"}]
    /\ value \in [Items -> Values]
    /\ menu \subseteq Templates
    /\ posts \in [Items -> Seq(Post)]
    /\ log \subseteq [item : Items, post : Nat, value : Values]
    /\ losses \in 0..MaxLosses

(* Nothing is lost: an entry that an answer has removed from the page is   *)
(* in the log, with the value that was posted by the answered request.     *)
RemovedIsLogged ==
    \A i \in Items : item[i] = "synced" =>
        \E k \in 1..Len(posts[i]) :
            posts[i][k].state = "answered" /\ Row(i, k, posts[i][k].value) \in log

(* The log holds what was posted and nothing else: each row has a request  *)
(* of its entry behind it, which carried its value and was not refused.    *)
RowsWerePosted ==
    \A r \in log :
        /\ r.post \in 1..Len(posts[r.item])
        /\ posts[r.item][r.post].value = r.value
        /\ posts[r.item][r.post].state # "sent"
        /\ r.value \notin Refused

(* Nothing is lost on the way to the log, and nothing is invented. *)
LogIsTrue == RemovedIsLogged /\ RowsWerePosted

(* An entry is only logged twice when Sync was pressed again before the    *)
(* answer arrived or after it was lost: what is acknowledged is never      *)
(* posted again.                                                           *)
AcknowledgedNotReposted ==
    [][\A i \in Items : Len(posts'[i]) > Len(posts[i]) =>
          \A k \in 1..Len(posts[i]) : posts[i][k].state # "answered"]_vars

(* If the user keeps pressing Sync, every entry with acceptable values     *)
(* leaves the page, however many requests, answers and servers are lost.   *)
EntriesGetSynced ==
    \A i \in Items : (item[i] = "shown") ~> (item[i] # "shown")
=============================================================================
