---------------------------- MODULE ByteGenerator ----------------------------
(***************************************************************************)
(* bytegenerator.py: a window with a form and a "Create" button.  A click  *)
(* starts a thread that disables the button, reads the form field by       *)
(* field, opens the file and writes generated bytes to it in blocks.       *)
(*                                                                         *)
(* The button is disabled by the thread, not by the click, so that two     *)
(* clicks may start two threads; both may write to the same file, each     *)
(* with an offset and a write buffer of its own.  The disk may be full:    *)
(* writing out raises in write() or in close().                            *)
(***************************************************************************)
EXTENDS Integers, FiniteSets, SequencesExt

CONSTANTS Jobs,       \* threads that clicks may start
          Files,      \* file names
          Writable,   \* those that can be created
          Forms,      \* what the user may enter, see Form
          BlockSize,  \* 512
          MaxByte,    \* 255
          MaxEdits    \* bound on changes of the form

(* An unreadable or too small file size is 0; an unreadable or negative    *)
(* start value, or an unreadable step, is start = -1.                      *)
Form == [file : Files, size : Nat, gen : {"Random", "Counter"},
         start : Nat \union {-1}, step : Nat]

ASSUME FormsAssumption  == Forms \subseteq Form /\ Forms # {} /\ Writable \subseteq Files
ASSUME BoundsAssumption == BlockSize \in Nat \ {0} /\ MaxByte \in Nat \ {0} /\ MaxEdits \in Nat

VARIABLES form,    \* what the window shows
          button,  \* is "Create" enabled
          window,  \* is the window open
          edits,
          job,     \* where each thread is
          req,     \* what each thread has read of the form
          count,   \* bytesWritten of a thread
          value,   \* aStart of its generator
          run,     \* currIncLen of its generator
          buff,    \* its block
          pend,    \* what its file object has not written yet
          pos,     \* its offset in the file
          file,    \* the contents of the files
          shared   \* has another thread opened the file a thread has open

uiVars   == <<form, button, window, edits>>
genVars  == <<count, value, run, buff>>
fileVars == <<pend, pos, file, shared>>
vars     == <<uiVars, job, req, genVars, fileVars>>

Rnd == MaxByte + 1   \* a byte of the random generator
Content == Seq(0..Rnd)

(* An exception is on its way: before and after "finally" closes the file. *)
Raising == {"raising", "raised"}

HasOpen == {"generating", "closing", "enabling"} \union Raising
Ended   == {"refused", "broken", "done", "killed"}
Active  == {"started", "reading name", "reading generator", "reading step", "reading start",
            "reading size", "opening"} \union HasOpen

Goto(j, s) == job' = [job EXCEPT ![j] = s]
Rejected(r) == r.gen = "Counter" /\ r.start < 0
-----------------------------------------------------------------------------
Init ==
    /\ form \in Forms
    /\ button = TRUE /\ window = TRUE /\ edits = 0
    /\ job = [j \in Jobs |-> "idle"]
    /\ req = [j \in Jobs |-> form]
    /\ count = [j \in Jobs |-> 0]
    /\ value = [j \in Jobs |-> 0]
    /\ run = [j \in Jobs |-> 0]
    /\ buff = [j \in Jobs |-> <<>>]
    /\ pend = [j \in Jobs |-> <<>>]
    /\ pos = [j \in Jobs |-> 0]
    /\ file = [f \in Files |-> <<>>]
    /\ shared = [j \in Jobs |-> FALSE]

Edit ==
    /\ window /\ edits < MaxEdits
    /\ form' \in Forms
    /\ edits' = edits + 1
    /\ UNCHANGED <<button, window, job, req, genVars, fileVars>>

(* The button's command: start_new_thread(self.generateFile, ()). *)
Click(j) ==
    /\ window /\ button
    /\ job[j] = "idle"
    /\ Goto(j, "started")
    /\ UNCHANGED <<uiVars, req, genVars, fileVars>>

(* "firstly disable start button" *)
Disable(j) ==
    /\ job[j] = "started"
    /\ button' = FALSE
    /\ Goto(j, "reading name")
    /\ UNCHANGED <<form, window, edits, req, genVars, fileVars>>

ReadName(j) ==
    /\ job[j] = "reading name"
    /\ req' = [req EXCEPT ![j].file = form.file]
    /\ Goto(j, "reading generator")
    /\ UNCHANGED <<uiVars, genVars, fileVars>>

(* The generator chosen; only the counter has settings to read. *)
ReadGenerator(j) ==
    /\ job[j] = "reading generator"
    /\ req' = [req EXCEPT ![j].gen = form.gen]
    /\ Goto(j, IF form.gen = "Counter" THEN "reading step" ELSE "reading size")
    /\ UNCHANGED <<uiVars, genVars, fileVars>>

ReadStep(j) ==
    /\ job[j] = "reading step"
    /\ req' = [req EXCEPT ![j].step = form.step]
    /\ Goto(j, "reading start")
    /\ UNCHANGED <<uiVars, genVars, fileVars>>

ReadStart(j) ==
    /\ job[j] = "reading start"
    /\ req' = [req EXCEPT ![j].start = form.start]
    /\ Goto(j, "reading size")
    /\ UNCHANGED <<uiVars, genVars, fileVars>>

(* "file size is invalid" returns at once, the button stays disabled. *)
ReadSize(j) ==
    /\ job[j] = "reading size"
    /\ req' = [req EXCEPT ![j].size = form.size]
    /\ Goto(j, IF form.size < 1 THEN "refused" ELSE "opening")
    /\ UNCHANGED <<uiVars, genVars, fileVars>>

(* Mutant: open(fileName, "r+b") keeps the old contents. *)
OpenKeeping(j) ==
    LET f == req[j].file
        others == {k \in Jobs \ {j} : job[k] \in HasOpen /\ req[k].file = f}
    IN
    /\ job[j] = "opening"
    /\ IF f \in Writable
         THEN /\ Goto(j, "generating")
              /\ value' = [value EXCEPT ![j] = req[j].start]
              /\ shared' = [k \in Jobs |-> CASE k = j         -> others # {}
                                             [] k \in others -> TRUE
                                             [] OTHER        -> shared[k]]
              /\ UNCHANGED file
         ELSE /\ Goto(j, "refused")
              /\ UNCHANGED <<value, file, shared>>
    /\ UNCHANGED <<uiVars, req, count, run, buff, pend, pos>>

(* open(fileName, "wb") truncates the file; "cannot create file" returns.  *)
Open(j) ==
    LET f == req[j].file
        others == {k \in Jobs \ {j} : job[k] \in HasOpen /\ req[k].file = f}
    IN
    /\ job[j] = "opening"
    /\ IF f \in Writable
         THEN /\ Goto(j, "generating")
              /\ value' = [value EXCEPT ![j] = req[j].start]
              /\ file' = [file EXCEPT ![f] = <<>>]
              /\ shared' = [k \in Jobs |-> CASE k = j         -> others # {}
                                             [] k \in others -> TRUE
                                             [] OTHER        -> shared[k]]
         ELSE /\ Goto(j, "refused")
              /\ UNCHANGED <<value, file, shared>>
    /\ UNCHANGED <<uiVars, req, count, run, buff, pend, pos>>

(* Mutant: the counter does not wrap before the byte is made. *)
NextByteUnwrapped(j) == IF req[j].gen = "Random" THEN Rnd ELSE value[j]

NextByte(j) ==
    IF req[j].gen = "Random" THEN Rnd ELSE IF value[j] > MaxByte THEN 0 ELSE value[j]

(* Mutant: the counter wraps one value too late. *)
StepCounterLate(j) ==
    LET v    == IF value[j] > MaxByte THEN 1 ELSE value[j]
        full == run[j] + 1 >= req[j].step
    IN
    /\ run' = [run EXCEPT ![j] = IF full THEN 0 ELSE @ + 1]
    /\ value' = [value EXCEPT ![j] = IF full THEN v + 1 ELSE v]

(* generateCounter: every value StepLen times, 0 follows MaxByte. *)
StepCounter(j) ==
    LET v    == IF value[j] > MaxByte THEN 0 ELSE value[j]
        full == run[j] + 1 >= req[j].step
    IN
    /\ run' = [run EXCEPT ![j] = IF full THEN 0 ELSE @ + 1]
    /\ value' = [value EXCEPT ![j] = IF full THEN v + 1 ELSE v]

(* currFile.write(buff) and a new block, or the block grows. *)
WriteBlock(j, block, isFull) ==
    IF isFull
      THEN pend' = [pend EXCEPT ![j] = @ \o block] /\ buff' = [buff EXCEPT ![j] = <<>>]
      ELSE UNCHANGED pend /\ buff' = [buff EXCEPT ![j] = block]

(* One round of the loop over the generator. *)
Generate(j) ==
    LET block == Append(buff[j], NextByte(j)) IN
    /\ job[j] = "generating"
    /\ ~Rejected(req[j])
    /\ count[j] < req[j].size
    /\ count' = [count EXCEPT ![j] = @ + 1]
    /\ IF req[j].gen = "Counter" THEN StepCounter(j) ELSE UNCHANGED <<value, run>>
    /\ WriteBlock(j, block, Len(block) > BlockSize)
    /\ UNCHANGED <<uiVars, job, req, pos, file, shared>>

(* The loop is over: what remains of the block is written. *)
LastBlock(j) ==
    /\ job[j] = "generating"
    /\ ~Rejected(req[j])
    /\ count[j] = req[j].size
    /\ pend' = [pend EXCEPT ![j] = @ \o buff[j]]
    /\ buff' = [buff EXCEPT ![j] = <<>>]
    /\ Goto(j, "closing")
    /\ UNCHANGED <<uiVars, req, count, value, run, pos, file, shared>>

(* Mutant: an exception of the generator ends the thread. *)
RaiseAndEnd(j) ==
    /\ job[j] = "generating"
    /\ Rejected(req[j])
    /\ Goto(j, "done")
    /\ UNCHANGED <<uiVars, req, genVars, fileVars>>

(* The generator raises; "finally" is still executed. *)
Raise(j) ==
    /\ job[j] = "generating"
    /\ Rejected(req[j])
    /\ Goto(j, "raising")
    /\ UNCHANGED <<uiVars, req, genVars, fileVars>>

(* Writing at an offset; a gap in front of it reads as zeros. *)
WriteAt(s, p, d) ==
    [i \in 1..(IF Len(s) > p + Len(d) THEN Len(s) ELSE p + Len(d)) |->
        IF i \in (p + 1)..(p + Len(d)) THEN d[i - p]
        ELSE IF i <= Len(s) THEN s[i] ELSE 0]

(* The file object writes out the first n bytes it holds. *)
WriteOut(j, n) ==
    /\ file' = [file EXCEPT ![req[j].file] =
                  IF n = 0 THEN @ ELSE WriteAt(@, pos[j], SubSeq(pend[j], 1, n))]
    /\ pos' = [pos EXCEPT ![j] = @ + n]
    /\ pend' = [pend EXCEPT ![j] = SubSeq(@, n + 1, Len(@))]

(* It writes out all of it whenever it likes to. *)
Flush(j) ==
    /\ job[j] = "generating" /\ pend[j] # <<>>
    /\ WriteOut(j, Len(pend[j]))
    /\ UNCHANGED <<uiVars, job, req, genVars, shared>>

(* currFile.write(buff) raises, for a full block or for the rest: not all  *)
(* the file object holds can be written out, and the block is not taken.   *)
WriteFails(j) ==
    LET block == Append(buff[j], NextByte(j)) IN
    /\ job[j] = "generating"
    /\ ~Rejected(req[j])
    /\ \/ /\ count[j] < req[j].size /\ Len(block) > BlockSize
          /\ count' = [count EXCEPT ![j] = @ + 1]
          /\ buff' = [buff EXCEPT ![j] = block]
       \/ /\ count[j] = req[j].size /\ buff[j] # <<>>
          /\ UNCHANGED <<count, buff>>
    /\ \E n \in 0..(Len(pend[j]) - 1) : WriteOut(j, n)
    /\ Goto(j, "raising")
    /\ UNCHANGED <<uiVars, req, value, run, shared>>

(* currFile.close() *)
Close(j) ==
    /\ job[j] \in {"closing", "raising"}
    /\ WriteOut(j, Len(pend[j]))
    /\ Goto(j, IF job[j] = "closing" THEN "enabling" ELSE "raised")
    /\ UNCHANGED <<uiVars, req, genVars, shared>>

(* close() writes out and may raise itself: the file is closed, the button *)
(* is not enabled.                                                         *)
CloseRaises(j) ==
    /\ job[j] \in {"closing", "raising"}
    /\ \E n \in 0..Len(pend[j]) : WriteOut(j, n)
    /\ Goto(j, "broken")
    /\ UNCHANGED <<uiVars, req, genVars, shared>>

Enable(j) ==
    /\ job[j] \in {"enabling", "raised"}
    /\ button' = TRUE
    /\ Goto(j, "done")
    /\ UNCHANGED <<form, window, edits, req, genVars, fileVars>>

(* The window is closed: mainloop() returns and the process ends with all  *)
(* its threads; what was not written out is lost.                          *)
Quit ==
    /\ window
    /\ window' = FALSE
    /\ job' = [j \in Jobs |-> IF job[j] \in Active THEN "killed" ELSE job[j]]
    /\ UNCHANGED <<form, button, edits, req, genVars, fileVars>>

Work(j) ==
    \/ Disable(j)
    \/ ReadName(j) \/ ReadGenerator(j) \/ ReadStep(j) \/ ReadStart(j) \/ ReadSize(j)
    \/ Open(j) \/ Generate(j) \/ LastBlock(j) \/ Raise(j)
    \/ WriteFails(j) \/ Close(j) \/ CloseRaises(j) \/ Enable(j)

Next ==
    \/ Edit \/ Quit
    \/ \E j \in Jobs : Click(j) \/ Work(j) \/ Flush(j)

Spec == Init /\ [][Next]_vars

(* Threads are scheduled; nobody has to click, edit or close. *)
FairSpec == Spec /\ \A j \in Jobs : WF_vars(Work(j))
-----------------------------------------------------------------------------
(* Types of the window, of the threads and of the files. *)
TypeOK ==
    /\ form \in Forms /\ button \in BOOLEAN /\ window \in BOOLEAN
    /\ edits \in 0..MaxEdits
    /\ job \in [Jobs -> {"idle"} \union Active \union Ended]
    /\ req \in [Jobs -> Form]
    /\ count \in [Jobs -> Nat]
    /\ value \in [Jobs -> Nat \union {-1}]
    /\ run \in [Jobs -> Nat]
    /\ buff \in [Jobs -> Content]
    /\ pend \in [Jobs -> Content]
    /\ pos \in [Jobs -> Nat]
    /\ file \in [Files -> Content]
    /\ shared \in [Jobs -> BOOLEAN]

(* No byte is lost or written twice on its way through the block and the   *)
(* file object, the block never outgrows BlockSize between two bytes, and  *)
(* a file one thread has for itself is as long as what was written.        *)
BytesAddUp ==
    \A j \in Jobs : job[j] \in HasOpen =>
        /\ pos[j] + Len(pend[j]) + Len(buff[j]) = count[j]
        /\ count[j] <= req[j].size
        /\ job[j] \notin Raising => Len(buff[j]) <= BlockSize
        /\ ~shared[j] => Len(file[req[j].file]) = pos[j]

(* Byte n of the counter, counted from 0. *)
CounterByte(r, n) ==
    LET first == IF r.start > MaxByte THEN 0 ELSE r.start
        step  == IF r.step = 0 THEN 1 ELSE r.step
    IN  (first + n \div step) % (MaxByte + 1)

Expected(r) ==
    [i \in 1..r.size |-> IF r.gen = "Random" THEN Rnd ELSE CounterByte(r, i - 1)]

(* A file that a thread has for itself holds at any time the first of the  *)
(* bytes asked for, however writing fails, and none if the generator       *)
(* refuses its settings; after a close() without an exception, all.        *)
FileIsExpected ==
    \A j \in Jobs : job[j] \in HasOpen /\ ~shared[j] =>
        /\ IsPrefix(file[req[j].file], IF Rejected(req[j]) THEN <<>> ELSE Expected(req[j]))
        /\ job[j] = "enabling" => file[req[j].file] = Expected(req[j])

(* When all threads are gone and the button is still disabled, a thread    *)
(* was refused or its close() raised: neither an exception of the          *)
(* generator or of write() nor any overlap of threads loses the button.    *)
ButtonLossExplained ==
    window /\ ~button /\ (\A j \in Jobs : job[j] \notin Active) =>
        \E j \in Jobs : job[j] \in {"refused", "broken"}

(* Every thread ends, and unless it was refused, its close() raised or the *)
(* window was closed, it leaves with the button enabled by itself.         *)
ButtonReturns ==
    /\ \A j \in Jobs :
         (job[j] = "reading name") ~> (job[j] \in {"refused", "broken", "killed", "done"})
    /\ [][\A j \in Jobs : job[j] # "done" /\ job'[j] = "done" => button']_vars

(* "firstly disable start button": one file is generated at a time. *)
OneGeneration == Cardinality({j \in Jobs : job[j] \in Active}) <= 1
=============================================================================
