------------------------------ MODULE ISEWrap ------------------------------
(***************************************************************************)
(* A Vivado run in its directory: rundef.js with ISEWrap.js on Windows, or *)
(* runme.sh with ISEWrap.sh on Unix, launches vivado, which works off      *)
(* sram.tcl.  All of them leave files (.<step>.begin.rst, .end.rst and     *)
(* .error.rst) by which Vivado tracks the run, and look for .stop.rst.     *)
(* A run may be launched again in the same directory, before or after the  *)
(* first has ended.                                                        *)
(***************************************************************************)
EXTENDS Integers, Sequences, FiniteSets

CONSTANTS Launches,   \* invocations of runme.bat or runme.sh
          ImplSteps,  \* steps of impl_1/sram.tcl, in order
          MaxTries,   \* how often ISEOpenFile tries to open a file
          PipeSize    \* lines of output that vivado can be ahead of its reader

ASSUME StepsAssumption ==
    /\ ImplSteps \in Seq(STRING) /\ ImplSteps # <<>>
    /\ \A i, j \in DOMAIN ImplSteps : ImplSteps[i] = ImplSteps[j] => i = j
    /\ \A i \in DOMAIN ImplSteps : ImplSteps[i] \notin {"vivado", "synthesis"}
ASSUME SizeAssumption == MaxTries \in Nat \ {0} /\ PipeSize \in Nat \ {0}

VARIABLES
    shell,    \* "wsh56", "wsh51" (ISEOldVersionWSH) or "sh"
    flow,     \* which of the two run directories: "synth_1" or "impl_1"
    ported,   \* somebody removed the lines that keep rundef.js from running
    files,    \* status files: pairs of a step and "begin", "end" or "error"
    stop,     \* .stop.rst exists
    logOpen,  \* wrappers that have runme.log open
    pc,       \* where each wrapper is
    tries,    \* its failed attempts to open the present file
    reported, \* the status file it left in the end: "none", "end" or "error"
    proc,     \* its vivado: "none", "running", "ok" or "failed" (exit code)
    step,     \* steps of the script that vivado has ended
    doing,    \* where it is in the next one: "check", "begin", "work", "finish"
    pipe,     \* lines of output not yet read by the wrapper
    late      \* history: launches of vivado and begins of steps since the stop

config   == <<shell, flow, ported>>
dirVars  == <<files, stop>>
wrapVars == <<pc, tries, reported>>
procVars == <<proc, step, doing, pipe>>
vars     == <<config, dirVars, logOpen, wrapVars, procVars, late>>

StepNames == {"vivado", "synthesis"} \union {ImplSteps[i] : i \in DOMAIN ImplSteps}
Steps == IF flow = "impl_1" THEN ImplSteps ELSE <<"synthesis">>

Opening == {"openlog", "pretouch", "touchbegin", "reopenlog", "report"}
Gone    == {"gaveup", "killed"}
Over    == Gone \union {"idle", "refused", "halted", "over"}
Places  == Opening \union Over \union {"stopcheck", "launch", "wait"}

Active(w) == pc[w] \notin Over \/ proc[w] = "running"
Counted(w) == late' = [late EXCEPT ![w] = IF stop THEN @ + 1 ELSE @]
Goto(w, where) == pc' = [pc EXCEPT ![w] = where] /\ tries' = [tries EXCEPT ![w] = 0]
-----------------------------------------------------------------------------
Init ==
    /\ shell \in {"wsh56", "wsh51", "sh"} /\ flow \in {"synth_1", "impl_1"}
    /\ ported \in BOOLEAN /\ (ported => shell # "sh")
    /\ files = {} /\ stop = FALSE /\ logOpen = {}
    /\ pc = [w \in Launches |-> "idle"] /\ tries = [w \in Launches |-> 0]
    /\ reported = [w \in Launches |-> "none"]
    /\ proc = [w \in Launches |-> "none"] /\ step = [w \in Launches |-> 0]
    /\ doing = [w \in Launches |-> "check"] /\ pipe = [w \in Launches |-> 0]
    /\ late = [w \in Launches |-> 0]

RequestStop ==
    /\ ~stop /\ stop' = TRUE
    /\ UNCHANGED <<config, files, logOpen, wrapVars, procVars, late>>

(* The run is reset when nobody is at work in its directory. *)
Clean ==
    /\ \A w \in Launches : ~Active(w)
    /\ files' = {} /\ stop' = FALSE
    /\ UNCHANGED <<config, logOpen, wrapVars, procVars, late>>

Kill(w) ==
    /\ pc[w] \notin Over
    /\ Goto(w, "killed")
    /\ logOpen' = logOpen \ {w}
    /\ UNCHANGED <<config, dirVars, reported, procVars, late>>
-----------------------------------------------------------------------------
(* What the run scripts do first after ISEWrap is loaded. *)
SynthRunDef == "stopcheck"
ImplRunDef  == "pretouch"
RunDef == IF flow = "impl_1" THEN ImplRunDef ELSE SynthRunDef

(* rundef.js as generated is no JScript, "please update the PATH variable  *)
(* below": once it is ported it includes ISEWrap.js, which opens the log.  *)
Launch(w) ==
    /\ pc[w] = "idle"
    /\ Goto(w, CASE shell = "sh" -> RunDef
                 [] shell # "sh" /\ ported -> "openlog"
                 [] shell # "sh" /\ ~ported -> "refused")
    /\ UNCHANGED <<config, dirVars, logOpen, reported, procVars, late>>

(* Mutant: the exit code of vivado is not looked at. *)
StatusFileAlwaysEnd(w) ==
    CASE pc[w] = "pretouch"   -> <<Head(ImplSteps), "begin">>
      [] pc[w] = "touchbegin" -> <<"vivado", "begin">>
      [] pc[w] = "report"     -> <<"vivado", "end">>

(* The status file that a wrapper is about to touch. *)
StatusFile(w) ==
    CASE pc[w] = "pretouch"   -> <<Head(ImplSteps), "begin">>
      [] pc[w] = "touchbegin" -> <<"vivado", "begin">>
      [] pc[w] = "report"     -> <<"vivado", IF proc[w] = "ok" THEN "end" ELSE "error">>

(* What follows when the file is open, and closed again if no log. *)
AfterOpen(w) ==
    CASE pc[w] = "openlog"    -> RunDef
      [] pc[w] = "pretouch"   -> "stopcheck"
      [] pc[w] = "touchbegin" -> IF shell = "wsh51" THEN "launch" ELSE "wait"
      [] pc[w] = "reopenlog"  -> "report"
      [] pc[w] = "report"     -> "over"

OpenLog(w) ==
    /\ pc[w] \in {"openlog", "reopenlog"} /\ logOpen = {}
    /\ Goto(w, AfterOpen(w))
    /\ logOpen' = IF pc[w] = "openlog" THEN {w} ELSE {}
    /\ UNCHANGED <<config, dirVars, reported, procVars, late>>

TouchFile(w) ==
    /\ pc[w] \in {"pretouch", "touchbegin", "report"}
    /\ Goto(w, AfterOpen(w))
    /\ files' = files \union {StatusFile(w)}
    /\ reported' = [reported EXCEPT ![w] = IF pc[w] = "report" THEN StatusFile(w)[2] ELSE @]
    /\ UNCHANGED <<config, stop, logOpen, procVars, late>>

(* Mutant: one attempt more than there are. *)
OpenBusyOnceMore(w) ==
    /\ shell # "sh" /\ pc[w] \in Opening
    /\ IF tries[w] < MaxTries
         THEN tries' = [tries EXCEPT ![w] = @ + 1] /\ UNCHANGED <<pc, logOpen>>
         ELSE Goto(w, "gaveup") /\ logOpen' = logOpen \ {w}
    /\ UNCHANGED <<config, dirVars, reported, procVars, late>>

(* Error 52: another attempt after a second, or the end after the last. *)
OpenBusy(w) ==
    /\ shell # "sh" /\ pc[w] \in Opening
    /\ IF tries[w] + 1 < MaxTries
         THEN tries' = [tries EXCEPT ![w] = @ + 1] /\ UNCHANGED <<pc, logOpen>>
         ELSE Goto(w, "gaveup") /\ logOpen' = logOpen \ {w}
    /\ UNCHANGED <<config, dirVars, reported, procVars, late>>

(* Any other error is thrown again and ends the script. *)
OpenThrows(w) ==
    /\ shell # "sh" /\ pc[w] \in Opening
    /\ Goto(w, "gaveup")
    /\ logOpen' = logOpen \ {w}
    /\ UNCHANGED <<config, dirVars, reported, procVars, late>>

(* ISEStep looks for .stop.rst. *)
CheckStop(w) ==
    /\ pc[w] = "stopcheck"
    /\ Goto(w, CASE stop -> "halted"
                 [] ~stop /\ shell = "wsh51" -> "touchbegin"
                 [] ~stop /\ shell # "wsh51" -> "launch")
    /\ logOpen' = IF stop THEN logOpen \ {w} ELSE logOpen
    /\ UNCHANGED <<config, dirVars, reported, procVars, late>>

(* Mutant: Run is not asked to wait for vivado. *)
LaunchVivadoUnwaited(w) ==
    /\ pc[w] = "launch"
    /\ proc' = [proc EXCEPT ![w] = "running"]
    /\ Goto(w, IF shell = "wsh51" THEN "reopenlog" ELSE "touchbegin")
    /\ logOpen' = IF shell = "wsh51" THEN logOpen \ {w} ELSE logOpen
    /\ Counted(w)
    /\ UNCHANGED <<config, dirVars, reported, step, doing, pipe>>

(* Exec, which returns at once, or Run, which lends the log to vivado. *)
LaunchVivado(w) ==
    /\ pc[w] = "launch"
    /\ proc' = [proc EXCEPT ![w] = "running"]
    /\ Goto(w, IF shell = "wsh51" THEN "wait" ELSE "touchbegin")
    /\ logOpen' = IF shell = "wsh51" THEN logOpen \ {w} ELSE logOpen
    /\ Counted(w)
    /\ UNCHANGED <<config, dirVars, reported, step, doing, pipe>>

(* Mutant: the output is read when there is none. *)
DrainEmpty(w) ==
    /\ pc[w] = "wait" /\ proc[w] = "running" /\ pipe[w] = 0
    /\ pipe' = [pipe EXCEPT ![w] = 0]
    /\ UNCHANGED <<config, dirVars, logOpen, wrapVars, proc, step, doing, late>>

(* The loop that waits for vivado copies its output to the log. *)
Drain(w) ==
    /\ pc[w] = "wait" /\ proc[w] = "running" /\ pipe[w] > 0
    /\ pipe' = [pipe EXCEPT ![w] = 0]
    /\ UNCHANGED <<config, dirVars, logOpen, wrapVars, proc, step, doing, late>>

VivadoOver(w) ==
    /\ pc[w] = "wait" /\ proc[w] \in {"ok", "failed"}
    /\ Goto(w, IF shell = "wsh51" THEN "reopenlog" ELSE "report")
    /\ logOpen' = logOpen \ {w}
    /\ UNCHANGED <<config, dirVars, reported, procVars, late>>

Wrapper(w) ==
    \/ OpenLog(w) \/ TouchFile(w) \/ OpenBusy(w) \/ OpenThrows(w)
    \/ CheckStop(w) \/ LaunchVivado(w) \/ Drain(w) \/ VivadoOver(w)
-----------------------------------------------------------------------------
Name(w) == Steps[step[w] + 1]
Runs(w, where) == proc[w] = "running" /\ step[w] < Len(Steps) /\ doing[w] = where
Exit(w, code) == proc' = [proc EXCEPT ![w] = code]
Does(w, where) == doing' = [doing EXCEPT ![w] = where]

(* Mutant: a step starts whether there is a stop file or not. *)
StartStepUnstopped(w) ==
    /\ Runs(w, "check")
    /\ Does(w, "begin")
    /\ UNCHANGED <<config, dirVars, logOpen, wrapVars, proc, step, pipe, late>>

(* Mutant: the begin file is written before the stop file is looked for. *)
StartStepBegun(w) ==
    /\ Runs(w, "check")
    /\ files' = files \union {<<Name(w), "begin">>}
    /\ IF stop /\ flow = "impl_1" THEN Exit(w, "failed") /\ UNCHANGED doing
                                  ELSE Does(w, "begin") /\ UNCHANGED proc
    /\ UNCHANGED <<config, stop, logOpen, wrapVars, step, pipe, late>>

(* start_step looks for .stop.rst; the synthesis script does not. *)
StartStep(w) ==
    /\ Runs(w, "check")
    /\ IF stop /\ flow = "impl_1" THEN Exit(w, "failed") /\ UNCHANGED doing
                                  ELSE Does(w, "begin") /\ UNCHANGED proc
    /\ UNCHANGED <<config, dirVars, logOpen, wrapVars, step, pipe, late>>

BeginStep(w) ==
    /\ Runs(w, "begin")
    /\ Does(w, "work")
    /\ files' = files \union {<<Name(w), "begin">>}
    /\ Counted(w)
    /\ UNCHANGED <<config, stop, logOpen, wrapVars, proc, step, pipe>>

(* Vivado writes a line, to a pipe with room or to a file.  It does not    *)
(* wait for a reader that is gone.                                         *)
WriteLine(w) ==
    /\ Runs(w, "work")
    /\ IF shell # "wsh56" \/ pc[w] \in Gone
         THEN UNCHANGED pipe
         ELSE pipe[w] < PipeSize /\ pipe' = [pipe EXCEPT ![w] = @ + 1]
    /\ Does(w, "finish")
    /\ UNCHANGED <<config, dirVars, logOpen, wrapVars, proc, step, late>>

(* Mutant: the begin file of every step is replaced. *)
EndStepReplacing(w) ==
    /\ Runs(w, "finish")
    /\ files' = (files \ {<<Name(w), "begin">>}) \union {<<Name(w), "end">>}
    /\ step' = [step EXCEPT ![w] = @ + 1]
    /\ Does(w, "check")
    /\ UNCHANGED <<config, stop, logOpen, wrapVars, proc, pipe, late>>

(* end_step; synthesis replaces one mark by another. *)
EndStep(w) ==
    /\ Runs(w, "finish")
    /\ files' = (IF flow = "impl_1" THEN files ELSE files \ {<<Name(w), "begin">>})
                  \union {<<Name(w), "end">>}
    /\ step' = [step EXCEPT ![w] = @ + 1]
    /\ Does(w, "check")
    /\ UNCHANGED <<config, stop, logOpen, wrapVars, proc, pipe, late>>

(* step_failed; synthesis leaves its mark. *)
StepFails(w) ==
    /\ Runs(w, "finish")
    /\ Exit(w, "failed")
    /\ files' = IF flow = "impl_1" THEN files \union {<<Name(w), "error">>} ELSE files
    /\ UNCHANGED <<config, stop, logOpen, wrapVars, step, doing, pipe, late>>

ScriptOver(w) ==
    /\ proc[w] = "running" /\ step[w] = Len(Steps)
    /\ Exit(w, "ok")
    /\ UNCHANGED <<config, dirVars, logOpen, wrapVars, step, doing, pipe, late>>

(* Vivado crashes, or was not found. *)
Crash(w) ==
    /\ proc[w] = "running"
    /\ Exit(w, "failed")
    /\ UNCHANGED <<config, dirVars, logOpen, wrapVars, step, doing, pipe, late>>

Script(w) ==
    StartStep(w) \/ BeginStep(w) \/ WriteLine(w) \/ EndStep(w) \/ StepFails(w) \/ ScriptOver(w)

Next ==
    \/ RequestStop \/ Clean
    \/ \E w \in Launches : Launch(w) \/ Kill(w) \/ Wrapper(w) \/ Script(w) \/ Crash(w)

Spec == Init /\ [][Next]_vars

FairSpec == Spec /\ \A w \in Launches : WF_vars(Wrapper(w)) /\ WF_vars(Script(w))
-----------------------------------------------------------------------------
TypeOK ==
    /\ shell \in {"wsh56", "wsh51", "sh"} /\ flow \in {"synth_1", "impl_1"} /\ ported \in BOOLEAN
    /\ files \subseteq StepNames \X {"begin", "end", "error"} /\ stop \in BOOLEAN
    /\ logOpen \subseteq Launches
    /\ pc \in [Launches -> Places]
    /\ tries \in [Launches -> 0..(MaxTries - 1)]
    /\ reported \in [Launches -> {"none", "end", "error"}]
    /\ proc \in [Launches -> {"none", "running", "ok", "failed"}]
    /\ step \in [Launches -> 0..Len(Steps)]
    /\ doing \in [Launches -> {"check", "begin", "work", "finish"}]
    /\ pipe \in [Launches -> 0..PipeSize]
    /\ late \in [Launches -> Nat]

Status(w) ==
    CASE reported[w] = "end"   -> "ended"
      [] reported[w] = "error" -> "failed"
      [] reported[w] = "none"  -> IF proc[w] = "none" THEN "new" ELSE "running"

Tracker == INSTANCE RunStatus WITH
    total <- Len(Steps), done <- step, status <- [w \in Launches |-> Status(w)]

(* However a run is driven, it is reported as ended only when vivado has   *)
(* ended all steps of its script, and reported once.                       *)
TrackerSpec == Tracker!Spec

(* After a stop request, an implementation run comes past one more check   *)
(* at most: either vivado is still launched, and its script begins no      *)
(* step, or the script begins one step.                                    *)
StopBounded == flow = "impl_1" => \A w \in Launches : late[w] <= 1

(* The status files of an implementation run are in order, even of runs    *)
(* that share them: what has ended or failed has begun, and no step begins *)
(* before the end of the one before it.                                    *)
FilesInOrder ==
    flow = "impl_1" =>
        /\ \A s \in StepNames : <<s, "end">> \in files \/ <<s, "error">> \in files => <<s, "begin">> \in files
        /\ \A i \in 2..Len(ImplSteps) :
              <<ImplSteps[i], "begin">> \in files => <<ImplSteps[i - 1], "end">> \in files

(* A wrapper that cannot open a file leaves a running vivado alone only    *)
(* with WSH 5.6, which launches it before the begin file is there.         *)
OrphansOfNewHost ==
    \A w \in Launches : proc[w] = "running" /\ pc[w] = "gaveup" => shell = "wsh56"

(* When nobody is at work, a step is shown as running for ever only if     *)
(* vivado crashed in it, or if it is the first and its begin file was left *)
(* by a launch that did not come to it.                                    *)
DanglingExplained ==
    flow = "impl_1" /\ (\A w \in Launches : ~Active(w)) =>
        \A i \in DOMAIN ImplSteps :
            LET s == ImplSteps[i] IN
            <<s, "begin">> \in files /\ <<s, "end">> \notin files /\ <<s, "error">> \notin files =>
                \E w \in Launches :
                    /\ step[w] = i - 1 /\ pc[w] \notin {"idle", "refused"}
                    /\ i > 1 => proc[w] = "failed" /\ doing[w] \in {"work", "finish"}

(* Every run that was launched is reported, unless its wrapper is gone:    *)
(* neither waits for the other for ever.                                   *)
RunsReported ==
    \A w \in Launches : (proc[w] # "none") ~> (reported[w] # "none" \/ pc[w] \in Gone)
=============================================================================
