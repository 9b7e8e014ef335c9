--------------------------- MODULE ISEWrapProofs ---------------------------
(***************************************************************************)
(* Proofs about ISEWrap for any number of launches, any steps, any number  *)
(* of attempts and any size of the pipe.                                   *)
(***************************************************************************)
EXTENDS ISEWrap, TLAPS

LEMMA StepsFacts ==
    /\ Steps \in Seq(StepNames) /\ Len(Steps) \in Nat \ {0}
    /\ ImplSteps \in Seq(StepNames) /\ Head(ImplSteps) = ImplSteps[1] /\ Len(ImplSteps) \in Nat \ {0}
    /\ \A i \in 1..Len(Steps) : Steps[i] \in StepNames
  <1>1. ImplSteps \in Seq(StepNames)
    BY StepsAssumption DEF StepNames
  <1>2. ImplSteps # <<>>
    BY StepsAssumption
  <1>3. Len(ImplSteps) \in Nat \ {0} /\ Head(ImplSteps) = ImplSteps[1]
    BY <1>1, <1>2
  <1>4. <<"synthesis">> \in Seq(StepNames) /\ Len(<<"synthesis">>) = 1
    BY DEF StepNames
  <1>5. Steps \in Seq(StepNames) /\ Len(Steps) \in Nat \ {0}
    BY <1>1, <1>3, <1>4 DEF Steps
  <1>6. \A i \in 1..Len(Steps) : Steps[i] \in StepNames
    BY <1>5
  <1> QED BY <1>1, <1>3, <1>5, <1>6

LEMMA StepsCount == Len(Steps) \in Nat \ {0}
  BY StepsFacts

(* Nobody changes the host or the run directory. *)
LEMMA ConfigStays == [Next]_vars => UNCHANGED config
  <1> SUFFICES ASSUME [Next]_vars PROVE UNCHANGED config
    OBVIOUS
  <1> USE DEF config
  <1>1. ASSUME NEW w \in Launches, Wrapper(w) PROVE UNCHANGED config
    BY <1>1 DEF Wrapper, OpenLog, TouchFile, OpenBusy, OpenThrows, CheckStop, LaunchVivado, Drain, VivadoOver
  <1>2. ASSUME NEW w \in Launches, Script(w) PROVE UNCHANGED config
    BY <1>2 DEF Script, StartStep, BeginStep, WriteLine, EndStep, StepFails, ScriptOver
  <1> QED BY <1>1, <1>2 DEF Next, vars, RequestStop, Clean, Launch, Kill, Crash

LEMMA StepsStay == [Next]_vars => Steps' = Steps
  BY ConfigStays DEF config, Steps

(* Where a wrapper goes is a place, and it starts to count attempts anew. *)
LEMMA GotoType ==
    ASSUME TypeOK, NEW w \in Launches, NEW where \in Places, Goto(w, where)
    PROVE  pc' \in [Launches -> Places] /\ tries' \in [Launches -> 0..(MaxTries - 1)]
  <1>1. pc' = [pc EXCEPT ![w] = where] /\ pc \in [Launches -> Places]
    BY DEF Goto, TypeOK
  <1>2. tries' = [tries EXCEPT ![w] = 0] /\ tries \in [Launches -> 0..(MaxTries - 1)] /\ 0 \in 0..(MaxTries - 1)
    BY SizeAssumption DEF Goto, TypeOK
  <1> QED BY <1>1, <1>2

LEMMA AfterOpenType == \A w \in Launches : pc[w] \in Opening => AfterOpen(w) \in Places
  BY DEF AfterOpen, RunDef, ImplRunDef, SynthRunDef, Opening, Over, Places

LEMMA StatusFileType ==
    \A w \in Launches : pc[w] \in {"pretouch", "touchbegin", "report"} =>
        StatusFile(w) \in StepNames \X {"begin", "end", "error"}
  BY StepsFacts DEF StatusFile, StepNames

LEMMA InitTypeOK == Init => TypeOK
  <1> SUFFICES ASSUME Init PROVE TypeOK
    OBVIOUS
  <1>1. pc \in [Launches -> Places]
    BY DEF Init, Places, Over
  <1>2. /\ tries \in [Launches -> 0..(MaxTries - 1)]
        /\ pipe \in [Launches -> 0..PipeSize] /\ step \in [Launches -> 0..Len(Steps)]
    BY StepsCount, SizeAssumption DEF Init
  <1> QED BY <1>1, <1>2 DEF Init, TypeOK

LEMMA NextTypeOK == TypeOK /\ [Next]_vars => TypeOK'
  <1> SUFFICES ASSUME TypeOK, [Next]_vars PROVE TypeOK'
    OBVIOUS
  <1>0. Steps' = Steps
    BY StepsStay
  <1> USE <1>0, StepsCount, SizeAssumption DEF TypeOK, config, dirVars, wrapVars, procVars
  <1>1. CASE UNCHANGED vars
    BY <1>1 DEF vars
  <1>2. CASE RequestStop \/ Clean
    BY <1>2 DEF RequestStop, Clean
  <1>3. ASSUME NEW w \in Launches, Launch(w) \/ Kill(w) PROVE TypeOK'
    <2>1. PICK where \in Places : Goto(w, where)
      BY <1>3 DEF Launch, Kill, RunDef, ImplRunDef, SynthRunDef, Places, Opening, Over, Gone
    <2> QED BY <1>3, <2>1, GotoType DEF Launch, Kill
  <1>4. ASSUME NEW w \in Launches, Wrapper(w) PROVE TypeOK'
    <2>1. CASE OpenLog(w)
      <3>1. Goto(w, AfterOpen(w)) /\ AfterOpen(w) \in Places
        BY <2>1, AfterOpenType DEF OpenLog, Opening
      <3> QED BY <2>1, <3>1, GotoType DEF OpenLog
    <2>2. CASE TouchFile(w)
      <3>1. Goto(w, AfterOpen(w)) /\ AfterOpen(w) \in Places
        BY <2>2, AfterOpenType DEF TouchFile, Opening
      <3>2. StatusFile(w) \in StepNames \X {"begin", "end", "error"}
        BY <2>2, StatusFileType DEF TouchFile
      <3>3. reported' \in [Launches -> {"none", "end", "error"}]
        <4>1. pc[w] = "report" => StatusFile(w)[2] \in {"end", "error"}
          BY DEF StatusFile
        <4>2. reported' = [reported EXCEPT ![w] = IF pc[w] = "report" THEN StatusFile(w)[2] ELSE @]
          BY <2>2 DEF TouchFile
        <4> QED BY <4>1, <4>2
      <3> QED BY <2>2, <3>1, <3>2, <3>3, GotoType DEF TouchFile
    <2>3. CASE OpenBusy(w)
      <3>1. pc' \in [Launches -> Places] /\ tries' \in [Launches -> 0..(MaxTries - 1)]
        <4>1. CASE tries[w] + 1 < MaxTries
          <5>1. tries' = [tries EXCEPT ![w] = tries[w] + 1] /\ pc' = pc /\ tries[w] \in 0..(MaxTries - 1)
            BY <2>3, <4>1 DEF OpenBusy
          <5>2. tries[w] + 1 \in 0..(MaxTries - 1)
            BY <4>1, <5>1
          <5>3. tries \in [Launches -> 0..(MaxTries - 1)] /\ pc \in [Launches -> Places]
            OBVIOUS
          <5> QED BY <5>1, <5>2, <5>3
        <4>2. CASE ~(tries[w] + 1 < MaxTries)
          BY <2>3, <4>2, GotoType DEF OpenBusy, Places, Over, Gone
        <4> QED BY <4>1, <4>2
      <3> QED BY <2>3, <3>1 DEF OpenBusy
    <2>4. CASE OpenThrows(w)
      BY <2>4, GotoType DEF OpenThrows, Places, Over, Gone
    <2>5. CASE CheckStop(w)
      <3>1. PICK where \in Places : Goto(w, where)
        BY <2>5 DEF CheckStop, Places, Opening, Over
      <3> QED BY <2>5, <3>1, GotoType DEF CheckStop
    <2>6. CASE LaunchVivado(w)
      <3>1. PICK where \in Places : Goto(w, where)
        BY <2>6 DEF LaunchVivado, Places, Opening
      <3>2. late' \in [Launches -> Nat]
        BY <2>6 DEF LaunchVivado, Counted
      <3>3. proc' \in [Launches -> {"none", "running", "ok", "failed"}]
        BY <2>6 DEF LaunchVivado
      <3> QED BY <2>6, <3>1, <3>2, <3>3, GotoType DEF LaunchVivado
    <2>7. CASE Drain(w)
      BY <2>7 DEF Drain
    <2>8. CASE VivadoOver(w)
      <3>1. PICK where \in Places : Goto(w, where)
        BY <2>8 DEF VivadoOver, Places, Opening
      <3> QED BY <2>8, <3>1, GotoType DEF VivadoOver
    <2> QED BY <1>4, <2>1, <2>2, <2>3, <2>4, <2>5, <2>6, <2>7, <2>8 DEF Wrapper
  <1>5. ASSUME NEW w \in Launches, Script(w) \/ Crash(w) PROVE TypeOK'
    <2> USE DEF Runs, Does, Exit
    <2>1. CASE StartStep(w) \/ ScriptOver(w) \/ Crash(w)
      BY <2>1 DEF StartStep, ScriptOver, Crash
    <2>2. Runs(w, "begin") \/ Runs(w, "finish") => Name(w) \in StepNames
      BY StepsFacts DEF Name
    <2>3. CASE BeginStep(w)
      BY <2>2, <2>3 DEF BeginStep, Counted
    <2>4. CASE WriteLine(w)
      BY <2>4 DEF WriteLine
    <2>5. CASE EndStep(w)
      BY <2>2, <2>5 DEF EndStep
    <2>6. CASE StepFails(w)
      BY <2>2, <2>6 DEF StepFails
    <2> QED BY <1>5, <2>1, <2>3, <2>4, <2>5, <2>6 DEF Script
  <1> QED BY <1>1, <1>2, <1>3, <1>4, <1>5 DEF Next

(* Files, attempts, exit codes and output stay what they may be: no script *)
(* runs past its last step, no pipe holds more than it can.                *)
THEOREM RunTypeCorrect == Spec => []TypeOK
  BY InitTypeOK, NextTypeOK, PTL DEF Spec
-----------------------------------------------------------------------------
Acts(w) == Launch(w) \/ Kill(w) \/ Wrapper(w) \/ Script(w) \/ Crash(w)

Same(v) ==
    /\ pc'[v] = pc[v] /\ reported'[v] = reported[v] /\ proc'[v] = proc[v]
    /\ step'[v] = step[v] /\ doing'[v] = doing[v] /\ late'[v] = late[v]

(* A launch changes nothing of another one. *)
LEMMA OthersStay ==
    ASSUME TypeOK, NEW w \in Launches, Acts(w), NEW v \in Launches, v # w
    PROVE  Same(v)
  <1> USE DEF Same, wrapVars, procVars, TypeOK
  <1>1. CASE Launch(w) \/ Kill(w)
    BY <1>1 DEF Launch, Kill, Goto
  <1>2. CASE Wrapper(w)
    <2>1. CASE OpenLog(w) \/ TouchFile(w)
      BY <2>1 DEF OpenLog, TouchFile, Goto
    <2>2. CASE OpenBusy(w) \/ OpenThrows(w)
      BY <2>2 DEF OpenBusy, OpenThrows, Goto
    <2>3. CASE CheckStop(w) \/ LaunchVivado(w)
      BY <2>3 DEF CheckStop, LaunchVivado, Goto, Counted
    <2>4. CASE Drain(w) \/ VivadoOver(w)
      BY <2>4 DEF Drain, VivadoOver, Goto
    <2> QED BY <1>2, <2>1, <2>2, <2>3, <2>4 DEF Wrapper
  <1>3. CASE Script(w)
    BY <1>3 DEF Script, StartStep, BeginStep, WriteLine, EndStep, StepFails, ScriptOver, Exit, Does, Counted
  <1>4. CASE Crash(w)
    BY <1>4 DEF Crash, Exit
  <1> QED BY <1>1, <1>2, <1>3, <1>4 DEF Acts

(* Where a wrapper, its vivado and the script are at the same time. *)
BeforeLaunch == {"idle", "refused", "openlog", "pretouch", "stopcheck", "halted", "launch"}

ProgressOf(w) ==
    /\ pc[w] \in BeforeLaunch \/ (pc[w] = "touchbegin" /\ shell = "wsh51") => proc[w] = "none"
    /\ proc[w] = "none" => step[w] = 0 /\ doing[w] = "check" /\ late[w] = 0
    /\ pc[w] \in {"reopenlog", "report", "over"} => proc[w] \in {"ok", "failed"}
    /\ reported[w] # "none" => pc[w] = "over"
    /\ reported[w] = "end" => proc[w] = "ok"
    /\ proc[w] = "ok" => step[w] = Len(Steps)

Progress == \A w \in Launches : ProgressOf(w)

LEMMA NextProgress == TypeOK /\ Progress /\ [Next]_vars => Progress'
  <1> SUFFICES ASSUME TypeOK, Progress, [Next]_vars, NEW v \in Launches PROVE ProgressOf(v)'
    BY DEF Progress
  <1>0. Steps' = Steps /\ shell' = shell /\ flow' = flow
    BY StepsStay, ConfigStays DEF config
  <1>1. ProgressOf(v)
    BY DEF Progress
  <1>2. ASSUME Same(v) PROVE ProgressOf(v)'
    BY <1>0, <1>1, <1>2 DEF Same, ProgressOf
  <1>3. CASE UNCHANGED vars \/ RequestStop \/ Clean
    BY <1>2, <1>3 DEF vars, wrapVars, procVars, Same, RequestStop, Clean
  <1>4. ASSUME NEW w \in Launches, Acts(w), w # v PROVE ProgressOf(v)'
    BY <1>2, <1>4, OthersStay
  <1>5. ASSUME Acts(v) PROVE ProgressOf(v)'
    <2> USE <1>0, <1>1 DEF ProgressOf, BeforeLaunch, TypeOK, wrapVars, procVars
    <2>1. CASE Launch(v) \/ Kill(v)
      BY <2>1 DEF Launch, Kill, Goto, RunDef, ImplRunDef, SynthRunDef, Over, Gone
    <2>2. CASE OpenLog(v)
      BY <2>2 DEF OpenLog, AfterOpen, Goto, RunDef, ImplRunDef, SynthRunDef
    <2>3. CASE TouchFile(v)
      BY <2>3 DEF TouchFile, AfterOpen, StatusFile, Goto
    <2>4. CASE OpenBusy(v) \/ OpenThrows(v)
      BY <2>4 DEF OpenBusy, OpenThrows, Goto, Opening
    <2>5. CASE CheckStop(v)
      BY <2>5 DEF CheckStop, Goto
    <2>6. CASE LaunchVivado(v)
      BY <2>6 DEF LaunchVivado, Goto, Counted
    <2>7. CASE Drain(v) \/ VivadoOver(v)
      BY <2>7 DEF Drain, VivadoOver, Goto
    <2>8. CASE Script(v)
      BY <2>8 DEF Script, StartStep, BeginStep, WriteLine, EndStep, StepFails, ScriptOver, Runs, Exit, Does, Counted
    <2>9. CASE Crash(v)
      BY <2>9 DEF Crash, Exit
    <2> QED BY <1>5, <2>1, <2>2, <2>3, <2>4, <2>5, <2>6, <2>7, <2>8, <2>9 DEF Acts, Wrapper
  <1> QED BY <1>3, <1>4, <1>5 DEF Next, Acts

LEMMA InitProgress == Init => Progress
  BY StepsCount DEF Init, Progress, ProgressOf, BeforeLaunch

LEMMA RunInvariants == Spec => [](TypeOK /\ Progress)
  BY InitTypeOK, NextTypeOK, InitProgress, NextProgress, PTL DEF Spec
-----------------------------------------------------------------------------
(* With WSH 5.1 the script sleeps in Run while vivado runs; a shell script *)
(* never fails to open a file.                                             *)
Waits(w) ==
    /\ shell = "wsh51" /\ proc[w] = "running" => pc[w] \in {"wait", "killed"}
    /\ shell = "sh" => pc[w] # "gaveup"

LEMMA NextWaits ==
    TypeOK /\ Progress /\ (\A w \in Launches : Waits(w)) /\ [Next]_vars => (\A w \in Launches : Waits(w))'
  <1> SUFFICES ASSUME TypeOK, Progress, \A w \in Launches : Waits(w), [Next]_vars, NEW v \in Launches
               PROVE  Waits(v)'
    OBVIOUS
  <1>0. shell' = shell /\ Waits(v) /\ ProgressOf(v)
    BY ConfigStays DEF config, Progress
  <1>2. ASSUME Same(v) PROVE Waits(v)'
    BY <1>0, <1>2 DEF Same, Waits
  <1>3. CASE UNCHANGED vars \/ RequestStop \/ Clean
    BY <1>2, <1>3 DEF vars, wrapVars, procVars, Same, RequestStop, Clean
  <1>4. ASSUME NEW w \in Launches, Acts(w), w # v PROVE Waits(v)'
    BY <1>2, <1>4, OthersStay
  <1>5. ASSUME Acts(v) PROVE Waits(v)'
    <2> USE <1>0 DEF Waits, TypeOK, wrapVars, procVars
    <2>1. CASE Launch(v) \/ Kill(v)
      BY <2>1 DEF Launch, Kill, Goto, RunDef, ImplRunDef, SynthRunDef, ProgressOf, BeforeLaunch
    <2>2. CASE OpenLog(v) \/ TouchFile(v)
      BY <2>2 DEF OpenLog, TouchFile, AfterOpen, Goto, RunDef, ImplRunDef, SynthRunDef, ProgressOf, BeforeLaunch
    <2>3. CASE OpenBusy(v) \/ OpenThrows(v)
      BY <2>3 DEF OpenBusy, OpenThrows, Goto, Opening
    <2>4. CASE CheckStop(v) \/ LaunchVivado(v)
      BY <2>4 DEF CheckStop, LaunchVivado, Goto, ProgressOf, BeforeLaunch
    <2>5. CASE Drain(v) \/ VivadoOver(v)
      BY <2>5 DEF Drain, VivadoOver, Goto
    <2>6. CASE Script(v) \/ Crash(v)
      BY <2>6 DEF Script, StartStep, BeginStep, WriteLine, EndStep, StepFails, ScriptOver, Crash, Runs, Exit
    <2> QED BY <1>5, <2>1, <2>2, <2>3, <2>4, <2>5, <2>6 DEF Acts, Wrapper
  <1> QED BY <1>3, <1>4, <1>5 DEF Next, Acts

(* A wrapper that cannot open a file leaves a running vivado alone only    *)
(* with WSH 5.6, which launches it before the begin file is there.         *)
THEOREM OrphansOfNewHostOnly == Spec => []OrphansOfNewHost
  <1>1. Init => \A w \in Launches : Waits(w)
    BY DEF Init, Waits
  <1>2. TypeOK /\ (\A w \in Launches : Waits(w)) => OrphansOfNewHost
    BY DEF TypeOK, Waits, OrphansOfNewHost
  <1> QED BY <1>1, <1>2, NextWaits, RunInvariants, PTL DEF Spec
-----------------------------------------------------------------------------
(* What has come past a check since the stop request runs on under it, and *)
(* a script that is about to begin a step has not done so yet.             *)
StoppedOf(w) ==
    /\ late[w] <= 1
    /\ proc[w] = "running" /\ late[w] # 0 => stop
    /\ proc[w] = "running" /\ doing[w] = "begin" => late[w] = 0

Stopped == flow = "impl_1" => \A w \in Launches : StoppedOf(w)

LEMMA NextStopped == TypeOK /\ Progress /\ Stopped /\ [Next]_vars => Stopped'
  <1> SUFFICES ASSUME TypeOK, Progress, Stopped, [Next]_vars, flow' = "impl_1", NEW v \in Launches
               PROVE  StoppedOf(v)'
    BY DEF Stopped
  <1>0. StoppedOf(v) /\ ProgressOf(v) /\ flow = "impl_1"
    BY ConfigStays DEF config, Stopped, Progress
  <1>1. CASE UNCHANGED vars
    BY <1>0, <1>1 DEF vars, dirVars, procVars, StoppedOf
  <1>2. CASE RequestStop
    BY <1>0, <1>2 DEF RequestStop, procVars, StoppedOf
  <1>3. CASE Clean
    BY <1>0, <1>3 DEF Clean, Active, procVars, StoppedOf
  <1>4. ASSUME NEW w \in Launches, Acts(w) PROVE stop' = stop
    BY <1>4 DEF Acts, Launch, Kill, Wrapper, OpenLog, TouchFile, OpenBusy, OpenThrows, CheckStop, LaunchVivado,
       Drain, VivadoOver, Script, StartStep, BeginStep, WriteLine, EndStep, StepFails, ScriptOver, Crash, dirVars
  <1>5. ASSUME NEW w \in Launches, Acts(w), w # v PROVE StoppedOf(v)'
    BY <1>0, <1>4, <1>5, OthersStay DEF Same, StoppedOf
  <1>6. ASSUME Acts(v) PROVE StoppedOf(v)'
    <2> USE <1>0 DEF StoppedOf, TypeOK, procVars, dirVars
    <2>1. CASE Launch(v) \/ Kill(v) \/ (Wrapper(v) /\ ~LaunchVivado(v)) \/ Crash(v)
      BY <2>1 DEF Launch, Kill, Wrapper, OpenLog, TouchFile, OpenBusy, OpenThrows, CheckStop, Drain, VivadoOver, Crash, Exit
    <2>2. CASE LaunchVivado(v)
      BY <2>2 DEF LaunchVivado, Counted, ProgressOf, BeforeLaunch
    <2>3. CASE StartStep(v)
      BY <2>3 DEF StartStep, Exit, Does, Runs
    <2>4. CASE BeginStep(v)
      BY <2>4 DEF BeginStep, Does, Runs, Counted
    <2>5. CASE WriteLine(v) \/ EndStep(v) \/ StepFails(v) \/ ScriptOver(v)
      BY <2>5 DEF WriteLine, EndStep, StepFails, ScriptOver, Exit, Does, Runs
    <2> QED BY <1>6, <2>1, <2>2, <2>3, <2>4, <2>5 DEF Acts, Script
  <1> QED BY <1>1, <1>2, <1>3, <1>5, <1>6 DEF Next, Acts

(* After a stop request an implementation run passes one more check at     *)
(* most, with any number of steps.                                         *)
THEOREM StopAlwaysBounded == Spec => []StopBounded
  <1>1. Init => Stopped
    BY DEF Init, Stopped, StoppedOf
  <1>2. Stopped => StopBounded
    BY DEF Stopped, StoppedOf, StopBounded
  <1> QED BY <1>1, <1>2, NextStopped, RunInvariants, PTL DEF Spec
-----------------------------------------------------------------------------
(* The status files of an implementation run: who is at work has left the  *)
(* files that say how far it has come.                                     *)
Marked(w) ==
    /\ proc[w] = "running" => \A i \in 1..step[w] : <<ImplSteps[i], "end">> \in files
    /\ Runs(w, "work") \/ Runs(w, "finish") => <<Name(w), "begin">> \in files
    /\ pc[w] \in {"wait", "reopenlog", "report"} \/ (pc[w] = "launch" /\ shell = "wsh51")
          => <<"vivado", "begin">> \in files

Ordered == flow = "impl_1" => FilesInOrder /\ \A w \in Launches : Marked(w)

(* A begin file may come once the step before has ended, any other file    *)
(* once its step has begun.                                                *)
LEMMA AddMark ==
    ASSUME FilesInOrder, flow = "impl_1", NEW s \in StepNames, NEW mark \in {"begin", "end", "error"},
           files' = files \union {<<s, mark>>},
           mark # "begin" => <<s, "begin">> \in files,
           mark = "begin" => \A i \in 2..Len(ImplSteps) : ImplSteps[i] = s => <<ImplSteps[i - 1], "end">> \in files
    PROVE  FilesInOrder'
  <1>1. ASSUME NEW r \in StepNames, <<r, "end">> \in files' \/ <<r, "error">> \in files' PROVE <<r, "begin">> \in files'
    BY <1>1 DEF FilesInOrder
  <1>2. ASSUME NEW i \in 2..Len(ImplSteps), <<ImplSteps[i], "begin">> \in files'
        PROVE  <<ImplSteps[i - 1], "end">> \in files'
    <2>1. CASE <<ImplSteps[i], "begin">> \in files
      BY <2>1 DEF FilesInOrder
    <2>2. CASE <<ImplSteps[i], "begin">> = <<s, mark>>
      BY <2>2
    <2> QED BY <1>2, <2>1, <2>2
  <1> QED BY <1>1, <1>2 DEF FilesInOrder

(* The files an implementation run leaves in one step, if any. *)
LEMMA FilesGrow ==
    ASSUME flow = "impl_1", NEW w \in Launches, Acts(w)
    PROVE  \/ files' = files
           \/ /\ pc[w] \in {"pretouch", "touchbegin", "report"} /\ TouchFile(w)
              /\ files' = files \union {StatusFile(w)}
           \/ BeginStep(w) /\ files' = files \union {<<Name(w), "begin">>}
           \/ EndStep(w) /\ files' = files \union {<<Name(w), "end">>}
           \/ StepFails(w) /\ files' = files \union {<<Name(w), "error">>}
  <1> USE DEF dirVars
  <1>1. CASE Launch(w) \/ Kill(w) \/ Crash(w)
    BY <1>1 DEF Launch, Kill, Crash
  <1>2. CASE Wrapper(w)
    BY <1>2 DEF Wrapper, OpenLog, TouchFile, OpenBusy, OpenThrows, CheckStop, LaunchVivado, Drain, VivadoOver
  <1>3. CASE Script(w)
    BY <1>3 DEF Script, StartStep, BeginStep, WriteLine, EndStep, StepFails, ScriptOver
  <1> QED BY <1>1, <1>2, <1>3 DEF Acts

LEMMA NameIsStep ==
    ASSUME flow = "impl_1", TypeOK, NEW w \in Launches, proc[w] = "running", step[w] < Len(Steps)
    PROVE  /\ step[w] + 1 \in 1..Len(ImplSteps) /\ step[w] + 1 \in DOMAIN ImplSteps
           /\ Name(w) = ImplSteps[step[w] + 1] /\ Name(w) \in StepNames
  BY StepsFacts DEF TypeOK, Name, Steps

LEMMA NextOrdered == TypeOK /\ Progress /\ Ordered /\ [Next]_vars => Ordered'
  <1> SUFFICES ASSUME TypeOK, Progress, Ordered, [Next]_vars, flow' = "impl_1"
               PROVE  FilesInOrder' /\ \A v \in Launches : Marked(v)'
    BY DEF Ordered
  <1>0. /\ flow = "impl_1" /\ FilesInOrder /\ (\A v \in Launches : Marked(v))
        /\ Steps' = Steps /\ Steps = ImplSteps /\ shell' = shell
    BY StepsStay, ConfigStays DEF config, Ordered, Steps
  <1>1. CASE UNCHANGED vars \/ RequestStop
    <2>1. files' = files /\ pc' = pc /\ proc' = proc /\ step' = step /\ doing' = doing
      BY <1>1 DEF vars, dirVars, wrapVars, procVars, RequestStop
    <2> QED BY <1>0, <2>1 DEF FilesInOrder, Marked, Runs, Name
  <1>2. CASE Clean
    BY <1>0, <1>2 DEF Clean, FilesInOrder, Marked, Active, Over, Gone, wrapVars, procVars, Runs
  <1>3. ASSUME NEW w \in Launches, Acts(w) PROVE FilesInOrder' /\ \A v \in Launches : Marked(v)'
    <2>0. Marked(w) /\ ProgressOf(w)
      BY <1>0 DEF Progress
    <2>1. files \subseteq files'
      BY <1>0, <1>3, FilesGrow
    <2>2. FilesInOrder'
      <3>1. CASE files' = files
        BY <1>0, <3>1 DEF FilesInOrder
      <3>2. CASE TouchFile(w) /\ files' = files \union {StatusFile(w)}
        <4>1. CASE pc[w] = "pretouch"
          <5>1. \A i \in 2..Len(ImplSteps) : ImplSteps[i] # ImplSteps[1]
            BY StepsFacts, StepsAssumption
          <5>2. StatusFile(w) = <<ImplSteps[1], "begin">> /\ ImplSteps[1] \in StepNames
            BY <4>1, StepsFacts DEF StatusFile, StepNames
          <5> QED BY <1>0, <3>2, <5>1, <5>2, AddMark
        <4>2. CASE pc[w] = "touchbegin"
          <5>1. \A i \in 2..Len(ImplSteps) : ImplSteps[i] # "vivado"
            BY StepsFacts, StepsAssumption
          <5>2. StatusFile(w) = <<"vivado", "begin">> /\ "vivado" \in StepNames
            BY <4>2 DEF StatusFile, StepNames
          <5> QED BY <1>0, <3>2, <5>1, <5>2, AddMark
        <4>3. CASE pc[w] = "report"
          <5>1. PICK mark \in {"end", "error"} : StatusFile(w) = <<"vivado", mark>>
            BY <4>3 DEF StatusFile
          <5>2. "vivado" \in StepNames /\ <<"vivado", "begin">> \in files
            BY <2>0, <4>3 DEF Marked, StepNames
          <5> QED BY <1>0, <3>2, <5>1, <5>2, AddMark
        <4> QED BY <3>2, <4>1, <4>2, <4>3 DEF TouchFile
      <3>3. CASE BeginStep(w) /\ files' = files \union {<<Name(w), "begin">>}
        <4>1. proc[w] = "running" /\ step[w] < Len(Steps)
          BY <3>3 DEF BeginStep, Runs
        <4>2. ASSUME NEW i \in 2..Len(ImplSteps), ImplSteps[i] = Name(w)
              PROVE  <<ImplSteps[i - 1], "end">> \in files
          <5>1. i = step[w] + 1
            BY <1>0, <4>1, <4>2, NameIsStep, StepsAssumption, StepsFacts
          <5> QED BY <2>0, <4>1, <5>1 DEF Marked, TypeOK
        <4> QED BY <1>0, <3>3, <4>1, <4>2, NameIsStep, AddMark
      <3>4. CASE EndStep(w) /\ files' = files \union {<<Name(w), "end">>}
        <4>1. proc[w] = "running" /\ step[w] < Len(Steps) /\ <<Name(w), "begin">> \in files
          BY <2>0, <3>4 DEF EndStep, Runs, Marked
        <4> QED BY <1>0, <3>4, <4>1, NameIsStep, AddMark
      <3>5. CASE StepFails(w) /\ files' = files \union {<<Name(w), "error">>}
        <4>1. proc[w] = "running" /\ step[w] < Len(Steps) /\ <<Name(w), "begin">> \in files
          BY <2>0, <3>5 DEF StepFails, Runs, Marked
        <4> QED BY <1>0, <3>5, <4>1, NameIsStep, AddMark
      <3> QED BY <1>0, <1>3, <3>1, <3>2, <3>3, <3>4, <3>5, FilesGrow
    <2>3. ASSUME NEW v \in Launches, v # w PROVE Marked(v)'
      BY <1>0, <1>3, <2>1, <2>3, OthersStay DEF Same, Marked, Runs, Name
    <2>4. Marked(w)'
      <3> USE <1>0, <2>0, <2>1 DEF Marked, Runs, Name, TypeOK, wrapVars, procVars
      <3>1. CASE Launch(w) \/ Kill(w)
        BY <3>1 DEF Launch, Kill, Goto, RunDef, ImplRunDef, SynthRunDef
      <3>2. CASE OpenLog(w)
        BY <3>2 DEF OpenLog, AfterOpen, Goto, RunDef, ImplRunDef, SynthRunDef
      <3>3. CASE TouchFile(w)
        BY <3>3 DEF TouchFile, AfterOpen, StatusFile, Goto
      <3>4. CASE OpenBusy(w) \/ OpenThrows(w)
        BY <3>4 DEF OpenBusy, OpenThrows, Goto
      <3>5. CASE CheckStop(w)
        BY <3>5 DEF CheckStop, Goto
      <3>6. CASE LaunchVivado(w)
        BY <3>6 DEF LaunchVivado, Goto, ProgressOf, BeforeLaunch
      <3>7. CASE Drain(w) \/ VivadoOver(w)
        BY <3>7 DEF Drain, VivadoOver, Goto
      <3>8. CASE StartStep(w) \/ WriteLine(w) \/ StepFails(w) \/ ScriptOver(w) \/ Crash(w)
        BY <3>8 DEF StartStep, WriteLine, StepFails, ScriptOver, Crash, Exit, Does
      <3>9. CASE BeginStep(w)
        BY <3>9 DEF BeginStep, Does
      <3>10. CASE EndStep(w)
        <4>1. step'[w] = step[w] + 1 /\ step[w] \in Nat /\ doing'[w] = "check" /\ <<ImplSteps[step[w] + 1], "end">> \in files'
          BY <3>10 DEF EndStep, Does
        <4>2. \A i \in 1..(step[w] + 1) : <<ImplSteps[i], "end">> \in files'
          BY <3>10, <4>1 DEF EndStep
        <4> QED BY <3>10, <4>1, <4>2 DEF EndStep
      <3> QED BY <1>3, <3>1, <3>2, <3>3, <3>4, <3>5, <3>6, <3>7, <3>8, <3>9, <3>10 DEF Acts, Wrapper, Script
    <2> QED BY <2>2, <2>3, <2>4
  <1> QED BY <1>1, <1>2, <1>3 DEF Next, Acts

(* What has ended or failed has begun, and no step begins before the end   *)
(* of the one before it, with any number of launches in the directory.     *)
THEOREM FilesAlwaysInOrder == Spec => []FilesInOrder
  <1>1. Init => Ordered
    BY DEF Init, Ordered, FilesInOrder, Marked, Runs
  <1>2. Ordered => FilesInOrder
    BY DEF Ordered, FilesInOrder
  <1> QED BY <1>1, <1>2, NextOrdered, RunInvariants, PTL DEF Spec
-----------------------------------------------------------------------------
(* Who left the begin file of step i and neither of the other two. *)
LeftBy(w, i) ==
    /\ step[w] = i - 1 /\ pc[w] \notin {"idle", "refused"}
    /\ i > 1 => proc[w] \in {"running", "failed"} /\ doing[w] \in {"work", "finish"}

Dangling(i) ==
    LET s == ImplSteps[i] IN
    <<s, "begin">> \in files /\ <<s, "end">> \notin files /\ <<s, "error">> \notin files

Explained == flow = "impl_1" => \A i \in DOMAIN ImplSteps : Dangling(i) => \E w \in Launches : LeftBy(w, i)

(* A launch that left the file either still explains it or has ended or    *)
(* failed the step.                                                        *)
LEMMA LeftStays ==
    ASSUME TypeOK, Progress, flow = "impl_1", Steps' = Steps, NEW w \in Launches, Acts(w),
           NEW i \in DOMAIN ImplSteps, LeftBy(w, i), Dangling(i)'
    PROVE  LeftBy(w, i)'
  <1>0. ProgressOf(w) /\ i \in 1..Len(Steps) /\ Steps = ImplSteps
    BY StepsFacts DEF Progress, Steps
  <1> USE <1>0 DEF LeftBy, TypeOK, wrapVars, procVars
  <1>1. CASE Launch(w) \/ Kill(w)
    BY <1>1 DEF Launch, Kill, Goto
  <1>2. CASE OpenLog(w) \/ TouchFile(w)
    BY <1>2 DEF OpenLog, TouchFile, AfterOpen, Goto, RunDef, ImplRunDef, SynthRunDef
  <1>3. CASE OpenBusy(w) \/ OpenThrows(w)
    BY <1>3 DEF OpenBusy, OpenThrows, Goto
  <1>4. CASE CheckStop(w)
    BY <1>4 DEF CheckStop, Goto
  <1>5. CASE LaunchVivado(w)
    BY <1>5 DEF LaunchVivado, Goto
  <1>6. CASE Drain(w) \/ VivadoOver(w)
    BY <1>6 DEF Drain, VivadoOver, Goto
  <1>7. CASE StartStep(w) \/ BeginStep(w) \/ WriteLine(w) \/ StepFails(w) \/ Crash(w)
    BY <1>7 DEF StartStep, BeginStep, WriteLine, StepFails, Crash, Runs, Exit, Does, ProgressOf, BeforeLaunch
  <1>8. CASE ScriptOver(w)
    BY <1>8 DEF ScriptOver, Exit
  <1>9. CASE EndStep(w)
    BY <1>9 DEF EndStep, Name, Dangling
  <1> QED BY <1>1, <1>2, <1>3, <1>4, <1>5, <1>6, <1>7, <1>8, <1>9 DEF Acts, Wrapper, Script

(* Who leaves a begin file explains it. *)
LEMMA LeftAnew ==
    ASSUME TypeOK, Progress, flow = "impl_1", NEW w \in Launches, Acts(w), NEW i \in DOMAIN ImplSteps,
           <<ImplSteps[i], "begin">> \in files', <<ImplSteps[i], "begin">> \notin files
    PROVE  LeftBy(w, i)'
  <1>0. ProgressOf(w) /\ \A j \in DOMAIN ImplSteps : ImplSteps[j] = ImplSteps[i] => j = i
    BY StepsAssumption DEF Progress
  <1>1. CASE TouchFile(w) /\ files' = files \union {StatusFile(w)}
    <2>1. ImplSteps[i] # "vivado"
      BY StepsAssumption
    <2>2. pc[w] = "pretouch" /\ ImplSteps[i] = ImplSteps[1]
      BY <1>1, <2>1, StepsFacts DEF TouchFile, StatusFile
    <2>3. i = 1
      BY <1>0, <2>2, StepsFacts
    <2>4. step'[w] = 0 /\ pc'[w] = "stopcheck"
      BY <1>0, <1>1, <2>2 DEF TouchFile, AfterOpen, Goto, ProgressOf, BeforeLaunch, procVars, TypeOK
    <2> QED BY <2>3, <2>4 DEF LeftBy
  <1>2. CASE BeginStep(w) /\ files' = files \union {<<Name(w), "begin">>}
    <2>1. proc[w] = "running" /\ step[w] < Len(Steps) /\ Name(w) = ImplSteps[i]
      BY <1>2 DEF BeginStep, Runs
    <2>2. step[w] + 1 = i /\ step[w] \in Nat
      BY <1>0, <2>1, NameIsStep DEF TypeOK
    <2>3. pc[w] \notin {"idle", "refused"}
      BY <1>0, <2>1 DEF ProgressOf, BeforeLaunch
    <2> QED BY <1>2, <2>1, <2>2, <2>3 DEF BeginStep, Does, LeftBy, TypeOK, wrapVars
  <1> QED BY <1>1, <1>2, FilesGrow

LEMMA NextExplained == TypeOK /\ Progress /\ Explained /\ [Next]_vars => Explained'
  <1> SUFFICES ASSUME TypeOK, Progress, Explained, [Next]_vars, flow' = "impl_1",
                      NEW i \in DOMAIN ImplSteps, Dangling(i)'
               PROVE  \E v \in Launches : LeftBy(v, i)'
    BY DEF Explained
  <1>0. /\ flow = "impl_1" /\ Steps' = Steps
        /\ Dangling(i) => \E v \in Launches : LeftBy(v, i)
    BY StepsStay, ConfigStays DEF config, Explained
  <1>1. CASE UNCHANGED vars \/ RequestStop
    BY <1>0, <1>1 DEF vars, dirVars, wrapVars, procVars, RequestStop, Dangling, LeftBy
  <1>2. CASE Clean
    BY <1>2 DEF Clean, Dangling
  <1>3. ASSUME NEW w \in Launches, Acts(w) PROVE \E v \in Launches : LeftBy(v, i)'
    <2>1. CASE <<ImplSteps[i], "begin">> \notin files
      BY <1>0, <1>3, <2>1, LeftAnew DEF Dangling
    <2>2. CASE <<ImplSteps[i], "begin">> \in files
      <3>1. files \subseteq files'
        BY <1>0, <1>3, FilesGrow
      <3>2. Dangling(i)
        BY <2>2, <3>1 DEF Dangling
      <3>3. PICK v \in Launches : LeftBy(v, i)
        BY <1>0, <3>2
      <3>4. LeftBy(v, i)'
        <4>1. CASE v = w
          BY <1>0, <1>3, <3>3, <4>1, LeftStays
        <4>2. CASE v # w
          BY <1>3, <3>3, <4>2, OthersStay DEF Same, LeftBy
        <4> QED BY <4>1, <4>2
      <3> QED BY <3>4
    <2> QED BY <2>1, <2>2
  <1> QED BY <1>1, <1>2, <1>3 DEF Next, Acts

(* When nobody is at work, a step is shown as running for ever only if     *)
(* vivado crashed in it, or if it is the first.                            *)
THEOREM DanglingAlwaysExplained == Spec => []DanglingExplained
  <1>1. Init => Explained
    BY DEF Init, Explained, Dangling
  <1>2. Explained => DanglingExplained
    BY DEF Explained, Dangling, LeftBy, DanglingExplained, Active
  <1> QED BY <1>1, <1>2, NextExplained, RunInvariants, PTL DEF Spec
-----------------------------------------------------------------------------
(* What a step does to the status and the progress of its launch. *)
LEMMA TrackerStep ==
    ASSUME TypeOK, Progress, Steps' = Steps, NEW w \in Launches, Acts(w)
    PROVE  Tracker!Next \/ UNCHANGED Tracker!vars
  <1> DEFINE status == [v \in Launches |-> Status(v)]
  <1>0. ProgressOf(w) /\ Status(w) \in {"new", "running", "ended", "failed"}
    BY DEF Progress, Status, TypeOK
  <1>1. ASSUME NEW v \in Launches, v # w PROVE Status(v)' = Status(v) /\ step'[v] = step[v]
    BY <1>1, OthersStay DEF Same, Status
  <1>2. Status(w)' = Status(w) => status' = status
    BY <1>1
  <1>3. status[w] = Status(w)
    OBVIOUS
  <1>4. ASSUME Status(w)' = Status(w), step' = step PROVE UNCHANGED Tracker!vars
    BY <1>4, <1>2 DEF Tracker!vars
  <1>5. ASSUME NEW from, NEW to, Status(w) = from, Status(w)' = to, step' = step PROVE Tracker!Moves(w, from, to)
    <2>1. status' = [status EXCEPT ![w] = to] /\ status[w] = from
      BY <1>1, <1>5
    <2> QED BY <1>5, <2>1 DEF Tracker!Moves
  <1> USE DEF Status, TypeOK, wrapVars, procVars
  <1>6. CASE Launch(w) \/ Kill(w) \/ (Wrapper(w) /\ ~LaunchVivado(w) /\ ~TouchFile(w))
    BY <1>4, <1>6 DEF Launch, Kill, Wrapper, OpenLog, OpenBusy, OpenThrows, CheckStop, Drain, VivadoOver
  <1>7. CASE LaunchVivado(w)
    <2>1. Status(w) = "new" /\ Status(w)' = "running" /\ step' = step
      BY <1>0, <1>7 DEF LaunchVivado, ProgressOf, BeforeLaunch
    <2> QED BY <1>5, <2>1 DEF Tracker!Next, Tracker!Begin
  <1>8. CASE TouchFile(w) /\ pc[w] # "report"
    BY <1>4, <1>8 DEF TouchFile
  <1>9. CASE TouchFile(w) /\ pc[w] = "report"
    <2>1. Status(w) = "running" /\ step' = step /\ reported'[w] = IF proc[w] = "ok" THEN "end" ELSE "error"
      BY <1>0, <1>9 DEF TouchFile, StatusFile, ProgressOf
    <2>2. CASE proc[w] = "ok"
      <3>1. Status(w)' = "ended" /\ step[w] = Len(Steps)
        BY <1>0, <2>1, <2>2 DEF ProgressOf
      <3> QED BY <1>5, <2>1, <3>1 DEF Tracker!Next, Tracker!End
    <2>3. CASE proc[w] # "ok"
      <3>1. Status(w)' = "failed"
        BY <2>1, <2>3
      <3> QED BY <1>5, <2>1, <3>1 DEF Tracker!Next, Tracker!Fail
    <2> QED BY <2>2, <2>3
  <1>10. CASE EndStep(w)
    <2>1. Status(w) = "running" /\ Status(w)' = "running" /\ step[w] < Len(Steps)
      BY <1>0, <1>10 DEF EndStep, Runs, ProgressOf
    <2>2. status' = status /\ status[w] = "running"
      BY <1>2, <1>3, <2>1
    <2> QED BY <1>10, <2>1, <2>2 DEF EndStep, Tracker!Next, Tracker!Advance
  <1>11. CASE StartStep(w) \/ BeginStep(w) \/ WriteLine(w) \/ StepFails(w) \/ ScriptOver(w) \/ Crash(w)
    <2>1. proc[w] = "running" /\ proc'[w] # "none" /\ reported' = reported /\ step' = step
      BY <1>11 DEF StartStep, BeginStep, WriteLine, StepFails, ScriptOver, Crash, Runs, Exit
    <2> QED BY <1>4, <2>1
  <1> QED BY <1>6, <1>7, <1>8, <1>9, <1>10, <1>11 DEF Acts, Wrapper, Script

(* Whichever scripts drive it, a run is reported as ended only when vivado *)
(* has ended all steps, and reported once.                                 *)
THEOREM RunsAreTracked == Spec => TrackerSpec
  <1>1. Init => Tracker!Init
    BY StepsCount DEF Init, Tracker!Init, Status
  <1>2. TypeOK /\ Progress /\ [Next]_vars => [Tracker!Next]_(Tracker!vars)
    <2> SUFFICES ASSUME TypeOK, Progress, [Next]_vars PROVE Tracker!Next \/ UNCHANGED Tracker!vars
      OBVIOUS
    <2>0. Steps' = Steps
      BY StepsStay
    <2>1. CASE UNCHANGED vars \/ RequestStop \/ Clean
      <3>1. reported' = reported /\ proc' = proc /\ step' = step
        BY <2>1 DEF vars, wrapVars, procVars, RequestStop, Clean
      <3> QED BY <2>0, <3>1 DEF Tracker!vars, Status
    <2>2. ASSUME NEW w \in Launches, Acts(w) PROVE Tracker!Next \/ UNCHANGED Tracker!vars
      BY <2>0, <2>2, TrackerStep
    <2> QED BY <2>1, <2>2 DEF Next, Acts
  <1> QED BY <1>1, <1>2, RunInvariants, PTL DEF Spec, TrackerSpec, Tracker!Spec
=============================================================================
