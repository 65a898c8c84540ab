-------------------------- MODULE CDWorker_proofs ---------------------------
(* Proofs about CDWorker, for every value of its constants. *)
EXTENDS CDWorker, FiniteSetTheorems, TLAPS


Steps == Seq(Step)

-----------------------------------------------------------------------------
(* Shapes: which steps can touch the queue. *)

Resting ==
  \/ Request \/ Play \/ CdOn \/ CdOff \/ CdReset \/ CdRemap \/ CdClose
  \/ CdNoDisc \/ CdStop \/ CdEject \/ UpdateSteady \/ UpdateVolume
  \/ NotifySuccessful \/ NotifyAborted \/ NotifyFailure
Running ==
  \/ OpenDevice \/ RunStop \/ RunEject \/ RunCloseDoor \/ RunGetInfo \/ DiskInfo
  \/ RunPlay \/ StartTrack \/ RunPause \/ Mute \/ FinishPause
  \/ RunResume \/ FinishResume \/ RunSwitchToLauncher \/ RunSwitchToEngine \/ RunUpdate

LEMMA Moves ==
  ASSUME Next
  PROVE  \/ Resting \/ Running
         \/ \E a \in Agents : SetEvent(a) \/ Perform(a)
         \/ Drain \/ EndCommand \/ Shutdown \/ Restart
BY DEF Next, Main, Worker, Resting, Running, Agents

LEMMA RestingFrame ==
  ASSUME Resting
  PROVE  /\ UNCHANGED <<queueVars, pc, pick, alive>>
         /\ alive /\ agenda["main"] = <<>> /\ calls < MaxCalls /\ calls' = calls + 1
         /\ \E steps : agenda' = [agenda EXCEPT !["main"] = steps]
BY DEF Resting, Operation, Notified, Ready, Request, Play, CdOn, CdOff, CdReset, CdRemap,
       CdClose, CdNoDisc, CdStop, CdEject, UpdateSteady, UpdateVolume, NotifySuccessful,
       NotifyAborted, NotifyFailure

Busy == {"next", "info", "start", "mute", "pausing", "resuming", "end"}
LEMMA RunningFrame ==
  ASSUME Running
  PROVE  /\ UNCHANGED <<queueVars, alive, calls>>
         /\ alive /\ agenda["worker"] = <<>>
         /\ pc \in {"open", "next", "info", "start", "mute", "pausing", "resuming"}
         /\ pc' \in {"wait", "info", "start", "mute", "pausing", "resuming", "end"}
         /\ pc = "open" <=> pc' = "wait"
         /\ pc' = "start" => RunPlay
         /\ pc' # "start" => pick' = pick
<1> USE DEF At, Ready, Then, Runs, Ends
<1>1. CASE OpenDevice
  BY <1>1 DEF OpenDevice
<1>2. CASE RunStop
  BY <1>2 DEF RunStop
<1>3. CASE RunEject
  BY <1>3 DEF RunEject
<1>4. CASE RunCloseDoor
  BY <1>4 DEF RunCloseDoor
<1>5. CASE RunGetInfo
  BY <1>5 DEF RunGetInfo
<1>6. CASE DiskInfo
  BY <1>6 DEF DiskInfo
<1>7. CASE StartTrack
  BY <1>7 DEF StartTrack, AfterStart
<1>8. CASE RunPause
  BY <1>8 DEF RunPause, BeginPause
<1>9. CASE Mute
  BY <1>9 DEF Mute, BeginPause
<1>10. CASE FinishPause
  BY <1>10 DEF FinishPause
<1>11. CASE RunResume
  BY <1>11 DEF RunResume, BeginResume
<1>12. CASE FinishResume
  BY <1>12 DEF FinishResume
<1>13. CASE RunSwitchToLauncher
  BY <1>13 DEF RunSwitchToLauncher
<1>14. CASE RunSwitchToEngine
  BY <1>14 DEF RunSwitchToEngine, BeginResume
<1>15. CASE RunUpdate
  BY <1>15 DEF RunUpdate
<1>16. CASE RunPlay
  BY <1>16 DEF RunPlay
<1> QED
  BY <1>1, <1>2, <1>3, <1>4, <1>5, <1>6, <1>7, <1>8, <1>9, <1>10, <1>11, <1>12, <1>13, <1>14, <1>15, <1>16 DEF Running

-----------------------------------------------------------------------------
(* Types. *)

LEMMA CommandTypes ==
  /\ \A h \in Handlers : Cmd(h) \in Command
  /\ \A t \in Track \cup {NoTrack}, l \in BOOLEAN : PlayCmd(t, l) \in Command
  /\ \A c \in Command : Call(c) \in Step
  /\ Disable \in Step /\ Invalidate \in Step
BY DEF Cmd, PlayCmd, Command, Handlers, Call, Step, Disable, Invalidate

LEMMA IfType ==
  ASSUME NEW b \in BOOLEAN, NEW s \in Steps
  PROVE  If(b, s) \in Steps
BY DEF If, Steps

LEMMA FlagFields ==
  ASSUME NEW f \in Flags
  PROVE  /\ f.enabled \in BOOLEAN /\ f.cdValid \in BOOLEAN /\ f.playing \in BOOLEAN
         /\ f.wasPlaying \in BOOLEAN /\ f.playLooping \in BOOLEAN
         /\ f.playTrack \in Track \cup {NoTrack} /\ f.maxTrack \in Track \cup {NoTrack}
         /\ f.cdvolume \in 0..1 /\ f.resumeOnSwitch \in BOOLEAN
BY DEF Flags

(* What an operation of the message loop leaves on its agenda.             *)
LEMMA RestingSteps ==
  ASSUME TypeOK, Resting
  PROVE  \E steps \in Steps : agenda' = [agenda EXCEPT !["main"] = steps]
<1> DEFINE Sets(s) == agenda' = [agenda EXCEPT !["main"] = s]
<1>1. /\ \A h \in Handlers : <<Call(Cmd(h))>> \in Steps
      /\ \A t \in Track \cup {NoTrack}, l \in BOOLEAN : <<Call(PlayCmd(t, l))>> \in Steps
      /\ \A h, k \in Handlers : <<Call(Cmd(h)), Call(Cmd(k))>> \in Steps
      /\ <<>> \in Steps /\ <<Disable>> \in Steps
      /\ \A h \in Handlers : <<Call(Cmd(h)), Invalidate>> \in Steps
  BY CommandTypes DEF Steps
<1>2. \A s, t \in Steps : s \o t \in Steps
  BY DEF Steps
<1>3. cd \in Flags
  BY DEF TypeOK
<1>4. cd.playing \in BOOLEAN /\ cd.playLooping \in BOOLEAN /\ cd.playTrack \in Track \cup {NoTrack}
  BY <1>3, FlagFields
<1>5. {"Pause", "Resume", "Update", "GetInfo", "Stop", "Eject", "CloseDoor",
       "SwitchToLauncher", "SwitchToEngine"} \subseteq Handlers
  BY DEF Handlers
<1>6. If(cd.playing, <<Call(Cmd("Stop"))>>) \in Steps
  BY <1>1, <1>4, <1>5, IfType
<1>7. If(cd.playing /\ cd.playLooping, <<Call(PlayCmd(cd.playTrack, TRUE))>>) \in Steps
  BY <1>1, <1>4, IfType
<1> HIDE DEF Sets
<1> USE DEF Operation, Notified
<1>8. CASE Request
  <2>1. PICK h \in {"Pause", "Resume", "SwitchToLauncher", "SwitchToEngine"} :
          Sets(<<Call(Cmd(h))>>)
    BY <1>8 DEF Request, Sets
  <2> QED  BY <2>1, <1>1, <1>5 DEF Sets
<1>9. CASE Play
  <2>1. PICK t \in Track, l \in BOOLEAN : Sets(<<Call(PlayCmd(t, l))>>)
    BY <1>9 DEF Play, Sets
  <2> QED  BY <2>1, <1>1 DEF Sets
<1>10. CASE CdOn \/ CdRemap \/ NotifyAborted
  <2>1. Sets(<<>>)
    BY <1>10 DEF CdOn, CdRemap, NotifyAborted, Sets
  <2> QED  BY <2>1, <1>1 DEF Sets
<1>11. CASE CdOff
  <2>1. Sets(If(cd.playing, <<Call(Cmd("Stop"))>>) \o <<Disable>>)
    BY <1>11 DEF CdOff, Sets
  <2> QED  BY <2>1, <1>1, <1>2, <1>6 DEF Sets
<1>12. CASE CdReset
  <2>1. Sets(If(cd.playing, <<Call(Cmd("Stop"))>>) \o <<Call(Cmd("GetInfo"))>>)
    BY <1>12 DEF CdReset, Sets
  <2> QED  BY <2>1, <1>1, <1>2, <1>5, <1>6 DEF Sets
<1>13. CASE CdClose \/ CdNoDisc \/ CdStop \/ UpdateSteady
  <2>1. \E h \in Handlers : Sets(<<Call(Cmd(h))>>)
    BY <1>13, <1>5 DEF CdClose, CdNoDisc, CdStop, UpdateSteady, Sets
  <2> QED  BY <2>1, <1>1 DEF Sets
<1>14. CASE CdEject
  <2>1. Sets(If(cd.playing, <<Call(Cmd("Stop"))>>) \o <<Call(Cmd("Eject")), Invalidate>>)
    BY <1>14 DEF CdEject, Sets
  <2> QED  BY <2>1, <1>1, <1>2, <1>5, <1>6 DEF Sets
<1>15. CASE UpdateVolume
  <2>1. Sets(<<Call(Cmd(IF cd.cdvolume = 1 THEN "Pause" ELSE "Resume")), Call(Cmd("Update"))>>)
    BY <1>15 DEF UpdateVolume, Sets
  <2> QED  BY <2>1, <1>1, <1>5 DEF Sets
<1>16. CASE NotifySuccessful
  <2>1. Sets(If(cd.playing /\ cd.playLooping, <<Call(PlayCmd(cd.playTrack, TRUE))>>))
    BY <1>16 DEF NotifySuccessful, Sets
  <2> QED  BY <2>1, <1>7 DEF Sets
<1>17. CASE NotifyFailure
  <2>1. Sets(<<Call(Cmd("Stop")), Invalidate>>)
    BY <1>17 DEF NotifyFailure, Sets
  <2> QED  BY <2>1, <1>1, <1>5 DEF Sets
<1> QED
  BY <1>8, <1>9, <1>10, <1>11, <1>12, <1>13, <1>14, <1>15, <1>16, <1>17 DEF Resting

(* And what a command leaves on the worker's.                              *)
LEMMA RunningSteps ==
  ASSUME TypeOK, Running
  PROVE  \E steps \in Steps : agenda' = [agenda EXCEPT !["worker"] = steps]
<1> DEFINE Sets(s) == agenda' = [agenda EXCEPT !["worker"] = s]
<1>1. /\ <<Call(Cmd("GetInfo"))>> \in Steps /\ <<>> \in Steps
      /\ If(cd.playLooping, <<Call(PlayCmd(cd.playTrack, TRUE))>>) \in Steps
  <2>1. cd.playLooping \in BOOLEAN /\ cd.playTrack \in Track \cup {NoTrack}
    BY FlagFields DEF TypeOK
  <2>2. "GetInfo" \in Handlers
    BY DEF Handlers
  <2>3. Call(PlayCmd(cd.playTrack, TRUE)) \in Step /\ Call(Cmd("GetInfo")) \in Step
    BY <2>1, <2>2, CommandTypes
  <2>4. \A x \in Step : <<x>> \in Steps
    BY DEF Steps
  <2>5. <<>> \in Steps
    BY DEF Steps
  <2> QED  BY <2>1, <2>3, <2>4, <2>5, IfType
<1>2. Sets(agenda["worker"]) => agenda["worker"] \in Steps
  BY DEF TypeOK, Agents, Steps
<1>3. agenda' = agenda => Sets(agenda["worker"])
  BY DEF TypeOK, Agents
<1> USE DEF At, Then, Runs, Ends
<1>4. CASE OpenDevice
  BY <1>1, <1>4 DEF OpenDevice
<1>5. CASE RunPlay
  <2>1. Sets(<<>>) \/ Sets(<<Call(Cmd("GetInfo"))>>) \/ agenda' = agenda
    BY <1>5 DEF RunPlay
  <2> QED  BY <2>1, <1>1, <1>2, <1>3
<1>6. CASE RunUpdate
  BY <1>1, <1>6 DEF RunUpdate
<1>7. CASE RunStop \/ RunEject \/ RunCloseDoor \/ RunGetInfo \/ DiskInfo
  BY <1>1, <1>7 DEF RunStop, RunEject, RunCloseDoor, RunGetInfo, DiskInfo
<1>8. CASE StartTrack \/ FinishPause \/ FinishResume
  BY <1>1, <1>8 DEF StartTrack, FinishPause, FinishResume
<1>9. CASE RunPause \/ Mute \/ RunResume \/ RunSwitchToLauncher \/ RunSwitchToEngine
  BY <1>1, <1>9 DEF RunPause, Mute, BeginPause, RunResume, BeginResume, RunSwitchToLauncher,
                    RunSwitchToEngine
<1> QED
  BY <1>4, <1>5, <1>6, <1>7, <1>8, <1>9 DEF Running

LEMMA StepFields ==
  ASSUME NEW x \in Step
  PROVE  x.cmd \in Command /\ x.do \in {"queue", "disable", "invalidate"}
BY DEF Step

LEMMA TailType ==
  ASSUME NEW S, NEW s \in Seq(S), s # <<>>
  PROVE  /\ Head(s) \in S /\ Tail(s) \in Seq(S)
         /\ Len(s) \in Nat \ {0} /\ Len(Tail(s)) = Len(s) - 1
OBVIOUS

LEMMA EmptyLength ==
  ASSUME NEW S, NEW s \in Seq(S)
  PROVE  Len(s) = 0 <=> s = <<>>
OBVIOUS

LEMMA AgendaType ==
  ASSUME TypeOK, Next
  PROVE  agenda' \in [Agents -> Steps]
<1>1. agenda \in [Agents -> Steps]
  BY DEF TypeOK, Steps
<1>2. ASSUME NEW a \in Agents, NEW s \in Steps, agenda' = [agenda EXCEPT ![a] = s]
      PROVE  agenda' \in [Agents -> Steps]
  BY <1>1, <1>2
<1>3. CASE Resting
  BY <1>2, <1>3, RestingSteps DEF Agents
<1>4. CASE Running
  BY <1>2, <1>4, RunningSteps DEF Agents
<1>5. ASSUME NEW a \in Agents, Perform(a)
      PROVE  agenda' \in [Agents -> Steps]
  <2>1. agenda[a] # <<>> /\ agenda' = [agenda EXCEPT ![a] = Tail(agenda[a])]
    BY <1>5 DEF Perform
  <2>2. Tail(agenda[a]) \in Steps
    BY <1>1, <2>1, TailType DEF Steps
  <2> QED  BY <2>1, <2>2, <1>2
<1>6. CASE Shutdown
  <2>1. <<>> \in Steps
    BY DEF Steps
  <2> QED  BY <2>1, <1>2, <1>6 DEF Shutdown, Agents
<1>7. CASE Drain \/ EndCommand \/ Restart \/ \E a \in Agents : SetEvent(a)
  BY <1>1, <1>7 DEF Drain, EndCommand, Restart, SetEvent
<1> QED
  BY <1>3, <1>4, <1>5, <1>6, <1>7, Moves

(* The queue, the staging array and the worker's place.                    *)
QueueType ==
  /\ queue \in Seq(Command) /\ staging \in Seq(Command)
  /\ event \in BOOLEAN /\ signal \subseteq Agents /\ leftover \in Nat
  /\ pc \in Busy \cup {"open", "wait"} /\ alive \in BOOLEAN
  /\ calls \in 0..MaxCalls
Places ==
  /\ pc \in Busy => staging # <<>>
  /\ pc \in {"open", "wait"} => staging = <<>>
  /\ ~alive => agenda["main"] = <<>> /\ agenda["worker"] = <<>>
  /\ pc = "open" => agenda["worker"] = <<>>

LEMMA HeadIsCommand ==
  ASSUME TypeOK, NEW a \in Agents, agenda[a] # <<>>
  PROVE  Head(agenda[a]) \in Step /\ Head(agenda[a]).cmd \in Command
<1>1. agenda[a] \in Seq(Step)
  BY DEF TypeOK
<1>2. Head(agenda[a]) \in Step
  BY <1>1, TailType
<1> QED
  BY <1>2, StepFields

LEMMA QueueTypeStep ==
  ASSUME TypeOK, Places, Next
  PROVE  QueueType' /\ Places'
<1>0. QueueType
  BY DEF TypeOK, QueueType, Busy
<1>1. CASE Resting
  <2>1. UNCHANGED <<queueVars, pc, pick, alive>> /\ alive /\ calls < MaxCalls /\ calls' = calls + 1
    BY <1>1, RestingFrame
  <2>2. agenda'["worker"] = agenda["worker"]
    BY <1>1, RestingFrame DEF TypeOK, Agents
  <2> QED
    BY <1>0, <2>1, <2>2, CDAssumption DEF QueueType, Places, queueVars
<1>2. CASE Running
  <2>1. /\ UNCHANGED <<queueVars, alive, calls>> /\ alive
        /\ pc \in {"open", "next", "info", "start", "mute", "pausing", "resuming"}
        /\ pc' \in {"wait", "info", "start", "mute", "pausing", "resuming", "end"}
        /\ pc = "open" <=> pc' = "wait"
    BY <1>2, RunningFrame
  <2> QED
    BY <1>0, <2>1 DEF QueueType, Places, queueVars, Busy
<1>3. ASSUME NEW a \in Agents, SetEvent(a)
      PROVE  QueueType' /\ Places'
  BY <1>0, <1>3 DEF SetEvent, QueueType, Places, Busy
<1>4. ASSUME NEW a \in Agents, Perform(a)
      PROVE  QueueType' /\ Places'
  <2>1. Head(agenda[a]).cmd \in Command
    BY <1>4, HeadIsCommand DEF Perform
  <2>0. \/ QueueCommand(a, Head(agenda[a]).cmd)
        \/ UNCHANGED <<queue, signal>>
    BY <1>4 DEF Perform
  <2>2. queue' \in Seq(Command) /\ signal' \subseteq Agents
    BY <1>0, <2>0, <2>1 DEF QueueCommand, QueueType
  <2>3. Places'
    <3>1. alive /\ UNCHANGED <<staging, pc, alive>>
      BY <1>4 DEF Perform, Ready
    <3>2. agenda[a] # <<>> /\ \A b \in Agents : b # a => agenda'[b] = agenda[b]
      BY <1>4 DEF Perform, TypeOK
    <3>3. pc = "open" => a # "worker"
      BY <3>2 DEF Places
    <3> QED  BY <3>1, <3>2, <3>3 DEF Places, Agents
  <2> QED
    BY <1>0, <1>4, <2>2, <2>3 DEF Perform, QueueType
<1>5. CASE Drain
  BY <1>0, <1>5 DEF Drain, At, QueueType, Places, Busy
<1>6. CASE EndCommand
  <2>1. staging \in Seq(Command) /\ staging # <<>>
    BY <1>0, <1>6 DEF EndCommand, At, Places, QueueType, Busy
  <2>2. Tail(staging) \in Seq(Command) /\ Len(Tail(staging)) = Len(staging) - 1
        /\ Len(staging) \in Nat \ {0}
    BY <2>1, TailType
  <2>3. Len(staging) = 1 <=> Tail(staging) = <<>>
    <3>1. Len(Tail(staging)) = 0 <=> Tail(staging) = <<>>
      BY <2>2, EmptyLength
    <3> QED  BY <2>2, <3>1
  <2> QED
    BY <1>0, <1>6, <2>2, <2>3 DEF EndCommand, At, QueueType, Places, Busy
<1>7. CASE Shutdown
  <2>1. agenda'["main"] = <<>> /\ agenda'["worker"] = <<>>
    BY <1>7 DEF Shutdown, TypeOK, Agents
  <2>2. calls' \in 0..MaxCalls
    BY <1>0, <1>7, CDAssumption DEF Shutdown, QueueType
  <2> QED
    BY <1>0, <1>7, <2>1, <2>2 DEF Shutdown, QueueType, Places
<1>8. CASE Restart
  BY <1>0, <1>8 DEF Restart, QueueType, Places, Busy
<1> QED
  BY <1>1, <1>2, <1>3, <1>4, <1>5, <1>6, <1>7, <1>8, Moves

(* The player's flags.                                                     *)
PlayerType ==
  /\ cd \in Flags /\ clock \in {"reset", "running", "held", "ahead"}
  /\ remap \in [Track -> Track \cup {NoTrack}]
  /\ notices \in Nat /\ asked \in BOOLEAN /\ pick \in Command

(* Setting a flag keeps the record one of flags.                           *)
LEMMA SetFlags ==
  ASSUME NEW f \in Flags, NEW b \in BOOLEAN, NEW t \in Track \cup {NoTrack}
  PROVE  /\ [f EXCEPT !.enabled = b] \in Flags
         /\ [f EXCEPT !.cdValid = b] \in Flags
         /\ [f EXCEPT !.playing = b] \in Flags
         /\ [f EXCEPT !.wasPlaying = b] \in Flags
         /\ [f EXCEPT !.resumeOnSwitch = b] \in Flags
         /\ [f EXCEPT !.cdvolume = 1 - f.cdvolume] \in Flags
         /\ [f EXCEPT !.maxTrack = t, !.cdValid = TRUE] \in Flags
         /\ \A c \in BOOLEAN : [f EXCEPT !.playing = b, !.wasPlaying = c] \in Flags
         /\ \A c \in BOOLEAN : [f EXCEPT !.wasPlaying = b, !.playing = c] \in Flags
         /\ [f EXCEPT !.playLooping = b, !.playTrack = t, !.playing = TRUE] \in Flags
<1>1. [f EXCEPT !.enabled = b] \in Flags /\ [f EXCEPT !.cdValid = b] \in Flags
  BY DEF Flags
<1>2. [f EXCEPT !.playing = b] \in Flags /\ [f EXCEPT !.wasPlaying = b] \in Flags
  BY DEF Flags
<1>3. [f EXCEPT !.resumeOnSwitch = b] \in Flags
  BY DEF Flags
<1>4. [f EXCEPT !.cdvolume = 1 - f.cdvolume] \in Flags
  BY DEF Flags
<1>5. [f EXCEPT !.maxTrack = t, !.cdValid = TRUE] \in Flags
  BY DEF Flags
<1>6. \A c \in BOOLEAN : [f EXCEPT !.playing = b, !.wasPlaying = c] \in Flags
  BY DEF Flags
<1>7. \A c \in BOOLEAN : [f EXCEPT !.wasPlaying = b, !.playing = c] \in Flags
  BY DEF Flags
<1>8. [f EXCEPT !.playLooping = b, !.playTrack = t, !.playing = TRUE] \in Flags
  BY DEF Flags
<1> QED
  BY <1>1, <1>2, <1>3, <1>4, <1>5, <1>6, <1>7, <1>8

LEMMA StoppedType ==
  ASSUME NEW f \in Flags
  PROVE  Stopped(f) \in Flags
BY SetFlags DEF Stopped

LEMMA CommandFields ==
  ASSUME NEW c \in Command
  PROVE  c.pfn \in Handlers /\ c.track \in Track \cup {NoTrack} /\ c.looping \in BOOLEAN
BY DEF Command

LEMMA PlayerTypeStep ==
  ASSUME TypeOK, Places, Next
  PROVE  PlayerType'
<1>0. PlayerType /\ pick.track \in Track \cup {NoTrack} /\ pick.looping \in BOOLEAN
  BY CommandFields DEF TypeOK, PlayerType
<1>a. /\ cd.enabled \in BOOLEAN /\ cd.playing \in BOOLEAN /\ cd.cdvolume \in 0..1
      /\ \A b \in BOOLEAN :
           /\ [cd EXCEPT !.enabled = b] \in Flags /\ [cd EXCEPT !.cdValid = b] \in Flags
           /\ [cd EXCEPT !.playing = b] \in Flags /\ [cd EXCEPT !.resumeOnSwitch = b] \in Flags
  BY <1>0, FlagFields, SetFlags DEF PlayerType
<1>b. NoTrack \in Nat /\ PlayCmd(NoTrack, FALSE) \in Command /\ Identity \in [Track -> Track \cup {NoTrack}]
  BY CommandTypes DEF Identity, NoTrack
<1>1. CASE Request \/ Play \/ CdOff \/ CdClose \/ CdNoDisc \/ CdStop \/ CdEject \/ UpdateSteady
  BY <1>0, <1>1 DEF Request, Play, CdOff, CdClose, CdNoDisc, CdStop, CdEject, UpdateSteady,
                    Operation, player, PlayerType
<1>2. CASE CdOn \/ CdReset \/ CdRemap
  BY <1>0, <1>a, <1>b, <1>2, CDAssumption DEF CdOn, CdReset, CdRemap, Operation, PlayerType
<1>3. CASE UpdateVolume
  <2>1. [cd EXCEPT !.cdvolume = 1 - cd.cdvolume] \in Flags
    BY <1>0, <1>a, SetFlags DEF PlayerType
  <2> QED
    BY <1>0, <1>3, <2>1 DEF UpdateVolume, Operation, PlayerType
<1>4. CASE NotifySuccessful \/ NotifyAborted \/ NotifyFailure
  <2>1. notices \in Nat /\ notices > 0 /\ notices' = notices - 1
    BY <1>0, <1>4 DEF NotifySuccessful, NotifyAborted, NotifyFailure, Notified, PlayerType
  <2>2. cd' \in Flags
    BY <1>0, <1>a, <1>4 DEF NotifySuccessful, NotifyAborted, NotifyFailure, PlayerType
  <2>3. UNCHANGED <<clock, remap, asked, pick>>
    BY <1>4 DEF NotifySuccessful, NotifyAborted, NotifyFailure, Notified, Operation
  <2> QED
    BY <1>0, <2>1, <2>2, <2>3 DEF PlayerType
<1>5. CASE OpenDevice
  BY <1>0, <1>a, <1>b, <1>5 DEF OpenDevice, Then, PlayerType, player
<1>6. CASE RunStop \/ RunEject \/ RunCloseDoor \/ RunGetInfo
  <2>1. Stopped(cd) \in Flags
    BY <1>0, StoppedType DEF PlayerType
  <2> QED
    BY <1>0, <1>a, <1>6, <2>1 DEF RunStop, RunEject, RunCloseDoor, RunGetInfo, Ends, Then, PlayerType
<1>7. CASE DiskInfo
  <2>1. \A n \in Track : [cd EXCEPT !.maxTrack = n, !.cdValid = TRUE] \in Flags
    BY <1>0, SetFlags DEF PlayerType
  <2> QED
    BY <1>0, <1>7, <2>1 DEF DiskInfo, Ends, Then, PlayerType
<1>8. CASE RunPlay
  <2>1. Stopped(cd) \in Flags
    BY <1>0, StoppedType DEF PlayerType
  <2>2. cd' \in {cd, Stopped(cd)} /\ clock' \in {clock, "reset"} /\ UNCHANGED <<remap, notices, asked>>
    BY <1>8 DEF RunPlay
  <2>3. Head(staging) \in Command
    BY <1>0, <1>8, TailType DEF RunPlay, Runs, At, Places, Busy, TypeOK
  <2>4. pick' \in Command
    <3>1. pick' = pick \/ \E t \in Track : pick' = PlayCmd(t, Head(staging).looping)
      BY <1>8 DEF RunPlay, Ends, Then, OnDisc
    <3> QED
      BY <1>0, <2>3, <3>1, CommandTypes, CommandFields DEF PlayerType
  <2> QED
    BY <1>0, <2>1, <2>2, <2>4 DEF PlayerType
<1>9. CASE StartTrack
  <2>1. [cd EXCEPT !.playLooping = pick.looping, !.playTrack = pick.track, !.playing = TRUE] \in Flags
    BY <1>0, SetFlags DEF PlayerType
  <2> QED
    BY <1>0, <1>9, <2>1 DEF StartTrack, Ends, Then, PlayerType
<1>10. CASE RunPause \/ Mute \/ RunResume
  BY <1>0, <1>10 DEF RunPause, Mute, BeginPause, RunResume, BeginResume, Then, player, PlayerType
<1>11. CASE FinishPause
  <2>1. [cd EXCEPT !.wasPlaying = cd.playing, !.playing = FALSE] \in Flags
    BY <1>0, <1>a, SetFlags DEF PlayerType
  <2> QED
    BY <1>0, <1>11, <2>1 DEF FinishPause, Ends, Then, PlayerType
<1>12. CASE FinishResume
  <2>1. notices' \in Nat /\ asked' \in BOOLEAN /\ UNCHANGED <<remap, pick>>
    <3>1. notices' \in {notices, notices + 1} /\ asked' \in {asked, TRUE} /\ remap' = remap
      BY <1>12 DEF FinishResume
    <3>2. pick' = pick
      BY <1>12 DEF FinishResume, Ends, Then
    <3>3. asked' \in BOOLEAN
      BY <1>0, <3>1, Zenon DEF PlayerType
    <3>4. notices' \in Nat
      BY <1>0, <3>1 DEF PlayerType
    <3> QED  BY <3>1, <3>2, <3>3, <3>4
  <2>2. cd' \in Flags /\ clock' \in {"reset", "running", "held", "ahead"}
    BY <1>0, <1>a, <1>12 DEF FinishResume, PlayerType
  <2> QED
    BY <1>0, <2>1, <2>2 DEF PlayerType
<1>13. CASE RunSwitchToLauncher \/ RunSwitchToEngine \/ RunUpdate
  <2>1. cd' \in Flags
    BY <1>0, <1>a, <1>13 DEF RunSwitchToLauncher, RunSwitchToEngine, RunUpdate, PlayerType
  <2>2. UNCHANGED <<clock, remap, notices, asked, pick>>
    BY <1>13 DEF RunSwitchToLauncher, RunSwitchToEngine, RunUpdate, Ends, Then, BeginResume
  <2> QED
    BY <1>0, <2>1, <2>2 DEF PlayerType
<1>14. ASSUME NEW a \in Agents, SetEvent(a) \/ Perform(a)
       PROVE  PlayerType'
  BY <1>0, <1>a, <1>14 DEF SetEvent, Perform, player, PlayerType
<1>15. CASE Drain \/ EndCommand \/ Shutdown \/ Restart
  BY <1>0, <1>b, <1>15 DEF Drain, EndCommand, Shutdown, Restart, player, PlayerType
<1>16. Resting => PlayerType'
  BY <1>1, <1>2, <1>3, <1>4 DEF Resting
<1>17. Running => PlayerType'
  BY <1>5, <1>6, <1>7, <1>8, <1>9, <1>10, <1>11, <1>12, <1>13 DEF Running
<1> QED
  BY <1>14, <1>15, <1>16, <1>17, Moves

Typed == TypeOK /\ Places

LEMMA TypedInit == Init => Typed
<1> SUFFICES ASSUME Init PROVE Typed
  OBVIOUS
<1>1. [t \in Track |-> NoTrack] \in [Track -> Track \cup {NoTrack}]
  OBVIOUS
<1>2. PlayCmd(NoTrack, FALSE) \in Command
  BY CommandTypes
<1>3. cd \in Flags
  BY DEF Init, Flags
<1>4. /\ queue \in Seq(Command) /\ staging \in Seq(Command)
      /\ agenda \in [Agents -> Seq(Step)]
  BY DEF Init
<1>5. calls \in 0..MaxCalls /\ leftover \in Nat /\ notices \in Nat
  BY CDAssumption DEF Init
<1>6. Places
  BY DEF Init, Places, Agents, Busy
<1>7. /\ event \in BOOLEAN /\ signal \subseteq Agents /\ alive \in BOOLEAN /\ asked \in BOOLEAN
      /\ pc = "open" /\ clock = "reset" /\ pick \in Command
      /\ remap \in [Track -> Track \cup {NoTrack}]
  BY <1>1, <1>2 DEF Init
<1> QED
  BY <1>3, <1>4, <1>5, <1>6, <1>7 DEF Typed, TypeOK

LEMMA TypedStep ==
  ASSUME Typed, [Next]_vars
  PROVE  Typed'
<1>1. CASE Next
  <2>1. QueueType' /\ Places'
    BY <1>1, QueueTypeStep DEF Typed
  <2>2. PlayerType'
    BY <1>1, PlayerTypeStep DEF Typed
  <2>3. agenda' \in [Agents -> Steps]
    BY <1>1, AgendaType DEF Typed
  <2> QED
    BY <2>1, <2>2, <2>3 DEF Typed, TypeOK, QueueType, PlayerType, Steps, Busy
<1>2. CASE UNCHANGED vars
  BY <1>2 DEF vars, queueVars, player, Typed, TypeOK, Places
<1> QED
  BY <1>1, <1>2

LEMMA AlwaysTyped == Spec => []Typed
BY TypedInit, TypedStep, PTL DEF Spec

(* The worker and the message loop keep every variable in its type.        *)
THEOREM TypeCorrect == Spec => []TypeOK
BY AlwaysTyped, PTL DEF Typed

-----------------------------------------------------------------------------
(* The queue. *)

(* How a step can change the queue.                                        *)
LEMMA QueueStep ==
  ASSUME Typed, [Next]_vars
  PROVE  \/ UNCHANGED <<queue, leftover, staging>>
         \/ /\ UNCHANGED <<leftover, staging>>
            /\ \E a \in Agents, c \in Command : Accepted(c) /\ queue' = Append(queue, c)
         \/ queue' = <<>> /\ staging' = queue /\ staging = <<>> /\ leftover' = 0
         \/ UNCHANGED <<queue, leftover>> /\ staging # <<>> /\ staging' = Tail(staging)
         \/ UNCHANGED queue /\ staging' = <<>> /\ leftover' = Len(queue) /\ ~alive
<1>1. CASE Resting \/ Running \/ Shutdown \/ UNCHANGED vars
  BY <1>1, RestingFrame, RunningFrame DEF queueVars, Shutdown, vars
<1>2. ASSUME NEW a \in Agents, SetEvent(a)
      PROVE  UNCHANGED <<queue, leftover, staging>>
  BY <1>2 DEF SetEvent
<1>3. ASSUME NEW a \in Agents, Perform(a)
      PROVE  /\ UNCHANGED <<leftover, staging>>
             /\ \/ UNCHANGED queue
                \/ \E c \in Command : Accepted(c) /\ queue' = Append(queue, c)
  <2>1. Head(agenda[a]).cmd \in Command
    BY <1>3, HeadIsCommand DEF Perform, Typed
  <2>2. QueueCommand(a, Head(agenda[a]).cmd) \/ UNCHANGED queue
    BY <1>3 DEF Perform
  <2>3. UNCHANGED <<leftover, staging>>
    BY <1>3 DEF Perform
  <2> QED
    BY <2>1, <2>2, <2>3 DEF QueueCommand
<1>4. CASE Drain
  BY <1>4 DEF Drain, At, Typed, Places
<1>5. CASE EndCommand
  BY <1>5 DEF EndCommand, At, Typed, Places, Busy
<1>6. CASE Restart
  BY <1>6 DEF Restart
<1> QED
  BY <1>1, <1>2, <1>3, <1>4, <1>5, <1>6, Moves

LEMMA OnePendingStep ==
  ASSUME Typed, OnePending, [Next]_vars
  PROVE  OnePending'
<1>0. queue \in Seq(Command)
  BY DEF Typed, TypeOK
<1>1. CASE queue' = queue \/ queue' = <<>>
  BY <1>1 DEF OnePending
<1>2. ASSUME NEW c \in Command, Accepted(c), queue' = Append(queue, c)
      PROVE  OnePending'
  <2>1. \A i \in 1..Len(queue) : queue[i].pfn # c.pfn
    BY <1>2 DEF Accepted, IsPending
  <2>2. /\ Len(queue') = Len(queue) + 1 /\ Len(queue) \in Nat
        /\ \A i \in 1..Len(queue) : queue'[i] = queue[i]
        /\ queue'[Len(queue) + 1] = c
    BY <1>0, <1>2
  <2> QED
    BY <2>1, <2>2 DEF OnePending
<1> QED
  BY <1>1, <1>2, QueueStep

(* No handler is ever pending twice. *)
THEOREM NonePendingTwice == Spec => []OnePending
<1>1. Init => OnePending
  BY DEF Init, OnePending
<1> QED
  BY <1>1, AlwaysTyped, OnePendingStep, PTL DEF Spec

(* So a handler that is not pending finds room.                            *)
RoomForAll ==
  \A h \in Handlers :
    (\A i \in 1..Len(queue) : queue[i].pfn # h) => Len(queue) < CD_MAX_QUEUED

LEMMA RoomWhenDistinct ==
  ASSUME TypeOK, OnePending
  PROVE  RoomForAll
<1> SUFFICES ASSUME NEW h \in Handlers, \A i \in 1..Len(queue) : queue[i].pfn # h
             PROVE  Len(queue) < CD_MAX_QUEUED
  BY DEF RoomForAll
<1>1. queue \in Seq(Command) /\ Len(queue) \in Nat
  BY DEF TypeOK
<1>2. \A i \in 1..Len(queue) : queue[i].pfn \in Handlers \ {h}
  <2>1. \A i \in 1..Len(queue) : queue[i] \in Command
    BY <1>1
  <2> QED  BY <2>1, CommandFields
<1> DEFINE f == [i \in 1..Len(queue) |-> queue[i].pfn]
<1>3. f \in [1..Len(queue) -> Handlers \ {h}]
  BY <1>2
<1>4. \A i, j \in 1..Len(queue) : f[i] = f[j] => i = j
  BY DEF OnePending
<1>5. /\ IsFiniteSet(Handlers \ {h})
      /\ Cardinality(Handlers \ {h}) = Cardinality(Handlers) - 1
  BY CDAssumption, FS_RemoveElement
<1>6. IsFiniteSet(1..Len(queue)) /\ Cardinality(1..Len(queue)) = Len(queue)
  <2>1. 1 \in Int /\ Len(queue) \in Int
    BY <1>1
  <2>2. /\ IsFiniteSet(1..Len(queue))
        /\ Cardinality(1..Len(queue)) = IF 1 > Len(queue) THEN 0 ELSE Len(queue) - 1 + 1
    BY <2>1, FS_Interval
  <2> QED  BY <1>1, <2>2
<1>7. Cardinality(Handlers \ {h}) \in Nat /\ Cardinality(Handlers) \in Nat
  BY <1>5, CDAssumption, FS_CardinalityType
<1> HIDE DEF f
<1>8. ~(Cardinality(Handlers \ {h}) < Len(queue))
  BY <1>3, <1>4, <1>5, <1>6, FS_PigeonHole
<1> QED
  BY <1>1, <1>5, <1>7, <1>8, CDAssumption

(* The queue never refuses a command for want of room, whatever the number  *)
(* of calls: ten entries are enough for ten handlers.                       *)
THEOREM AlwaysRoom == Spec => []RoomForAll
BY AlwaysTyped, NonePendingTwice, RoomWhenDistinct, PTL DEF Typed

-----------------------------------------------------------------------------
(* Wakeups, order, tracks. *)

LEMMA WakeupStep ==
  ASSUME Typed, WakeupPending, [Next]_vars
  PROVE  WakeupPending'
<1>0. queue \in Seq(Command) /\ Len(queue) \in Nat /\ signal \subseteq Agents /\ leftover \in Nat
  BY DEF Typed, TypeOK
<1>1. CASE Resting \/ Running \/ UNCHANGED vars
  BY <1>1, RestingFrame, RunningFrame DEF queueVars, vars, WakeupPending
<1>2. ASSUME NEW a \in Agents, SetEvent(a)
      PROVE  WakeupPending'
  BY <1>2 DEF SetEvent, WakeupPending
<1>3. ASSUME NEW a \in Agents, Perform(a)
      PROVE  WakeupPending'
  <2>1. UNCHANGED <<event, leftover, alive>>
    BY <1>3 DEF Perform
  <2>2. UNCHANGED <<queue, signal>> \/ a \in signal'
    BY <1>3 DEF Perform, QueueCommand
  <2> QED
    BY <2>1, <2>2 DEF WakeupPending
<1>4. CASE Drain
  BY <1>4 DEF Drain, WakeupPending
<1>5. CASE EndCommand \/ Shutdown
  BY <1>5 DEF EndCommand, Shutdown, WakeupPending
<1>6. CASE Restart
  BY <1>0, <1>6 DEF Restart, WakeupPending
<1> QED
  BY <1>1, <1>2, <1>3, <1>4, <1>5, <1>6, Moves

(* No command queued for this worker waits without a wakeup on its way.     *)
THEOREM NoWakeupLost == Spec => []WakeupPending
<1>1. Init => WakeupPending
  BY DEF Init, WakeupPending
<1> QED
  BY <1>1, AlwaysTyped, WakeupStep, PTL DEF Spec

LEMMA TodoSteps ==
  ASSUME NEW st \in Seq(Command), NEW q \in Seq(Command), NEW c \in Command
  PROVE  /\ st \o Append(q, c) = Append(st \o q, c)
         /\ st # <<>> => st \o q # <<>> /\ Tail(st) \o q = Tail(st \o q)
         /\ <<>> \o q = q /\ q \o <<>> = q
<1>1. st \o Append(q, c) = Append(st \o q, c)
  OBVIOUS
<1>2. ASSUME st # <<>>
      PROVE  st \o q # <<>> /\ Tail(st) \o q = Tail(st \o q)
  <2>0. Len(st) \in Nat \ {0} /\ Len(q) \in Nat
    BY <1>2, TailType
  <2>1. Len(st \o q) = Len(st) + Len(q) /\ st \o q # <<>>
    BY <2>0
  <2>2. Tail(st) \in Seq(Command) /\ Len(Tail(st)) = Len(st) - 1
    BY <1>2, TailType
  <2>3. st \o q \in Seq(Command)
    OBVIOUS
  <2>4. Tail(st \o q) \in Seq(Command) /\ Len(Tail(st \o q)) = Len(st) + Len(q) - 1
    BY <2>0, <2>1, <2>3
  <2>5. Len(Tail(st) \o q) = Len(st) + Len(q) - 1 /\ Tail(st) \o q \in Seq(Command)
    BY <2>0, <2>2
  <2>6. ASSUME NEW i \in 1..(Len(st) + Len(q) - 1)
        PROVE  (Tail(st) \o q)[i] = Tail(st \o q)[i]
    <3>1. Tail(st \o q)[i] = (st \o q)[i + 1]
      BY <2>0, <2>1, <2>3
    <3>2. CASE i <= Len(st) - 1
      BY <2>0, <2>2, <3>1, <3>2
    <3>3. CASE i > Len(st) - 1
      BY <2>0, <2>2, <3>1, <3>3
    <3> QED  BY <2>0, <3>2, <3>3
  <2> QED
    BY <2>1, <2>4, <2>5, <2>6
<1>3. <<>> \o q = q /\ q \o <<>> = q
  OBVIOUS
<1> QED
  BY <1>1, <1>2, <1>3

Orderly ==
  alive' => \/ Todo' = Todo
            \/ \E c \in Command : Todo' = Append(Todo, c)
            \/ Todo # <<>> /\ Todo' = Tail(Todo)
            \/ ~alive /\ Todo' = queue

LEMMA OrderStep ==
  ASSUME Typed, [Next]_vars
  PROVE  Orderly
<1>0. queue \in Seq(Command) /\ staging \in Seq(Command)
  BY DEF Typed, TypeOK
<1>1. CASE UNCHANGED <<queue, leftover, staging>>
  BY <1>1 DEF Orderly, Todo
<1>2. ASSUME staging' = staging, NEW c \in Command, queue' = Append(queue, c)
      PROVE  Orderly
  BY <1>0, <1>2, TodoSteps DEF Orderly, Todo
<1>3. CASE queue' = <<>> /\ staging' = queue /\ staging = <<>>
  <2>1. Todo' = queue /\ Todo = queue
    BY <1>0, <1>3, TodoSteps, CommandTypes DEF Todo, Handlers
  <2> QED  BY <2>1 DEF Orderly
<1>4. CASE queue' = queue /\ staging # <<>> /\ staging' = Tail(staging)
  <2>1. \E c : c \in Command
    BY CommandTypes DEF Handlers
  <2>2. Todo # <<>> /\ Todo' = Tail(Todo)
    BY <1>0, <1>4, <2>1, TodoSteps DEF Todo
  <2> QED  BY <2>2 DEF Orderly
<1>5. CASE queue' = queue /\ staging' = <<>> /\ ~alive
  BY <1>0, <1>5 DEF Orderly, Todo
<1> QED
  BY <1>1, <1>2, <1>3, <1>4, <1>5, QueueStep

(* What waits to be run changes at its ends only. *)
THEOREM RunInOrder == Spec => InOrder
<1>1. Typed /\ [Next]_vars => [Orderly]_vars
  BY OrderStep
<1>2. Typed /\ [Next]_vars =>
        [alive' => \/ Todo' = Todo
                   \/ \E c \in Command : Todo' = Append(Todo, c)
                   \/ Todo # <<>> /\ Todo' = Tail(Todo)
                   \/ ~alive /\ Todo' = queue]_vars
  BY <1>1 DEF Orderly
<1> QED
  BY <1>2, AlwaysTyped, PTL DEF Spec, InOrder

LEMMA TrackIsNat ==
  ASSUME NEW t \in Track \cup {NoTrack}
  PROVE  t \in Nat
BY CDAssumption DEF NoTrack

LEMMA TrackStep ==
  ASSUME Typed, TrackOnDisc, [Next]_vars
  PROVE  TrackOnDisc'
<1>0. pick.track \in Track \cup {NoTrack} /\ cd \in Flags /\ Track \subseteq Nat \ {0}
  BY CommandFields, CDAssumption DEF Typed, TypeOK, NoTrack
<1>1. CASE Running
  <2>1. CASE pc' = "start"
    <3>1. RunPlay /\ pc # "start"
      BY <1>1, <2>1, RunningFrame DEF RunPlay, Runs, At
    <3>2. PICK t : /\ OnDisc(t) /\ pick' = PlayCmd(t, Head(staging).looping)
                   /\ cd' = IF cd.playing THEN Stopped(cd) ELSE cd
      BY <2>1, <3>1 DEF RunPlay, Ends, Then
    <3>3. Stopped(cd).maxTrack = cd.maxTrack
      BY <1>0 DEF Stopped, Flags
    <3>4. cd'.maxTrack = cd.maxTrack /\ pick'.track = t
      BY <3>2, <3>3 DEF PlayCmd
    <3>5. t \in Nat \ {0} /\ t <= cd.maxTrack /\ cd.maxTrack \in Nat
      <4>1. cd.maxTrack \in Track \cup {NoTrack}
        BY <1>0, FlagFields
      <4>2. t \in Track /\ t <= cd.maxTrack
        BY <3>2 DEF OnDisc
      <4>3. t \in Nat \ {0}
        BY <1>0, <4>2
      <4>4. cd.maxTrack \in Nat
        BY <4>1, TrackIsNat
      <4> QED  BY <4>2, <4>3, <4>4
    <3> QED  BY <3>4, <3>5 DEF TrackOnDisc
  <2> QED  BY <2>1 DEF TrackOnDisc
<1>2. CASE Resting
  <2>1. cd'.maxTrack = cd.maxTrack
    BY <1>0, <1>2 DEF Resting, Request, Play, CdOn, CdOff, CdReset, CdRemap, CdClose, CdNoDisc,
       CdStop, CdEject, UpdateSteady, UpdateVolume, NotifySuccessful, NotifyAborted,
       NotifyFailure, player, Flags
  <2> QED  BY <1>2, <2>1, RestingFrame DEF TrackOnDisc
<1>3. ASSUME NEW a \in Agents, SetEvent(a) \/ Perform(a)
      PROVE  TrackOnDisc'
  <2>1. cd'.maxTrack = cd.maxTrack /\ UNCHANGED <<pc, pick>>
    BY <1>0, <1>3 DEF SetEvent, Perform, player, Flags
  <2> QED  BY <2>1 DEF TrackOnDisc
<1>4. CASE Drain \/ EndCommand \/ Restart
  BY <1>4 DEF Drain, EndCommand, Restart, TrackOnDisc
<1>5. CASE Shutdown \/ UNCHANGED vars
  BY <1>5 DEF Shutdown, vars, player, TrackOnDisc
<1> QED
  BY <1>1, <1>2, <1>3, <1>4, <1>5, Moves

(* MCI is only asked to play tracks of the disc read last. *)
THEOREM TracksOnDisc == Spec => []TrackOnDisc
<1>1. Init => TrackOnDisc
  BY DEF Init, TrackOnDisc
<1> QED
  BY <1>1, AlwaysTyped, TrackStep, PTL DEF Spec

-----------------------------------------------------------------------------
(* The volume. *)

(* A pause still to be carried out: like PauseComing, but a pause at the    *)
(* head of the staging array counts until it is begun.                      *)
InQueue == \E i \in 1..Len(queue) : queue[i].pfn = "Pause"
InStaging == \E i \in 1..Len(staging) : staging[i].pfn = "Pause" /\ (i > 1 \/ pc = "next")
InAgenda == \E i \in 1..Len(agenda["main"]) : agenda["main"][i] = Call(Cmd("Pause"))
Coming == InQueue \/ InStaging \/ InAgenda \/ pc \in {"mute", "pausing"}
Loud == cd.cdvolume = 0 /\ cd.playing

(* Muted is not inductive: a pause is ignored while the player is off, so   *)
(* music in a player that is off must have been asked for, and a killed     *)
(* worker may leave anything.                                               *)
Quiet ==
  /\ Loud => asked \/ Coming
  /\ ~cd.enabled /\ (cd.playing \/ pc = "start") => asked
  /\ ~alive => asked

(* A step that starts nothing and turns nothing off.                       *)
Calm ==
  /\ asked' = asked /\ alive' = alive
  /\ cd'.cdvolume = cd.cdvolume
  /\ cd'.playing => cd.playing
  /\ cd'.enabled \/ cd'.enabled = cd.enabled

LEMMA CalmResting ==
  ASSUME Typed, Resting, ~UpdateVolume
  PROVE  Calm
<1>0. cd \in Flags
  BY DEF Typed, TypeOK
<1> USE DEF Calm, Operation, player
<1>1. CASE Request \/ Play \/ CdOff \/ CdClose \/ CdNoDisc \/ CdStop \/ CdEject \/ UpdateSteady
  BY <1>1 DEF Request, Play, CdOff, CdClose, CdNoDisc, CdStop, CdEject, UpdateSteady
<1>2. CASE CdOn \/ CdReset \/ CdRemap
  BY <1>0, <1>2 DEF CdOn, CdReset, CdRemap, Flags
<1>3. CASE NotifySuccessful \/ NotifyAborted \/ NotifyFailure
  BY <1>0, <1>3 DEF NotifySuccessful, NotifyAborted, NotifyFailure, Notified, Flags
<1> QED
  BY <1>1, <1>2, <1>3 DEF Resting

LEMMA CalmRunning ==
  ASSUME Typed, Running, ~StartTrack, ~FinishResume
  PROVE  Calm
<1>0. cd \in Flags
  BY DEF Typed, TypeOK
<1>a. /\ Stopped(cd).cdvolume = cd.cdvolume /\ Stopped(cd).enabled = cd.enabled
      /\ Stopped(cd).playing => cd.playing
  BY <1>0 DEF Stopped, Flags
<1>b. alive' = alive
  BY RunningFrame
<1> USE DEF Calm, player
<1>1. CASE OpenDevice \/ RunCloseDoor \/ RunGetInfo \/ DiskInfo \/ RunUpdate
  BY <1>0, <1>b, <1>1 DEF OpenDevice, RunCloseDoor, RunGetInfo, DiskInfo, RunUpdate, Flags
<1>2. CASE RunStop \/ RunEject \/ RunPlay
  BY <1>a, <1>b, <1>2 DEF RunStop, RunEject, RunPlay
<1>3. CASE RunPause \/ Mute \/ RunResume
  BY <1>b, <1>3 DEF RunPause, Mute, BeginPause, RunResume
<1>4. CASE FinishPause \/ RunSwitchToLauncher \/ RunSwitchToEngine
  BY <1>0, <1>b, <1>4 DEF FinishPause, RunSwitchToLauncher, RunSwitchToEngine, Flags
<1> QED
  BY <1>1, <1>2, <1>3, <1>4 DEF Running

LEMMA QuietResting ==
  ASSUME Typed, Quiet, Resting
  PROVE  Quiet'
<1>1. /\ UNCHANGED <<queue, staging, pc, alive>> /\ alive /\ agenda["main"] = <<>>
  BY RestingFrame DEF queueVars
<1>2. CASE UpdateVolume
  <2>1. cd.enabled /\ cd'.enabled /\ cd'.cdvolume = 1 - cd.cdvolume /\ cd.cdvolume \in 0..1
    BY <1>2, FlagFields DEF UpdateVolume, Typed, TypeOK, Flags
  <2>2. CASE cd.cdvolume = 1
    <3>1. agenda'["main"] = <<Call(Cmd("Pause")), Call(Cmd("Update"))>>
      BY <1>2, <2>2 DEF UpdateVolume, Operation, Typed, TypeOK, Agents
    <3>2. InAgenda'
      BY <3>1 DEF InAgenda
    <3> QED  BY <1>1, <2>1, <3>2 DEF Quiet, Coming
  <2>3. CASE cd.cdvolume = 0
    BY <1>1, <2>1, <2>3 DEF Quiet, Loud
  <2> QED  BY <2>1, <2>2, <2>3
<1>3. CASE ~UpdateVolume
  <2>1. Calm
    BY <1>3, CalmResting
  <2>2. ~InAgenda
    BY <1>1 DEF InAgenda
  <2>3. Coming => Coming'
    BY <1>1, <2>2 DEF Coming, InQueue, InStaging
  <2> QED  BY <1>1, <2>1, <2>3 DEF Quiet, Calm, Loud
<1> QED
  BY <1>2, <1>3

LEMMA QuietRunning ==
  ASSUME Typed, Quiet, Running
  PROVE  Quiet'
<1>0. /\ UNCHANGED <<queue, staging, alive>> /\ alive /\ agenda'["main"] = agenda["main"]
      /\ pc \in {"open", "next", "info", "start", "mute", "pausing", "resuming"}
      /\ cd \in Flags /\ staging \in Seq(Command)
  <2>1. \E steps : agenda' = [agenda EXCEPT !["worker"] = steps]
    BY RunningSteps DEF Typed
  <2> QED
    BY <2>1, RunningFrame DEF queueVars, Typed, TypeOK, Agents
<1>1. InQueue' = InQueue /\ InAgenda' = InAgenda
  BY <1>0 DEF InQueue, InAgenda
<1>2. ASSUME pc # "next"
      PROVE  InStaging => InStaging'
  BY <1>0, <1>2 DEF InStaging
<1>3. CASE RunPause \/ Mute
  <2>1. pc' = (IF cd.enabled /\ cd.playing THEN "pausing" ELSE "end") /\ UNCHANGED <<cd, asked>>
    BY <1>3 DEF RunPause, Mute, BeginPause, Then, player
  <2> QED
    BY <1>0, <2>1 DEF Quiet, Loud, Coming
<1>4. CASE FinishPause
  <2>1. ~cd'.playing /\ pc' = "end"
    BY <1>0, <1>4 DEF FinishPause, Flags, Ends, Then
  <2> QED
    BY <1>0, <2>1 DEF Quiet, Loud
<1>5. CASE StartTrack
  <2>1. pc = "start" /\ asked' = asked /\ pc' # "start"
    BY <1>5 DEF StartTrack, At, Ends, Then, AfterStart
  <2>2. CASE cd' = cd
    BY <1>0, <1>1, <1>2, <2>1, <2>2 DEF Quiet, Loud, Coming
  <2>3. CASE pc' = AfterStart /\ cd'.enabled = cd.enabled /\ cd'.cdvolume = cd.cdvolume
    BY <1>0, <2>1, <2>3 DEF Quiet, Loud, Coming, AfterStart
  <2>4. cd' = cd \/ (pc' = AfterStart /\ cd'.enabled = cd.enabled /\ cd'.cdvolume = cd.cdvolume)
    BY <1>0, <1>5 DEF StartTrack, Then, Flags
  <2> QED  BY <2>2, <2>3, <2>4
<1>6. CASE FinishResume
  <2>1. pc = "resuming" /\ pc' = "end" /\ (asked' \/ (cd' = cd /\ asked' = asked))
    BY <1>6 DEF FinishResume, At, Ends, Then
  <2> QED
    BY <1>0, <1>1, <1>2, <2>1 DEF Quiet, Loud, Coming
<1>7. CASE ~(RunPause \/ Mute \/ FinishPause \/ StartTrack \/ FinishResume)
  <2>1. Calm
    BY <1>7, CalmRunning
  <2>2. InStaging => InStaging'
    <3>1. CASE pc = "next"
      <4>1. Head(staging).pfn # "Pause"
        BY <1>7, <3>1 DEF Running, Runs, At, OpenDevice, RunStop, RunEject, RunCloseDoor,
           RunGetInfo, DiskInfo, RunPlay, RunResume, RunSwitchToLauncher, RunSwitchToEngine, RunUpdate
      <4>2. staging # <<>>
        BY <3>1 DEF Typed, Places, Busy
      <4>3. staging[1].pfn # "Pause"
        BY <1>0, <4>1, <4>2
      <4> QED  BY <1>0, <4>3 DEF InStaging
    <3> QED  BY <1>2, <3>1
  <2>3. pc \notin {"mute", "pausing"}
    BY <1>7 DEF Running, Runs, At, OpenDevice, RunStop, RunEject, RunCloseDoor,
       RunGetInfo, DiskInfo, RunPlay, RunResume, RunSwitchToLauncher, RunSwitchToEngine, RunUpdate
  <2>4. pc' = "start" => cd'.enabled
    <3>1. pc' = "start" => RunPlay
      BY RunningFrame
    <3>2. RunPlay /\ pc' = "start" => cd'.enabled
      BY <1>0 DEF RunPlay, Ends, Then, Stopped, Flags
    <3> QED  BY <3>1, <3>2
  <2> QED
    BY <1>0, <1>1, <2>1, <2>2, <2>3, <2>4 DEF Quiet, Calm, Loud, Coming
<1> QED
  BY <1>3, <1>4, <1>5, <1>6, <1>7

LEMMA QuietPerform ==
  ASSUME Typed, OnePending, Quiet, NEW a \in Agents, Perform(a)
  PROVE  Quiet'
<1>0. /\ queue \in Seq(Command) /\ cd \in Flags /\ agenda \in [Agents -> Seq(Step)]
      /\ agenda[a] # <<>> /\ agenda' = [agenda EXCEPT ![a] = Tail(agenda[a])]
      /\ UNCHANGED <<staging, pc, alive>> /\ alive
  BY DEF Typed, TypeOK, Perform, Ready
<1>1. /\ cd'.cdvolume = cd.cdvolume /\ cd'.playing = cd.playing
      /\ asked' \/ (asked' = asked /\ cd'.enabled = cd.enabled)
  BY <1>0 DEF Perform, Flags
<1>2. InQueue => InQueue'
  <2>1. \A i \in 1..Len(queue) : i \in 1..Len(queue') /\ queue'[i] = queue[i]
    <3>1. queue' = queue \/ \E c \in Command : queue' = Append(queue, c)
      BY HeadIsCommand, <1>0 DEF Perform, QueueCommand, Typed
    <3> QED  BY <1>0, <3>1
  <2> QED  BY <2>1 DEF InQueue
<1>3. InStaging' = InStaging
  BY <1>0 DEF InStaging
<1>4. InAgenda => InAgenda' \/ InQueue'
  <2>1. CASE a # "main"
    <3>1. agenda'["main"] = agenda["main"]
      BY <1>0, <2>1 DEF Agents
    <3> QED  BY <3>1 DEF InAgenda
  <2>2. CASE a = "main" /\ Head(agenda["main"]) = Call(Cmd("Pause"))
    <3>1. QueueCommand(a, Cmd("Pause"))
      BY <2>2 DEF Perform, Call
    <3>2. CASE IsPending(Cmd("Pause"))
      BY <1>2, <3>2 DEF IsPending, Cmd, InQueue
    <3>3. CASE ~IsPending(Cmd("Pause"))
      <4>1. "Pause" \in Handlers /\ Cmd("Pause") \in Command /\ Cmd("Pause").pfn = "Pause"
        BY CommandTypes DEF Cmd, Handlers
      <4>2. Len(queue) < CD_MAX_QUEUED
        BY <3>3, <4>1, RoomWhenDistinct DEF RoomForAll, IsPending, Typed
      <4>3. queue' = Append(queue, Cmd("Pause"))
        BY <3>1, <3>3, <4>2 DEF QueueCommand, Accepted
      <4>4. Len(queue') = Len(queue) + 1 /\ queue'[Len(queue) + 1] = Cmd("Pause") /\ Len(queue) \in Nat
        BY <1>0, <4>1, <4>3
      <4>5. Len(queue) + 1 \in 1..Len(queue')
        BY <4>4
      <4> QED  BY <4>1, <4>4, <4>5 DEF InQueue
    <3> QED  BY <3>2, <3>3
  <2>3. CASE a = "main" /\ Head(agenda["main"]) # Call(Cmd("Pause"))
    <3> DEFINE ag == agenda["main"]
    <3>1. ag \in Seq(Step) /\ ag # <<>> /\ agenda'["main"] = Tail(ag)
      BY <1>0, <2>3
    <3>2. \A i \in 1..Len(ag) : i # 1 => i - 1 \in 1..Len(Tail(ag)) /\ Tail(ag)[i - 1] = ag[i]
      BY <3>1
    <3>3. ag[1] # Call(Cmd("Pause"))
      BY <2>3, <3>1
    <3> HIDE DEF ag
    <3>4. (\E i \in 1..Len(ag) : ag[i] = Call(Cmd("Pause"))) =>
            \E i \in 1..Len(Tail(ag)) : Tail(ag)[i] = Call(Cmd("Pause"))
      BY <3>2, <3>3
    <3> QED  BY <3>1, <3>4 DEF InAgenda, ag
  <2> QED  BY <2>1, <2>2, <2>3 DEF Agents
<1> QED
  BY <1>0, <1>1, <1>2, <1>3, <1>4 DEF Quiet, Loud, Coming

LEMMA QuietStep ==
  ASSUME Typed, OnePending, Quiet, [Next]_vars
  PROVE  Quiet'
<1>0. queue \in Seq(Command) /\ staging \in Seq(Command)
  BY DEF Typed, TypeOK
<1>1. ASSUME NEW a \in Agents, SetEvent(a)
      PROVE  Quiet'
  BY <1>1 DEF SetEvent, player, Quiet, Loud, Coming, InQueue, InStaging, InAgenda
<1>2. CASE Drain
  <2>1. /\ staging' = queue /\ pc = "wait" /\ UNCHANGED <<agenda, alive, cd, asked>>
        /\ pc' = IF queue = <<>> THEN "wait" ELSE "next"
    BY <1>2 DEF Drain, At, player
  <2>2. ~InStaging
    BY <2>1 DEF Typed, Places, InStaging
  <2>3. InQueue => InStaging'
    BY <1>0, <2>1 DEF InQueue, InStaging
  <2>4. InAgenda' = InAgenda
    BY <2>1 DEF InAgenda
  <2> QED  BY <2>1, <2>2, <2>3, <2>4 DEF Quiet, Loud, Coming
<1>3. CASE EndCommand
  <2>1. /\ staging' = Tail(staging) /\ pc = "end" /\ UNCHANGED <<queue, agenda, alive, cd, asked>>
        /\ pc' = IF Len(staging) = 1 THEN "wait" ELSE "next"
    BY <1>3 DEF EndCommand, At, player
  <2>2. staging # <<>>
    BY <2>1 DEF Typed, Places, Busy
  <2>3. ASSUME NEW i \in 1..Len(staging), i > 1
        PROVE  /\ i - 1 \in 1..Len(Tail(staging)) /\ Tail(staging)[i - 1] = staging[i]
               /\ Len(staging) # 1
    <3>1. Len(staging) \in Nat \ {0} /\ Len(Tail(staging)) = Len(staging) - 1
      BY <1>0, <2>2, TailType
    <3>2. i - 1 \in 1..Len(Tail(staging)) /\ Len(staging) # 1
      BY <2>3, <3>1
    <3>3. Tail(staging)[i - 1] = staging[i]
      BY <1>0, <2>2, <2>3, <3>1, <3>2
    <3> QED  BY <3>2, <3>3
  <2>4. ASSUME InStaging
        PROVE  InStaging'
    <3>1. PICK i \in 1..Len(staging) : staging[i].pfn = "Pause" /\ i > 1
      BY <2>1, <2>4 DEF InStaging
    <3>2. i - 1 \in 1..Len(staging') /\ staging'[i - 1].pfn = "Pause" /\ pc' = "next"
      BY <2>1, <2>3, <3>1
    <3> QED  BY <3>2 DEF InStaging
  <2>5. InAgenda' = InAgenda /\ InQueue' = InQueue
    BY <2>1 DEF InAgenda, InQueue
  <2> QED  BY <2>1, <2>4, <2>5 DEF Quiet, Loud, Coming
<1>4. CASE Shutdown
  BY <1>4 DEF Shutdown, Quiet
<1>5. CASE Restart
  BY <1>5 DEF Restart, player, Quiet
<1>6. CASE UNCHANGED vars
  BY <1>6 DEF vars, queueVars, player, Quiet, Loud, Coming, InQueue, InStaging, InAgenda
<1> QED
  BY <1>1, <1>2, <1>3, <1>4, <1>5, <1>6, Moves, QuietResting, QuietRunning, QuietPerform

LEMMA QuietMutes ==
  ASSUME Typed, Quiet
  PROVE  Muted
<1>0. queue \in Seq(Command) /\ staging \in Seq(Command)
  BY DEF Typed, TypeOK
<1>1. ASSUME NEW i \in 1..Len(queue)
      PROVE  Len(staging) + i \in 1..Len(Todo) /\ Todo[Len(staging) + i] = queue[i]
  BY <1>0, <1>1 DEF Todo
<1>2. ASSUME NEW i \in 1..Len(staging)
      PROVE  i \in 1..Len(Todo) /\ Todo[i] = staging[i]
  BY <1>0, <1>2 DEF Todo
<1>3. Coming => PauseComing
  BY <1>1, <1>2 DEF Coming, InQueue, InStaging, InAgenda, PauseComing
<1> QED
  BY <1>3 DEF Quiet, Loud, Muted

(* At volume 0 nothing plays unless it was asked for. *)
THEOREM StaysMuted == Spec => []Muted
<1>1. Init => Quiet
  BY DEF Init, Quiet, Loud
<1>2. Spec => []Quiet
  BY <1>1, AlwaysTyped, NonePendingTwice, QuietStep, PTL DEF Spec
<1> QED
  BY <1>2, AlwaysTyped, QuietMutes, PTL
=============================================================================
