------------------------------ MODULE CDWorker ------------------------------
(***************************************************************************)
(* The CD player (shell/netgame/cd_win.cpp): the message loop queues       *)
(* commands for a worker thread, which takes the whole queue at once into  *)
(* cdStaging and runs it.  Queue and staging count are guarded by cdCS; the *)
(* manual-reset event hCDEvent is set after the lock is released.  The     *)
(* player's own flags are plain globals both threads read and write.       *)
(*                                                                         *)
(* The launcher's restart loop (launcher.cpp) kills the worker wherever it  *)
(* stands and starts a new one; the queue and the flags are statics and    *)
(* survive.                                                                *)
(***************************************************************************)
EXTENDS Naturals, Sequences, FiniteSets

CONSTANTS
  CD_MAX_QUEUED,  \* entries of cdQueue (10)
  Track,          \* track numbers of a disc and of the remap table
  Maps,           \* bound: the remap tables a "cd remap" may set
  MaxCalls        \* bound: operations of the message loop, restarts among them

Handlers == {"Play", "Pause", "Resume", "Update", "GetInfo", "Stop", "Eject",
             "CloseDoor", "SwitchToLauncher", "SwitchToEngine"}
NoTrack == 0
Command == [pfn: Handlers, track: Track \cup {NoTrack}, looping: BOOLEAN]
Cmd(h) == [pfn |-> h, track |-> NoTrack, looping |-> FALSE]
PlayCmd(t, l) == [pfn |-> "Play", track |-> t, looping |-> l]

ASSUME CDAssumption ==
  /\ CD_MAX_QUEUED \in Nat
  /\ IsFiniteSet(Handlers) /\ Cardinality(Handlers) <= CD_MAX_QUEUED
  /\ Track \subseteq Nat \ {NoTrack}
  /\ Maps \subseteq [Track -> Track \cup {NoTrack}]
  /\ MaxCalls \in Nat

Agents == {"main", "worker"}

VARIABLES
  queue,      \* cdQueue[0 .. cdQueueCount - 1]
  staging,    \* what is left of cdStaging; the head is being run
  event,      \* hCDEvent is set
  signal,     \* the threads between leaving cdCS and SetEvent
  agenda,     \* what is left of the operation a thread is in
  pc,         \* where the worker stands
  pick,       \* cdTrack and looping of the PlayCommand being run
  alive,      \* between CDAudio_Init and CDAudio_Shutdown
  cd,         \* the player's flags
  clock,      \* what startTime, pauseTime and playTime say
  remap,      \* remap[]
  notices,    \* MCI_NOTIFY messages still to come
  leftover,   \* history: entries of the queue older than this worker
  asked,      \* history: resumed, switched off or shut down since the volume changed
  calls       \* operations so far

queueVars == <<queue, staging, event, signal, leftover>>
player    == <<cd, clock, remap, notices, asked>>
vars == <<queueVars, player, agenda, pc, pick, alive, calls>>

Flags == [enabled: BOOLEAN, cdValid: BOOLEAN, playing: BOOLEAN, wasPlaying: BOOLEAN,
          playLooping: BOOLEAN, playTrack: Track \cup {NoTrack},
          maxTrack: Track \cup {NoTrack}, cdvolume: 0..1, resumeOnSwitch: BOOLEAN]
NextUp == [t \in Track |-> t + 1]                                     \* mutant
Identity == [t \in Track |-> t]

(* The steps an operation has left: a call of CDAudio_QueueCommand, or an  *)
(* assignment that follows one.                                            *)
Step == [do: {"queue", "disable", "invalidate"}, cmd: Command]
Call(c) == [do |-> "queue", cmd |-> c]
Disable == [do |-> "disable", cmd |-> Cmd("Stop")]
Invalidate == [do |-> "invalidate", cmd |-> Cmd("Eject")]
If(b, s) == IF b THEN s ELSE <<>>

Init ==
  /\ queue = <<>> /\ staging = <<>> /\ event = FALSE /\ signal = {} /\ leftover = 0
  /\ agenda = [a \in Agents |-> <<>>]
  /\ pc = "open" /\ pick = PlayCmd(NoTrack, FALSE) /\ alive = TRUE
  /\ cd = [enabled |-> FALSE, cdValid |-> FALSE, playing |-> FALSE, wasPlaying |-> FALSE,
           playLooping |-> FALSE, playTrack |-> NoTrack, maxTrack |-> NoTrack,
           cdvolume |-> 0, resumeOnSwitch |-> FALSE]
  /\ clock = "reset" /\ remap = [t \in Track |-> NoTrack] /\ notices = 0 /\ asked = FALSE
  /\ calls = 0

-----------------------------------------------------------------------------
(* CDAudio_QueueCommand: append under the lock unless the same handler is  *)
(* pending, and set the event after it.                                    *)

IsPending(c) == \E i \in 1..Len(queue) : queue[i].pfn = c.pfn
Accepted(c) == ~IsPending(c) /\ Len(queue) < CD_MAX_QUEUED

QueueAndSignalOnce(a, c) ==                                        \* mutant
  /\ queue' = IF Accepted(c) THEN Append(queue, c) ELSE queue
  /\ signal' = IF queue = <<>> THEN signal \cup {a} ELSE signal
QueueCommand(a, c) ==
  /\ queue' = IF Accepted(c) THEN Append(queue, c) ELSE queue
  /\ signal' = IF Accepted(c) THEN signal \cup {a} ELSE signal

Ready(a) == alive /\ a \notin signal

SetEvent(a) ==
  /\ alive /\ a \in signal
  /\ signal' = signal \ {a} /\ event' = TRUE
  /\ UNCHANGED <<queue, staging, leftover, player, agenda, pc, pick, alive, calls>>

Perform(a) ==
  /\ Ready(a) /\ agenda[a] # <<>>
  /\ agenda' = [agenda EXCEPT ![a] = Tail(@)]
  /\ LET step == Head(agenda[a])
     IN \/ /\ step.do = "queue"
           /\ QueueCommand(a, step.cmd)
           /\ UNCHANGED <<cd, asked>>
        \/ /\ step.do = "disable"
           /\ cd' = [cd EXCEPT !.enabled = FALSE]
           /\ asked' = TRUE
           /\ UNCHANGED <<queue, signal>>
        \/ /\ step.do = "invalidate"
           /\ cd' = [cd EXCEPT !.cdValid = FALSE]
           /\ UNCHANGED <<queue, signal, asked>>
  /\ UNCHANGED <<staging, event, leftover, clock, remap, notices, pc, pick, alive, calls>>

-----------------------------------------------------------------------------
(* The message loop: the engine's calls, the "cd" console command, window   *)
(* and mode switches, and the MCI notifications.                           *)

Operation(steps) ==
  /\ Ready("main") /\ agenda["main"] = <<>> /\ calls < MaxCalls
  /\ agenda' = [agenda EXCEPT !["main"] = steps]
  /\ calls' = calls + 1
  /\ UNCHANGED <<queueVars, pc, pick, alive>>

(* Window activation, mode switches, the engine's own pause and resume.    *)
Request ==
  \E h \in {"Pause", "Resume", "SwitchToLauncher", "SwitchToEngine"} :
    Operation(<<Call(Cmd(h))>>) /\ UNCHANGED player

Play == \E t \in Track, l \in BOOLEAN : Operation(<<Call(PlayCmd(t, l))>>) /\ UNCHANGED player

CdOn ==
  /\ Operation(<<>>)
  /\ cd' = [cd EXCEPT !.enabled = TRUE]
  /\ UNCHANGED <<clock, remap, notices, asked>>
CdOff ==
  Operation(If(cd.playing, <<Call(Cmd("Stop"))>>) \o <<Disable>>) /\ UNCHANGED player
CdReset ==
  /\ Operation(If(cd.playing, <<Call(Cmd("Stop"))>>) \o <<Call(Cmd("GetInfo"))>>)
  /\ cd' = [cd EXCEPT !.enabled = TRUE]
  /\ remap' = Identity
  /\ UNCHANGED <<clock, notices, asked>>
CdRemap ==
  /\ Operation(<<>>)
  /\ remap' \in Maps
  /\ UNCHANGED <<cd, clock, notices, asked>>
CdClose == Operation(<<Call(Cmd("CloseDoor"))>>) /\ UNCHANGED player
(* The rest of "cd" needs a disc; without one it only asks after it.       *)
CdNoDisc == ~cd.cdValid /\ Operation(<<Call(Cmd("GetInfo"))>>) /\ UNCHANGED player
CdStop == cd.cdValid /\ Operation(<<Call(Cmd("Stop"))>>) /\ UNCHANGED player
CdEject ==
  /\ cd.cdValid
  /\ Operation(If(cd.playing, <<Call(Cmd("Stop"))>>)
               \o <<Call(Cmd("Eject")), Invalidate>>)
  /\ UNCHANGED player

(* CDAudio_Update, once a frame: bgmvolume against the volume last seen.   *)
UpdateSteady ==
  cd.enabled /\ Operation(<<Call(Cmd("Update"))>>) /\ UNCHANGED player
UpdateVolume ==
  /\ cd.enabled
  /\ Operation(<<Call(Cmd(IF cd.cdvolume = 1 THEN "Pause" ELSE "Resume")), Call(Cmd("Update"))>>)
  /\ cd' = [cd EXCEPT !.cdvolume = 1 - @]
  /\ asked' = FALSE
  /\ UNCHANGED <<clock, remap, notices>>

(* CDAudio_MessageHandler.  A notification says that one of the plays      *)
(* ended, not which.                                                       *)
Notified(steps) ==
  /\ notices > 0 /\ notices' = notices - 1
  /\ Operation(steps)
  /\ UNCHANGED <<clock, remap, asked>>
NotifySuccessful ==
  /\ Notified(If(cd.playing /\ cd.playLooping, <<Call(PlayCmd(cd.playTrack, TRUE))>>))
  /\ cd' = [cd EXCEPT !.playing = FALSE]
NotifyAborted == Notified(<<>>) /\ UNCHANGED cd
NotifyFailure == Notified(<<Call(Cmd("Stop")), Invalidate>>) /\ UNCHANGED cd

Main ==
  \/ SetEvent("main") \/ Perform("main")
  \/ Request \/ Play \/ CdOn \/ CdOff \/ CdReset \/ CdRemap \/ CdClose
  \/ CdNoDisc \/ CdStop \/ CdEject \/ UpdateSteady \/ UpdateVolume
  \/ NotifySuccessful \/ NotifyAborted \/ NotifyFailure

-----------------------------------------------------------------------------
(* The worker thread.                                                      *)

At(place) == Ready("worker") /\ agenda["worker"] = <<>> /\ pc = place
Then(steps, place) ==
  /\ agenda' = [agenda EXCEPT !["worker"] = steps]
  /\ pc' = place
  /\ UNCHANGED <<queueVars, pick, alive, calls>>

OpenDevice ==
  /\ At("open")
  /\ \/ /\ Then(<<>>, "wait")                  \* -nocdaudio
        /\ UNCHANGED player
     \/ /\ Then(<<>>, "wait")                  \* no device
        /\ clock' = "reset"
        /\ UNCHANGED <<cd, remap, notices, asked>>
     \/ /\ Then(<<Call(Cmd("GetInfo"))>>, "wait")
        /\ clock' = "reset" /\ remap' = Identity
        /\ cd' = [cd EXCEPT !.enabled = TRUE]
        /\ UNCHANGED <<notices, asked>>

(* The event is reset inside the lock that takes the queue.                *)
DrainKeeping ==                                                    \* mutant
  /\ At("wait") /\ event
  /\ staging' = queue /\ queue' = queue /\ leftover' = 0
  /\ event' = FALSE
  /\ pc' = IF queue = <<>> THEN "wait" ELSE "next"
  /\ UNCHANGED <<signal, agenda, pick, alive, player, calls>>
Drain ==
  /\ At("wait") /\ event
  /\ staging' = queue /\ queue' = <<>> /\ leftover' = 0
  /\ event' = FALSE
  /\ pc' = IF queue = <<>> THEN "wait" ELSE "next"
  /\ UNCHANGED <<signal, agenda, pick, alive, player, calls>>
EndCommandReset ==                                                 \* mutant
  /\ At("end")
  /\ staging' = Tail(staging)
  /\ pc' = IF Len(staging) = 1 THEN "wait" ELSE "next"
  /\ pick' = PlayCmd(NoTrack, FALSE)
  /\ event' = (event /\ Len(staging) > 1)
  /\ UNCHANGED <<queue, signal, leftover, agenda, alive, player, calls>>
EndCommand ==
  /\ At("end")
  /\ staging' = Tail(staging)
  /\ pc' = IF Len(staging) = 1 THEN "wait" ELSE "next"
  /\ pick' = PlayCmd(NoTrack, FALSE)
  /\ UNCHANGED <<queue, event, signal, leftover, agenda, alive, player, calls>>
Runs(h) == At("next") /\ Head(staging).pfn = h
Ends == Then(<<>>, "end")

(* StopCommand: by itself, and inside the play and eject commands.         *)
Stoppable(f) == f.enabled /\ (f.playing \/ f.wasPlaying)
Stopped(f) == IF Stoppable(f) THEN [f EXCEPT !.playing = FALSE, !.wasPlaying = FALSE] ELSE f
RunStop ==
  /\ Runs("Stop") /\ Ends
  /\ cd' = Stopped(cd)
  /\ clock' = IF Stoppable(cd) THEN "reset" ELSE clock
  /\ UNCHANGED <<remap, notices, asked>>
RunEject ==
  /\ Runs("Eject") /\ Ends
  /\ cd' = Stopped(cd) /\ clock' = "reset"
  /\ UNCHANGED <<remap, notices, asked>>
RunCloseDoor ==
  /\ Runs("CloseDoor") /\ Ends
  /\ clock' = "reset"
  /\ UNCHANGED <<cd, remap, notices, asked>>

(* GetAudioDiskInfoCommand: the drive may not be ready, or hold no disc.   *)
RunGetInfo ==
  /\ Runs("GetInfo")
  /\ Then(<<>>, "info")
  /\ cd' = [cd EXCEPT !.cdValid = FALSE]
  /\ UNCHANGED <<clock, remap, notices, asked>>
DiskInfo ==
  /\ At("info") /\ Ends
  /\ \/ UNCHANGED cd
     \/ \E n \in Track : cd' = [cd EXCEPT !.maxTrack = n, !.cdValid = TRUE]
  /\ UNCHANGED <<clock, remap, notices, asked>>

(* PlayCommand up to MCI_PLAY.  Only this thread makes a disc valid, so the *)
(* question queued here never helps the same command.                      *)
OnDisc(t) == t \in Track /\ t <= cd.maxTrack
RunPlay ==
  LET c == Head(staging)
      t == IF c.track \in Track THEN remap[c.track] ELSE NoTrack
      playable == cd.enabled /\ cd.cdValid /\ OnDisc(t)
  IN /\ Runs("Play")
     /\ \/ /\ ~cd.enabled \/ cd.cdValid         \* off, off the disc, being played,
           /\ Ends                               \* or refused by the device
           /\ UNCHANGED <<cd, clock>>
        \/ /\ cd.enabled /\ ~cd.cdValid
           /\ Then(<<Call(Cmd("GetInfo"))>>, "end")
           /\ UNCHANGED <<cd, clock>>
        \/ /\ playable
           /\ ~(cd.playing /\ cd.playTrack = t)
           /\ agenda' = agenda /\ pc' = "start"
           /\ pick' = PlayCmd(t, c.looping)
           /\ cd' = IF cd.playing THEN Stopped(cd) ELSE cd
           /\ clock' = IF cd.playing THEN "reset" ELSE clock
           /\ UNCHANGED <<queueVars, alive, calls>>
     /\ UNCHANGED <<remap, notices, asked>>

(* The call that starts the track has returned.  With the volume at 0 the  *)
(* command goes on to pause what it started.                               *)
AlwaysEnd == "end"                                                 \* mutant
AfterStart == IF cd.cdvolume = 0 THEN "mute" ELSE "end"
StartTrack ==
  /\ At("start")
  /\ \/ /\ Ends                                   \* MCI_PLAY failed
        /\ UNCHANGED <<cd, clock, notices>>
     \/ /\ Then(<<>>, AfterStart)
        /\ cd' = [cd EXCEPT !.playLooping = pick.looping, !.playTrack = pick.track,
                            !.playing = TRUE]
        /\ clock' = "running" /\ notices' = notices + 1
  /\ UNCHANGED <<remap, asked>>

(* PauseCommand: the flags follow once MCI_PAUSE has returned.             *)
BeginPause ==
  /\ Then(<<>>, IF cd.enabled /\ cd.playing THEN "pausing" ELSE "end")
  /\ UNCHANGED player
RunPause == Runs("Pause") /\ BeginPause
Mute == At("mute") /\ BeginPause
FinishPause ==
  /\ At("pausing") /\ Ends
  /\ cd' = [cd EXCEPT !.wasPlaying = cd.playing, !.playing = FALSE]
  /\ clock' = IF clock = "running" THEN "held" ELSE clock
  /\ UNCHANGED <<remap, notices, asked>>

(* ResumeCommand.  wasPlaying stays, so a second one pushes startTime into *)
(* the future.                                                             *)
BeginResume ==
  Then(<<>>, IF cd.enabled /\ cd.cdValid /\ cd.wasPlaying THEN "resuming" ELSE "end")
RunResume == Runs("Resume") /\ BeginResume /\ UNCHANGED player
FinishResume ==
  /\ At("resuming") /\ Ends
  /\ \/ /\ clock' = "reset"                       \* MCI_PLAY failed
        /\ UNCHANGED <<cd, notices, asked>>
     \/ /\ cd' = [cd EXCEPT !.playing = TRUE]
        /\ clock' = CASE clock = "held" -> "running" [] clock = "running" -> "ahead"
                      [] OTHER -> clock
        /\ notices' = notices + 1
        /\ asked' = TRUE
  /\ UNCHANGED remap

RunSwitchToLauncher ==
  /\ Runs("SwitchToLauncher")
  /\ IF cd.enabled /\ cd.playing
     THEN Then(<<>>, "mute") /\ cd' = [cd EXCEPT !.resumeOnSwitch = TRUE]
     ELSE Ends /\ UNCHANGED cd
  /\ UNCHANGED <<clock, remap, notices, asked>>
RunSwitchToEngine ==
  /\ Runs("SwitchToEngine")
  /\ IF cd.resumeOnSwitch
     THEN BeginResume /\ cd' = [cd EXCEPT !.resumeOnSwitch = FALSE]
     ELSE Ends /\ UNCHANGED cd
  /\ UNCHANGED <<clock, remap, notices, asked>>

(* UpdateCommand: a track past its length counts as played.                *)
RunUpdate ==
  /\ Runs("Update")
  /\ \/ Ends /\ UNCHANGED cd                      \* within its length, or nothing plays
     \/ /\ cd.playing /\ clock \in {"running", "held"}
        /\ Then(If(cd.playLooping, <<Call(PlayCmd(cd.playTrack, TRUE))>>), "end")
        /\ cd' = [cd EXCEPT !.playing = FALSE]
  /\ UNCHANGED <<clock, remap, notices, asked>>

Worker ==
  \/ SetEvent("worker") \/ Perform("worker")
  \/ OpenDevice \/ Drain \/ EndCommand
  \/ RunStop \/ RunEject \/ RunCloseDoor \/ RunGetInfo \/ DiskInfo
  \/ RunPlay \/ StartTrack \/ RunPause \/ Mute \/ FinishPause
  \/ RunResume \/ FinishResume \/ RunSwitchToLauncher \/ RunSwitchToEngine \/ RunUpdate

-----------------------------------------------------------------------------
(* CDAudio_Shutdown terminates the worker where it stands; the restart loop *)
(* calls CDAudio_Init again, with a new lock and a new event.              *)

Shutdown ==
  /\ Ready("main") /\ agenda["main"] = <<>> /\ calls < MaxCalls
  /\ alive' = FALSE
  /\ signal' = {} /\ event' = FALSE
  /\ agenda' = [agenda EXCEPT !["worker"] = <<>>]
  /\ asked' = TRUE
  /\ calls' = calls + 1
  /\ UNCHANGED <<queue, staging, leftover, cd, clock, remap, notices, pc, pick>>
Restart ==
  /\ ~alive /\ alive' = TRUE
  /\ pc' = "open" /\ staging' = <<>> /\ pick' = PlayCmd(NoTrack, FALSE)
  /\ leftover' = Len(queue)
  /\ UNCHANGED <<queue, event, signal, player, agenda, calls>>

Next == Main \/ Worker \/ Shutdown \/ Restart
Spec == Init /\ [][Next]_vars

(* The worker is a thread of its own and no call it makes waits for the     *)
(* message loop; the loop leaves the operation it is in.  Nothing obliges   *)
(* anyone to begin another.                                                *)
FairSpec ==
  /\ Spec
  /\ WF_vars(Worker) /\ WF_vars(SetEvent("main")) /\ WF_vars(Perform("main"))

-----------------------------------------------------------------------------
(* Properties. *)

TypeOK ==
  /\ queue \in Seq(Command) /\ staging \in Seq(Command)
  /\ event \in BOOLEAN /\ signal \subseteq Agents
  /\ agenda \in [Agents -> Seq(Step)]
  /\ pc \in {"open", "wait", "next", "info", "start", "mute", "pausing", "resuming", "end"}
  /\ pick \in Command /\ alive \in BOOLEAN
  /\ cd \in Flags /\ clock \in {"reset", "running", "held", "ahead"}
  /\ remap \in [Track -> Track \cup {NoTrack}]
  /\ notices \in Nat /\ leftover \in Nat /\ asked \in BOOLEAN
  /\ calls \in 0..MaxCalls

(* A command waits once: whatever the message loop and the worker queue,   *)
(* and across restarts, no handler is pending twice (QueueCommand looks     *)
(* under the lock), so a handler that is not pending always finds a free    *)
(* entry and a call is only ever dropped for an earlier one of its kind.   *)
OnePending == \A i, j \in 1..Len(queue) : queue[i].pfn = queue[j].pfn => i = j

(* No wakeup is lost, although SetEvent is outside the lock and ResetEvent  *)
(* inside: while a command this worker was started before is pending, the   *)
(* event is set or the thread that is about to set it is on its way.       *)
WakeupPending == alive /\ Len(queue) > leftover => event \/ signal # {}

(* Between the queue and the staging array no command is lost, repeated or  *)
(* overtaken: what waits to be run changes at its two ends only (until the  *)
(* worker is killed).                                                      *)
Todo == staging \o queue
InOrder ==
  [][alive' => \/ Todo' = Todo
               \/ \E c \in Command : Todo' = Append(Todo, c)
               \/ Todo # <<>> /\ Todo' = Tail(Todo)
               \/ ~alive /\ Todo' = queue]_vars

(* Every command queued for this worker is run, unless the launcher shuts   *)
(* the player down: the queue is taken, and what was taken is finished.     *)
EveryCommandRun ==
  /\ Len(queue) > leftover ~> (queue = <<>> \/ ~alive)
  /\ staging # <<>> ~> (staging = <<>> \/ ~alive)

(* A track that MCI is asked to play is on the disc read last, however the  *)
(* remap table was changed since the command was queued.                   *)
TrackOnDisc == pc = "start" => pick.track \in 1..cd.maxTrack

(* With the volume at 0 nothing keeps playing unasked: music plays only if  *)
(* a pause is on its way, or after a resume, a "cd off" or a shutdown that  *)
(* came since.                                                             *)
PauseComing ==
  \/ \E i \in 1..Len(Todo) : Todo[i].pfn = "Pause"
  \/ pc \in {"mute", "pausing"}
  \/ \E i \in 1..Len(agenda["main"]) : agenda["main"][i] = Call(Cmd("Pause"))
Muted == cd.cdvolume = 0 /\ cd.playing => asked \/ PauseComing
=============================================================================
