------------------------------ MODULE PlaySound ------------------------------
(***************************************************************************)
(* CPlaySound (src/common-include/include/mswin/IPlaySound_mswin.h), which *)
(* plays a sound over one of two system interfaces and tells a window of   *)
(* the client when a play is over.  Three parties act on the object:       *)
(*   - the client's thread, in calls that may be interrupted and in calls  *)
(*     that wait for the driver (`doing');                                 *)
(*   - the thread of the wave driver, which calls s_WaveOutProc();         *)
(*   - MCI, whose MM_MCINOTIFY messages reach the object through a window  *)
(*     hook in the client's message loop.                                  *)
(* The two interfaces are external and modelled as the code uses them:     *)
(* a header that is in the driver's queue cannot be written again; a reset *)
(* returns it at once, its callback comes later; closing the wave device   *)
(* waits for the callbacks under way; an MCI play that is interrupted is   *)
(* notified as aborted; and closing the MCI device drops its messages.     *)
(***************************************************************************)
EXTENDS Integers, Sequences, FiniteSets

CONSTANTS
  WavFiles,  \* files to play from memory: sequences of the chunks in them
  Client,    \* what clients do that the object is not made for (see Heeds...)
  MaxPlays   \* bound on plays

Chunk == {"fmt", "badfmt", "data", "other"}

ASSUME SoundAssumption ==
  /\ WavFiles \subseteq Seq(Chunk)
  /\ MaxPlays \in Nat

VARIABLES
  opened,    \* what is open: m_pwavformbin and m_mciDevId
  waveout,   \* m_hWaveout is a device
  started, finished, \* m_nStarted, m_nFinished
  notify,    \* m_hwndNotify is a window, and m_peeker its hook
  hooked,    \* the window has a hook that refers to the object
  aborting,  \* m_abort_flag
  doing,     \* where the client's thread is
  gone,      \* the object is deleted
  fault,     \* an assertion failed, or a deleted object was used
  queued,    \* wave driver: the header is in its queue
  returned,  \* wave driver: how the plays ended whose callbacks are to come
  reporting, \* how the play ended whose callback has counted it and not yet told,
             \* or "None"
  mci,       \* MCI: the device is playing
  mciq,      \* MCI: how the plays ended whose messages wait in the queue
  notices,   \* notifications waiting for the client: what they say, what is so
  plays      \* plays so far

object == <<opened, waveout, started, finished, notify, hooked, aborting>>
driver == <<queued, returned, reporting>>
vars == <<object, doing, gone, fault, driver, mci, mciq, notices, plays>>

Quiet == doing = "Idle"
May == Quiet /\ ~gone /\ ~fault

\* Plays that were started and whose end has not been counted yet.
Outstanding == (IF queued THEN 1 ELSE 0) + Len(returned)
               + (IF mci THEN 1 ELSE 0) + Len(mciq)

\* PostMessage_PlayfileDone(), and the same with the count that goes before it.
Tell(said, so) ==
  notices' = IF notify THEN Append(notices, [said |-> said, so |-> so]) ELSE notices

Finish(said, so) == finished' = finished + 1 /\ Tell(said, so)

(***************************************************************************)
(* How a play ended, as the client sees it by the time it is told: by      *)
(* itself ("End"), or cut short ("Cut").  A play that had ended by itself, *)
(* and was stopped or closed before that was told, is "Late"; one that was *)
(* cut short, and another begun before that was told, is "Replaced".       *)
(***************************************************************************)
AfterStop(so) == IF so = "End" THEN "Late" ELSE so
AfterPlay(so) == IF so = "Cut" THEN "Replaced" ELSE so

IsPlaying == IF ~notify THEN "NotSupport"
             ELSE IF started - finished > 0 THEN "Playing" ELSE "Stopped"

-----------------------------------------------------------------------------
(* The client's thread: what clients are expected to heed.                  *)

\* A window is registered while nothing plays: registering resets the counts.
HeedsRegister == Outstanding > 0 => "RegisterLate" \in Client
\* At most one MCI play is to be notified when the device is closed: Close()
\* makes up for one message that is dropped.
HeedsClose == (opened = "Mci" /\ Outstanding > 1) => "CloseOverlapped" \in Client
\* The window is unregistered before the object goes.
HeedsDelete == hooked => "DeleteHooked" \in Client

RegisterHwndNotify(on) ==
  /\ May
  /\ on # notify
  /\ on => HeedsRegister
  /\ started' = 0 /\ finished' = 0
  /\ notify' = on /\ hooked' = on
  /\ UNCHANGED <<opened, waveout, aborting, doing, gone, fault, driver, mci, mciq,
                 notices, plays>>

\* Mutant: The play is counted although the header is still in the driver's queue.
PlayOnceWavCounted ==
  /\ May /\ opened = "Wav" /\ plays < MaxPlays
  /\ fault' = ~waveout
  /\ aborting' = FALSE
  /\ returned' = [i \in DOMAIN returned |-> AfterPlay(returned[i])]
  /\ reporting' = AfterPlay(reporting)
  /\ IF ~waveout
     THEN UNCHANGED <<queued, doing, plays>>
     ELSE queued' = TRUE /\ doing' = "Counting" /\ plays' = plays + 1
  /\ UNCHANGED <<opened, waveout, started, finished, notify, hooked, gone, mci, mciq, notices>>

\* PlayOnce(): a write, or a play command, and the count when it is done.
PlayOnceWav ==
  /\ May /\ opened = "Wav" /\ plays < MaxPlays
  /\ fault' = ~waveout
  /\ aborting' = FALSE
  /\ returned' = [i \in DOMAIN returned |-> AfterPlay(returned[i])]
  /\ reporting' = AfterPlay(reporting)
  /\ IF queued \/ ~waveout
     THEN UNCHANGED <<queued, doing, plays>>
     ELSE queued' = TRUE /\ doing' = "Counting" /\ plays' = plays + 1
  /\ UNCHANGED <<opened, waveout, started, finished, notify, hooked, gone, mci, mciq, notices>>

PlayOnceMci ==
  /\ May /\ opened = "Mci" /\ plays < MaxPlays
  /\ mci' = TRUE
  /\ mciq' = IF mci /\ notify THEN Append(mciq, "Cut") ELSE mciq
  /\ doing' = "Counting" /\ plays' = plays + 1
  /\ UNCHANGED <<object, gone, fault, driver, notices>>

PlayOnceCounts ==
  /\ doing = "Counting"
  /\ started' = started + 1
  /\ doing' = "Idle"
  /\ UNCHANGED <<opened, waveout, finished, notify, hooked, aborting, gone, fault,
                 driver, mci, mciq, notices, plays>>

\* Mutant: The play is not marked as aborted.
StopWavNoFlag ==
  /\ fault' = ~waveout
  /\ UNCHANGED aborting
  /\ queued' = FALSE
  /\ returned' = [i \in DOMAIN returned |-> AfterStop(returned[i])]
                 \o (IF queued THEN <<"Cut">> ELSE <<>>)
  /\ reporting' = AfterStop(reporting)
  /\ UNCHANGED <<mci, mciq>>

\* Stop(): waveOutReset() returns the header, the stop command ends the play.
StopWav ==
  /\ fault' = ~waveout
  /\ aborting' = TRUE
  /\ queued' = FALSE
  /\ returned' = [i \in DOMAIN returned |-> AfterStop(returned[i])]
                 \o (IF queued THEN <<"Cut">> ELSE <<>>)
  /\ reporting' = AfterStop(reporting)
  /\ UNCHANGED <<mci, mciq>>

StopMci ==
  /\ mci' = FALSE
  /\ mciq' = IF mci /\ notify THEN Append(mciq, "Cut") ELSE mciq
  /\ UNCHANGED <<fault, aborting, driver>>

Stop ==
  /\ May
  /\ \/ opened = "Wav" /\ StopWav
     \/ opened = "Mci" /\ StopMci
  /\ UNCHANGED <<opened, waveout, started, finished, notify, hooked, doing, gone,
                 notices, plays>>

\* Mutant: Nobody stands in for the message that is dropped.
CloseMciSilent ==
  /\ mci' = FALSE /\ mciq' = <<>> /\ opened' = "None"
  /\ UNCHANGED <<finished, notices>>

(***************************************************************************)
(* Close(), called by the client, by OpenSoundBin() and OpenSoundFile()    *)
(* before they open anything, and by the destructor.  It stops the play    *)
(* and then waits for the driver, or closes the MCI device and simulates   *)
(* the notification that will not come any more.  What the call is for is  *)
(* done by CloseEnds.                                                      *)
(***************************************************************************)
CloseMci ==
  /\ mci' = FALSE /\ mciq' = <<>> /\ opened' = "None"
  /\ IF started > finished
     THEN Finish("Aborted", IF mci THEN "Cut" ELSE "Late")
     ELSE UNCHANGED <<finished, notices>>

Close(purpose) ==
  /\ May
  /\ HeedsClose /\ (purpose = "Delete" => HeedsDelete)
  /\ doing' = purpose
  /\ CASE opened = "Wav" -> StopWav /\ UNCHANGED <<opened, finished, notices>>
       [] opened = "Mci" -> CloseMci /\ UNCHANGED <<fault, aborting, driver>>
       [] opened = "None" -> UNCHANGED <<opened, finished, notices, fault, aborting,
                                         driver, mci, mciq>>
  /\ UNCHANGED <<waveout, started, notify, hooked, gone, plays>>

\* Mutant: Close() does not wait for the driver.
ClosedAtOnce == doing \in {"Close", "OpenBin", "OpenFile", "Delete"}

Closed ==
  /\ doing \in {"Close", "OpenBin", "OpenFile", "Delete"}
  /\ returned = <<>> /\ reporting = "None"

CloseEnds ==
  /\ Closed /\ doing \in {"Close", "Delete"}
  /\ opened' = "None" /\ waveout' = FALSE
  /\ gone' = (doing = "Delete")
  /\ doing' = "Idle"
  /\ UNCHANGED <<started, finished, notify, hooked, aborting, fault, driver, mci, mciq,
                 notices, plays>>

\* OpenSoundBin() reads chunks until it has seen both that it needs or meets one
\* it cannot use; the data chunk is taken as it is met.
Seen(f, i, c) == \E j \in 1 .. i : f[j] = c
Ends(f) == {i \in DOMAIN f : f[i] = "badfmt" \/ (Seen(f, i, "fmt") /\ Seen(f, i, "data"))}
LastRead(f) ==
  IF Ends(f) = {} THEN Len(f) ELSE CHOOSE i \in Ends(f) : \A j \in Ends(f) : i <= j
Readable(f) == Ends(f) # {} /\ f[LastRead(f)] # "badfmt"

\* The device may be taken; then the object closes again what it did not open.
OpenSoundBin(f, device) ==
  /\ Closed /\ doing = "OpenBin"
  /\ device \/ "NoDevice" \in Client
  /\ opened' = IF Seen(f, LastRead(f), "data") /\ (device \/ ~Readable(f))
               THEN "Wav" ELSE "None"
  /\ waveout' = (Readable(f) /\ device)
  /\ fault' = (Readable(f) /\ ~device)
  /\ doing' = "Idle"
  /\ UNCHANGED <<started, finished, notify, hooked, aborting, gone, driver, mci, mciq,
                 notices, plays>>

OpenSoundFile(found) ==
  /\ Closed /\ doing = "OpenFile"
  /\ opened' = IF found THEN "Mci" ELSE "None"
  /\ waveout' = FALSE
  /\ doing' = "Idle"
  /\ UNCHANGED <<started, finished, notify, hooked, aborting, gone, fault, driver, mci,
                 mciq, notices, plays>>

-----------------------------------------------------------------------------
(* The driver's thread.                                                     *)

WavEnds ==
  /\ queued
  /\ queued' = FALSE
  /\ returned' = Append(returned, "End")
  /\ UNCHANGED <<object, doing, gone, fault, reporting, mci, mciq, notices, plays>>

\* s_WaveOutProc() with MM_WOM_DONE.  Its thread counts the end first, and then
\* reads the flag and the window; between the two the client may see `Stopped',
\* and do anything.
WaveOutProc ==
  /\ returned # <<>> /\ reporting = "None"
  /\ returned' = Tail(returned)
  /\ fault' = (fault \/ ~waveout)
  /\ IF notify
     THEN finished' = finished + 1 /\ reporting' = Head(returned)
     ELSE UNCHANGED <<finished, reporting>>
  /\ UNCHANGED <<opened, waveout, started, notify, hooked, aborting, doing, gone, queued,
                 mci, mciq, notices, plays>>

WaveOutProcTells ==
  /\ reporting # "None"
  /\ reporting' = "None"
  /\ fault' = (fault \/ ~waveout)
  /\ Tell(IF aborting THEN "Aborted" ELSE "Success", reporting)
  /\ UNCHANGED <<object, doing, gone, queued, returned, mci, mciq, plays>>

-----------------------------------------------------------------------------
(* MCI and the client's message loop.                                       *)

MciEnds ==
  /\ mci
  /\ mci' = FALSE
  /\ mciq' = IF notify THEN Append(mciq, "End") ELSE mciq
  /\ UNCHANGED <<object, doing, gone, fault, driver, notices, plays>>

\* MciNotifyPeeker::SubWndProc() with MM_MCINOTIFY.
MciNotify ==
  /\ Quiet /\ mciq # <<>>
  /\ mciq' = Tail(mciq)
  /\ IF notify
     THEN Finish(IF Head(mciq) = "End" THEN "Success" ELSE "Aborted", Head(mciq))
     ELSE UNCHANGED <<finished, notices>>
  /\ UNCHANGED <<opened, waveout, started, notify, hooked, aborting, doing, gone, fault,
                 driver, mci, plays>>

\* The client's window gets a notification, or another message: the hook looks
\* at it first, by way of the object.
Receive ==
  /\ Quiet /\ notices # <<>>
  /\ notices' = Tail(notices)
  /\ fault' = (fault \/ (hooked /\ gone))
  /\ UNCHANGED <<object, doing, gone, driver, mci, mciq, plays>>

Init ==
  /\ opened = "None" /\ waveout = FALSE
  /\ started = 0 /\ finished = 0
  /\ notify = FALSE /\ hooked = FALSE /\ aborting = FALSE
  /\ doing = "Idle" /\ gone = FALSE /\ fault = FALSE
  /\ queued = FALSE /\ returned = <<>> /\ reporting = "None"
  /\ mci = FALSE /\ mciq = <<>> /\ notices = <<>> /\ plays = 0

Next ==
  \/ \E on \in BOOLEAN : RegisterHwndNotify(on) \/ OpenSoundFile(on)
  \/ PlayOnceWav \/ PlayOnceMci \/ PlayOnceCounts
  \/ Stop
  \/ \E purpose \in {"Close", "OpenBin", "OpenFile", "Delete"} : Close(purpose)
  \/ CloseEnds
  \/ \E f \in WavFiles, device \in BOOLEAN : OpenSoundBin(f, device)
  \/ WavEnds \/ WaveOutProc \/ WaveOutProcTells
  \/ MciEnds \/ MciNotify \/ Receive

(* Sounds end, the driver calls back, the message loop goes on, and calls the *)
(* client has made return.  Nobody needs to make a call.                      *)
Fairness ==
  /\ WF_vars(PlayOnceCounts) /\ WF_vars(CloseEnds)
  /\ WF_vars(\E f \in WavFiles : OpenSoundBin(f, TRUE)) /\ WF_vars(OpenSoundFile(TRUE))
  /\ WF_vars(WavEnds) /\ WF_vars(WaveOutProc) /\ WF_vars(WaveOutProcTells)
  /\ WF_vars(MciEnds) /\ WF_vars(MciNotify) /\ WF_vars(Receive)

Spec == Init /\ [][Next]_vars /\ Fairness

-----------------------------------------------------------------------------
(* Properties.                                                              *)

\* At most one interface is in use, and only while it is open.
TypeOK ==
  /\ opened \in {"None", "Wav", "Mci"} /\ waveout \in BOOLEAN
  /\ started \in 0 .. MaxPlays /\ finished \in 0 .. MaxPlays /\ plays \in 0 .. MaxPlays
  /\ notify \in BOOLEAN /\ hooked \in BOOLEAN /\ aborting \in BOOLEAN
  /\ doing \in {"Idle", "Counting", "Close", "OpenBin", "OpenFile", "Delete"}
  /\ gone \in BOOLEAN /\ fault \in BOOLEAN
  /\ (queued \/ returned # <<>> \/ reporting # "None") => opened = "Wav"
  /\ (mci \/ mciq # <<>>) => opened = "Mci"

\* No assertion of the code fails, in whichever thread.
NoFault == ~fault

\* IsPlaying() can be relied on between calls, as IPlaySound.h tells clients: it
\* is `Playing' just while an end is still to be counted and notified, whatever
\* the driver's thread and the message loop have got done so far.
PlayingExact ==
  /\ TypeOK
  /\ (Quiet /\ notify) => started - finished = Outstanding

\* What a notification says is so, as far as the client has not overtaken it: a play
\* that was cut short is called a success only if another was begun before the
\* driver's thread came to tell, and one that ended by itself is called aborted only
\* if Stop() or Close() was called before that.  A client that waits for each
\* notification is told the truth; one that polls IsPlaying() need not be.
VerdictTrue ==
  \A i \in DOMAIN notices :
    /\ notices[i].said = "Success" => notices[i].so # "Cut"
    /\ notices[i].said = "Aborted" => notices[i].so # "End"

\* `Playing' ends: if the client lets the plays end, every one is counted, also
\* one whose message was dropped with the device.
PlayingEnds == (IsPlaying = "Playing") ~> (IsPlaying # "Playing")

=============================================================================
