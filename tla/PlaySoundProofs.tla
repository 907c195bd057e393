--------------------------- MODULE PlaySoundProofs ---------------------------
(***************************************************************************)
(* `Playing' can be relied on, verdicts on plays are true, and nothing is  *)
(* called that is gone: the proofs of PlayingExact, VerdictTrue and        *)
(* NoFault, for every number of plays and every set of files.  Each        *)
(* theorem names what its clients must not do.                             *)
(***************************************************************************)
EXTENDS PlaySound, TLAPS

How == {"End", "Cut", "Late", "Replaced"}

\* The play that has been begun, and whose start has not been counted yet.
Uncounted == IF doing = "Counting" THEN 1 ELSE 0

\* Close() has stopped what was playing, and waits.
Closing == doing \in {"Close", "OpenBin", "OpenFile", "Delete"}

(***************************************************************************)
(* The inductive invariant.  SoundTypes adds to TypeOK what the two        *)
(* interfaces hold, and that nothing is written while Close() waits: an    *)
(* interface is idle when it is left.  Counted is what PlayingExact says   *)
(* with the play under way added to those counted, so that it holds at     *)
(* every step; and it bounds the counts also while no window is registered *)
(* and ends are not counted: no end is counted before its start was made.  *)
(***************************************************************************)
SoundTypes ==
  /\ TypeOK
  /\ queued \in BOOLEAN /\ mci \in BOOLEAN
  /\ returned \in Seq(How) /\ mciq \in Seq(How) /\ reporting \in How \cup {"None"}
  /\ Closing => ~queued /\ opened # "Mci"

Counted ==
  /\ started + Uncounted <= plays
  /\ finished <= started + Uncounted
  /\ notify => started + Uncounted - finished = Outstanding

CountInv == SoundTypes /\ Counted

-----------------------------------------------------------------------------
(* What is a number, and what the two queues of ends do.                    *)

LEMMA Nats ==
  ASSUME SoundTypes
  PROVE  /\ MaxPlays \in Nat /\ started \in Nat /\ finished \in Nat /\ plays \in Nat
         /\ Len(returned) \in Nat /\ Len(mciq) \in Nat
         /\ Uncounted \in {0, 1}
  <1>1. MaxPlays \in Nat
    BY SoundAssumption DEF SoundAssumption
  <1>2. started \in Nat /\ finished \in Nat /\ plays \in Nat
    BY <1>1 DEF SoundTypes, TypeOK
  <1>3. Len(returned) \in Nat /\ Len(mciq) \in Nat
    BY DEF SoundTypes
  <1>4. QED
    BY <1>1, <1>2, <1>3 DEF Uncounted

LEMMA Queues ==
  ASSUME NEW s \in Seq(How)
  PROVE  /\ Len(s) \in Nat /\ s # <<>> => Len(s) > 0
         /\ \A h \in How : Append(s, h) \in Seq(How) /\ Len(Append(s, h)) = Len(s) + 1
         /\ s # <<>> => Tail(s) \in Seq(How) /\ Len(Tail(s)) = Len(s) - 1
  OBVIOUS

\* What Stop() and a play make of the ends that are still to be told.
LEMMA Marks ==
  /\ \A so \in How : AfterStop(so) \in How /\ AfterPlay(so) \in How
  /\ AfterStop("None") = "None" /\ AfterPlay("None") = "None"
  /\ \A so : AfterStop(so) # "End" /\ AfterPlay(so) # "Cut"
  BY DEF How, AfterStop, AfterPlay

LEMMA Joined ==
  ASSUME NEW s \in Seq(How), NEW t \in Seq(How)
  PROVE  /\ s \o t \in Seq(How) /\ Len(s \o t) = Len(s) + Len(t)
         /\ \A i \in DOMAIN (s \o t) :
              \/ i \in DOMAIN s /\ (s \o t)[i] = s[i]
              \/ i - Len(s) \in DOMAIN t /\ (s \o t)[i] = t[i - Len(s)]
  <1>1. s \o t \in Seq(How) /\ Len(s \o t) = Len(s) + Len(t)
    OBVIOUS
  <1>2. ASSUME NEW i \in DOMAIN (s \o t)
        PROVE  \/ i \in DOMAIN s /\ (s \o t)[i] = s[i]
               \/ i - Len(s) \in DOMAIN t /\ (s \o t)[i] = t[i - Len(s)]
    <2>1. i \in 1 .. Len(s) + Len(t) /\ Len(s) \in Nat /\ Len(t) \in Nat
      BY <1>1
    <2>2. CASE i <= Len(s)
      BY <2>1, <2>2
    <2>3. CASE i > Len(s)
      BY <2>1, <2>3
    <2>4. QED
      BY <2>1, <2>2, <2>3
  <1>3. QED
    BY <1>1, <1>2

LEMMA StopMarks ==
  ASSUME returned \in Seq(How), StopWav
  PROVE  /\ returned' \in Seq(How)
         /\ Len(returned') = Len(returned) + (IF queued THEN 1 ELSE 0)
         /\ \A i \in DOMAIN returned' : returned'[i] # "End"
  <1> DEFINE marked == [i \in DOMAIN returned |-> AfterStop(returned[i])]
             cut == IF queued THEN <<"Cut">> ELSE <<>>
  <1>1. /\ marked \in Seq(How) /\ Len(marked) = Len(returned)
        /\ \A i \in DOMAIN marked : marked[i] # "End"
    BY Marks
  <1>2. /\ cut \in Seq(How) /\ Len(cut) = (IF queued THEN 1 ELSE 0)
        /\ \A i \in DOMAIN cut : cut[i] # "End"
    <2>1. CASE queued
      <3>1. cut = <<"Cut">> /\ "Cut" \in How /\ "Cut" # "End"
        BY <2>1 DEF How
      <3> HIDE DEF cut
      <3>2. QED
        BY <2>1, <3>1
    <2>2. CASE ~queued
      <3>1. cut = <<>>
        BY <2>2
      <3> HIDE DEF cut
      <3>2. QED
        BY <2>2, <3>1
    <2>3. QED
      BY <2>1, <2>2
  <1>3. returned' = marked \o cut
    BY DEF StopWav
  <1> HIDE DEF marked, cut
  <1>4. /\ marked \o cut \in Seq(How) /\ Len(marked \o cut) = Len(marked) + Len(cut)
        /\ \A i \in DOMAIN (marked \o cut) :
             \/ i \in DOMAIN marked /\ (marked \o cut)[i] = marked[i]
             \/ i - Len(marked) \in DOMAIN cut /\ (marked \o cut)[i] = cut[i - Len(marked)]
    BY <1>1, <1>2, Joined
  <1>5. QED
    BY <1>1, <1>2, <1>3, <1>4

LEMMA PlayMarks ==
  ASSUME returned \in Seq(How), PlayOnceWav
  PROVE  /\ returned' \in Seq(How) /\ Len(returned') = Len(returned)
         /\ (returned' = <<>>) <=> (returned = <<>>)
         /\ DOMAIN returned' = DOMAIN returned
         /\ \A i \in DOMAIN returned' :
              returned'[i] # "Cut" /\ returned'[i] = AfterPlay(returned[i])
  <1>1. returned' = [i \in DOMAIN returned |-> AfterPlay(returned[i])]
    BY DEF PlayOnceWav
  <1>2. QED
    BY <1>1, Marks

LEMMA OutstandingNat ==
  ASSUME SoundTypes
  PROVE  /\ Outstanding \in Nat
         /\ returned # <<>> \/ mciq # <<>> => Outstanding > 0
  <1>1. /\ Len(returned) \in Nat /\ Len(mciq) \in Nat
        /\ returned # <<>> => Len(returned) > 0
        /\ mciq # <<>> => Len(mciq) > 0
    BY Queues DEF SoundTypes
  <1>2. (IF queued THEN 1 ELSE 0) \in {0, 1} /\ (IF mci THEN 1 ELSE 0) \in {0, 1}
    OBVIOUS
  <1>3. ASSUME NEW a \in {0, 1}, NEW b \in {0, 1}
        PROVE  /\ a + Len(returned) + b + Len(mciq) \in Nat
               /\ returned # <<>> \/ mciq # <<>> => a + Len(returned) + b + Len(mciq) > 0
    BY <1>1
  <1>4. QED
    BY <1>2, <1>3 DEF Outstanding

\* An MCI play that ends with a message counts as before.
LEMMA MciMoves ==
  ASSUME SoundTypes, UNCHANGED <<queued, returned>>, Len(mciq') = Len(mciq) + 1, mci
  PROVE  /\ ~mci' => Outstanding' = Outstanding
         /\ mci' => Outstanding' = Outstanding + 1
  <1> DEFINE w == (IF queued THEN 1 ELSE 0) + Len(returned)
  <1>1. w \in Nat /\ Len(mciq) \in Nat
    BY Nats
  <1>2. Outstanding = w + 1 + Len(mciq)
    BY DEF Outstanding
  <1>3. Outstanding' = w + (IF mci' THEN 1 ELSE 0) + Len(mciq')
    BY DEF Outstanding
  <1> HIDE DEF w
  <1>4. QED
    BY <1>1, <1>2, <1>3

-----------------------------------------------------------------------------
(* What each call does to the counts.                                       *)

LEMMA InitCounts == Init => CountInv
  <1> SUFFICES ASSUME Init PROVE CountInv
    OBVIOUS
  <1>1. MaxPlays \in Nat
    BY SoundAssumption DEF SoundAssumption
  <1>2. /\ waveout \in BOOLEAN /\ notify \in BOOLEAN /\ hooked \in BOOLEAN
        /\ aborting \in BOOLEAN /\ gone \in BOOLEAN /\ fault \in BOOLEAN
        /\ queued \in BOOLEAN /\ mci \in BOOLEAN /\ ~queued /\ ~mci
    BY Zenon DEF Init
  <1>3. /\ opened = "None" /\ doing = "Idle" /\ returned = <<>> /\ mciq = <<>>
        /\ started = 0 /\ finished = 0 /\ plays = 0
    BY Zenon DEF Init
  <1>4. SoundTypes
    <2>1. reporting = "None"
      BY DEF Init
    <2>2. QED
      BY <1>1, <1>2, <1>3, <2>1 DEF SoundTypes, TypeOK, Closing
  <1>5. Outstanding = 0
    BY DEF Init, Outstanding
  <1>6. Counted
    BY <1>5 DEF Init, Counted, Uncounted
  <1>7. QED
    BY <1>4, <1>6 DEF CountInv

LEMMA RegisterCounts ==
  ASSUME CountInv, "RegisterLate" \notin Client,
         NEW on \in BOOLEAN, RegisterHwndNotify(on)
  PROVE  CountInv'
  <1>1. doing = "Idle" /\ doing' = "Idle"
    BY DEF RegisterHwndNotify, May, Quiet
  <1>2. SoundTypes'
    BY <1>1, Nats DEF RegisterHwndNotify, CountInv, SoundTypes, TypeOK, Closing, driver
  <1>3. Outstanding' = Outstanding /\ Outstanding \in Nat
    BY OutstandingNat DEF RegisterHwndNotify, Outstanding, driver, CountInv
  <1>4. on => Outstanding = 0
    BY <1>3 DEF RegisterHwndNotify, HeedsRegister
  <1>5. Counted'
    BY <1>1, <1>3, <1>4, Nats DEF RegisterHwndNotify, CountInv, Counted, Uncounted
  <1>6. QED
    BY <1>2, <1>5 DEF CountInv

LEMMA PlayCounts ==
  ASSUME CountInv, PlayOnceWav \/ PlayOnceMci
  PROVE  CountInv'
  <1>1. SoundTypes /\ Counted /\ doing = "Idle" /\ Uncounted = 0 /\ "Cut" \in How
    BY DEF PlayOnceWav, PlayOnceMci, May, Quiet, CountInv, Uncounted, How
  <1>6. PlayOnceWav => /\ returned' \in Seq(How) /\ Len(returned') = Len(returned)
                       /\ reporting' \in How \cup {"None"} /\ opened = "Wav"
    BY <1>1, PlayMarks, Marks DEF PlayOnceWav, SoundTypes
  <1>2. CASE PlayOnceWav /\ doing' = "Idle"
    <2>1. SoundTypes'
      BY <1>1, <1>2, <1>6, Nats DEF PlayOnceWav, SoundTypes, TypeOK, Closing
    <2>2. Outstanding' = Outstanding /\ Uncounted' = 0
      BY <1>2, <1>6 DEF PlayOnceWav, Outstanding, Uncounted
    <2>3. Counted'
      BY <1>1, <1>2, <2>2 DEF PlayOnceWav, Counted
    <2>4. QED
      BY <2>1, <2>3 DEF CountInv
  <1>3. CASE PlayOnceWav /\ doing' = "Counting"
    <2>1. ~queued /\ waveout /\ queued' /\ plays' = plays + 1 /\ plays < MaxPlays
      BY <1>1, <1>3 DEF PlayOnceWav
    <2>2. SoundTypes'
      <3>1. plays' \in 0 .. MaxPlays
        BY <1>1, <2>1, Nats
      <3>2. aborting' \in BOOLEAN /\ fault' \in BOOLEAN /\ queued' \in BOOLEAN
        BY <1>3, <2>1, Zenon DEF PlayOnceWav
      <3>3. /\ opened = "Wav"
            /\ UNCHANGED <<opened, waveout, started, finished, notify, hooked, gone, mci, mciq>>
        BY <1>3 DEF PlayOnceWav
      <3>4. QED
        BY <1>1, <1>3, <1>6, <3>1, <3>2, <3>3 DEF SoundTypes, TypeOK, Closing
    <2>3. Outstanding' = Outstanding + 1 /\ Uncounted' = 1 /\ Outstanding \in Nat
      BY <1>1, <1>3, <1>6, <2>1, Nats DEF PlayOnceWav, Outstanding, Uncounted
    <2>4. Counted'
      BY <1>1, <1>3, <2>1, <2>3, Nats DEF PlayOnceWav, Counted
    <2>5. QED
      BY <2>2, <2>4 DEF CountInv
  <1>4. CASE PlayOnceMci
    <2>1. SoundTypes'
      <3>1. mciq' \in Seq(How) /\ mci' \in BOOLEAN /\ opened = "Mci"
        BY <1>1, <1>4, Queues DEF PlayOnceMci, SoundTypes
      <3>2. QED
        BY <1>1, <1>4, <3>1, Nats DEF PlayOnceMci, SoundTypes, TypeOK, Closing, object, driver
    <2>2. Uncounted' = 1 /\ Outstanding \in Nat
      BY <1>1, <1>4, OutstandingNat DEF PlayOnceMci, Uncounted
    <2>3. notify => Outstanding' = Outstanding + 1
      <3>1. CASE mci /\ notify
        <4>1. Len(mciq') = Len(mciq) + 1 /\ mci' /\ UNCHANGED <<queued, returned>>
          BY <1>1, <1>4, <3>1, Queues DEF PlayOnceMci, SoundTypes, driver
        <4>2. QED
          BY <1>1, <3>1, <4>1, MciMoves
      <3>2. CASE ~mci
        BY <1>1, <1>4, <3>2, Nats DEF PlayOnceMci, Outstanding, driver
      <3>3. QED
        BY <3>1, <3>2
    <2>4. Counted'
      BY <1>1, <1>4, <2>2, <2>3, Nats DEF PlayOnceMci, Counted, object
    <2>5. QED
      BY <2>1, <2>4 DEF CountInv
  <1>5. QED
    BY <1>1, <1>2, <1>3, <1>4 DEF PlayOnceWav

LEMMA StartCounts ==
  ASSUME CountInv, PlayOnceCounts
  PROVE  CountInv'
  <1>1. SoundTypes'
    BY Nats DEF PlayOnceCounts, CountInv, SoundTypes, Counted, Uncounted, TypeOK, Closing, driver
  <1>2. Outstanding' = Outstanding
    BY DEF PlayOnceCounts, Outstanding, driver
  <1>3. Counted'
    BY <1>2, Nats DEF PlayOnceCounts, CountInv, Counted, Uncounted
  <1>4. QED
    BY <1>1, <1>3 DEF CountInv

\* A reset returns the header, and a stop command ends the play: as many ends are
\* to be counted as before.
LEMMA StopWavKeeps ==
  ASSUME SoundTypes, StopWav
  PROVE  /\ ~queued' /\ returned' \in Seq(How) /\ (returned' # <<>> => queued \/ returned # <<>>)
         /\ reporting' \in How \cup {"None"} /\ (reporting' # "None" => reporting # "None")
         /\ Outstanding' = Outstanding
         /\ fault' \in BOOLEAN /\ aborting' \in BOOLEAN /\ UNCHANGED <<mci, mciq>>
  <1>1. /\ returned' \in Seq(How)
        /\ Len(returned') = Len(returned) + (IF queued THEN 1 ELSE 0)
    BY StopMarks DEF SoundTypes
  <1>2. reporting' \in How \cup {"None"} /\ (reporting' # "None" => reporting # "None")
    BY Marks DEF StopWav, SoundTypes
  <1>3. ~queued' /\ fault' \in BOOLEAN /\ aborting' \in BOOLEAN /\ UNCHANGED <<mci, mciq>>
    BY DEF StopWav
  <1>4. Outstanding' = Outstanding
    <2>1. CASE queued
      BY <1>1, <1>3, <2>1, Nats DEF Outstanding
    <2>2. CASE ~queued
      BY <1>1, <1>3, <2>2, Nats DEF Outstanding
    <2>3. QED
      BY <2>1, <2>2
  <1>5. returned' # <<>> => queued \/ returned # <<>>
    BY <1>1, Queues DEF SoundTypes
  <1>6. QED
    BY <1>1, <1>2, <1>3, <1>4, <1>5

\* Neither that nor what Close() goes on to do confuses the two interfaces.
LEMMA StopWavTypes ==
  ASSUME SoundTypes, opened = "Wav", StopWav,
         doing' \in {"Idle", "Close", "OpenBin", "OpenFile", "Delete"},
         UNCHANGED <<opened, waveout, started, finished, notify, hooked, gone, plays>>
  PROVE  SoundTypes'
  <1>1. /\ ~queued' /\ returned' \in Seq(How) /\ reporting' \in How \cup {"None"}
        /\ fault' \in BOOLEAN /\ aborting' \in BOOLEAN /\ mci' = mci /\ mciq' = mciq
    BY StopWavKeeps
  <1>2. ~mci /\ mciq = <<>> /\ mci \in BOOLEAN
    BY DEF SoundTypes, TypeOK
  <1>3. /\ started \in 0 .. MaxPlays /\ finished \in 0 .. MaxPlays /\ plays \in 0 .. MaxPlays
        /\ waveout \in BOOLEAN /\ notify \in BOOLEAN /\ hooked \in BOOLEAN /\ gone \in BOOLEAN
        /\ mciq \in Seq(How)
    BY DEF SoundTypes, TypeOK
  <1>4. TypeOK'
    BY <1>1, <1>2, <1>3 DEF TypeOK
  <1>5. queued' \in BOOLEAN
    BY Zenon DEF StopWav
  <1>6. QED
    BY <1>1, <1>2, <1>3, <1>4, <1>5 DEF SoundTypes

LEMMA StopCounts ==
  ASSUME CountInv, Stop
  PROVE  CountInv'
  <1>1. SoundTypes /\ Counted /\ doing = "Idle" /\ doing' = "Idle" /\ "Cut" \in How
    BY DEF Stop, May, Quiet, CountInv, How
  <1>2. CASE opened = "Wav" /\ StopWav
    <2>1. SoundTypes'
      BY <1>1, <1>2, StopWavTypes DEF Stop
    <2>2. Counted'
      BY <1>1, <1>2, StopWavKeeps DEF Stop, Counted, Uncounted
    <2>3. QED
      BY <2>1, <2>2 DEF CountInv
  <1>3. CASE opened = "Mci" /\ StopMci
    <2>1. mciq' \in Seq(How)
      BY <1>1, <1>3, Queues DEF StopMci, SoundTypes
    <2>2. SoundTypes'
      BY <1>1, <1>3, <2>1, Nats DEF Stop, StopMci, SoundTypes, TypeOK, Closing, driver
    <2>3. notify => Outstanding' = Outstanding
      <3>1. CASE mci /\ notify
        <4>1. Len(mciq') = Len(mciq) + 1 /\ ~mci' /\ UNCHANGED <<queued, returned>>
          BY <1>1, <1>3, <3>1, Queues DEF StopMci, SoundTypes, driver
        <4>2. QED
          BY <1>1, <3>1, <4>1, MciMoves
      <3>2. CASE ~mci
        BY <1>1, <1>3, <3>2, Nats DEF StopMci, Outstanding, driver
      <3>3. QED
        BY <3>1, <3>2
    <2>4. Counted'
      BY <1>1, <2>3 DEF Stop, Counted, Uncounted
    <2>5. QED
      BY <2>2, <2>4 DEF CountInv
  <1>4. QED
    BY <1>2, <1>3 DEF Stop

LEMMA CloseCounts ==
  ASSUME CountInv, "CloseOverlapped" \notin Client,
         NEW purpose \in {"Close", "OpenBin", "OpenFile", "Delete"}, Close(purpose)
  PROVE  CountInv'
  <1>1. /\ SoundTypes /\ Counted /\ doing = "Idle" /\ doing' = purpose
        /\ Uncounted = 0 /\ Uncounted' = 0
        /\ UNCHANGED <<waveout, started, notify, hooked, gone, plays>>
    BY DEF Close, May, Quiet, CountInv, Uncounted
  <1>2. CASE opened = "Wav"
    <2>1. StopWav /\ UNCHANGED <<opened, finished, notices>>
      BY <1>2 DEF Close
    <2>2. SoundTypes'
      BY <1>1, <1>2, <2>1, StopWavTypes
    <2>3. Counted'
      BY <1>1, <2>1, StopWavKeeps DEF Counted
    <2>4. QED
      BY <2>2, <2>3 DEF CountInv
  <1>3. CASE opened = "Mci"
    <2>1. CloseMci /\ UNCHANGED <<fault, aborting, driver>>
      BY <1>3 DEF Close
    <2>2. ~queued /\ returned = <<>> /\ Len(returned) = 0 /\ reporting = "None"
      BY <1>1, <1>3 DEF SoundTypes, TypeOK
    <2>3. /\ ~mci' /\ mciq' = <<>> /\ opened' = "None" /\ queued' = queued
          /\ returned' = returned /\ reporting' = reporting /\ fault' = fault /\ aborting' = aborting
          /\ finished' = IF started > finished THEN finished + 1 ELSE finished
      BY <2>1 DEF CloseMci, Finish, driver
    <2>4. finished' \in 0 .. MaxPlays /\ finished' <= started
      BY <1>1, <2>3, Nats DEF SoundTypes, TypeOK, Counted
    <2>5. SoundTypes'
      <3>1. /\ started \in 0 .. MaxPlays /\ plays \in 0 .. MaxPlays
            /\ waveout \in BOOLEAN /\ notify \in BOOLEAN /\ hooked \in BOOLEAN
            /\ aborting \in BOOLEAN /\ gone \in BOOLEAN /\ fault \in BOOLEAN
        BY <1>1 DEF SoundTypes, TypeOK
      <3>2. TypeOK'
        BY <1>1, <2>2, <2>3, <2>4, <3>1 DEF TypeOK
      <3>3. mci' \in BOOLEAN
        BY <2>1, Zenon DEF CloseMci
      <3>4. QED
        BY <1>1, <2>2, <2>3, <3>2, <3>3 DEF SoundTypes
    <2>6. Outstanding' = 0
      BY <2>2, <2>3 DEF Outstanding
    <2>7. Outstanding \in Nat /\ Outstanding <= 1
      <3>1. HeedsClose
        BY DEF Close
      <3>2. QED
        BY <1>1, <1>3, <3>1, OutstandingNat DEF HeedsClose
    <2>8. Counted'
      BY <1>1, <2>3, <2>4, <2>6, <2>7, Nats DEF Counted
    <2>9. QED
      BY <2>5, <2>8 DEF CountInv
  <1>4. CASE opened = "None"
    <2>1. UNCHANGED <<opened, finished, notices, fault, aborting, queued, returned, reporting,
                      mci, mciq>>
      BY <1>4 DEF Close, driver
    <2>2. SoundTypes'
      BY <1>1, <1>4, <2>1, Nats DEF SoundTypes, TypeOK, Closing
    <2>3. Outstanding' = Outstanding
      BY <2>1 DEF Outstanding
    <2>4. Counted'
      BY <1>1, <2>1, <2>3 DEF Counted
    <2>5. QED
      BY <2>2, <2>4 DEF CountInv
  <1>5. QED
    BY <1>1, <1>2, <1>3, <1>4 DEF SoundTypes, TypeOK

\* Close() has waited for the driver: nothing is played any more.
LEMMA ClosedIsIdle ==
  ASSUME SoundTypes, Closed
  PROVE  ~queued /\ returned = <<>> /\ reporting = "None" /\ ~mci /\ mciq = <<>>
  BY DEF Closed, Closing, SoundTypes, TypeOK

\* Whatever is opened then, the counts and the window stay.
LEMMA OpenedCounts ==
  ASSUME CountInv, Closed, doing' = "Idle",
         opened' \in {"None", "Wav", "Mci"}, waveout' \in BOOLEAN,
         fault' \in BOOLEAN, gone' \in BOOLEAN,
         UNCHANGED <<started, finished, notify, hooked, aborting, queued, returned, reporting,
                     mci, mciq, plays>>
  PROVE  CountInv'
  <1>1. SoundTypes /\ Counted /\ Uncounted = 0 /\ Uncounted' = 0
    BY DEF CountInv, Closed, Uncounted
  <1>2. SoundTypes'
    BY <1>1, ClosedIsIdle, Nats DEF SoundTypes, TypeOK, Closing
  <1>3. Outstanding' = Outstanding
    BY DEF Outstanding
  <1>4. Counted'
    BY <1>1, <1>3 DEF Counted
  <1>5. QED
    BY <1>2, <1>4 DEF CountInv

LEMMA OpenCounts ==
  ASSUME CountInv,
         \/ CloseEnds
         \/ \E f \in WavFiles, device \in BOOLEAN : OpenSoundBin(f, device)
         \/ \E found \in BOOLEAN : OpenSoundFile(found)
  PROVE  CountInv'
  <1>1. gone \in BOOLEAN /\ fault \in BOOLEAN
    BY DEF CountInv, SoundTypes, TypeOK
  <1>2. CASE CloseEnds
    BY <1>1, <1>2, OpenedCounts DEF CloseEnds, driver
  <1>3. ASSUME NEW f \in WavFiles, NEW device \in BOOLEAN, OpenSoundBin(f, device)
        PROVE  CountInv'
    <2>1. opened' \in {"None", "Wav", "Mci"} /\ waveout' \in BOOLEAN /\ fault' \in BOOLEAN
      BY <1>3 DEF OpenSoundBin, Readable
    <2>2. QED
      BY <1>1, <1>3, <2>1, OpenedCounts DEF OpenSoundBin, driver
  <1>4. ASSUME NEW found \in BOOLEAN, OpenSoundFile(found)
        PROVE  CountInv'
    BY <1>1, <1>4, OpenedCounts DEF OpenSoundFile, driver
  <1>5. QED
    BY <1>2, <1>3, <1>4

-----------------------------------------------------------------------------
(* What the driver, MCI and the message loop do to them.                    *)

\* An end that is reported is one of those outstanding: it is of a play whose
\* start has been counted, or is about to be.
LEMMA Reported ==
  ASSUME CountInv, returned # <<>> \/ mciq # <<>>, notify
  PROVE  finished + 1 <= started + Uncounted /\ finished + 1 \in 0 .. MaxPlays
  <1>1. SoundTypes /\ Counted
    BY DEF CountInv
  <1>2. Outstanding \in Nat /\ Outstanding > 0
    BY <1>1, OutstandingNat
  <1>3. QED
    BY <1>1, <1>2, Nats DEF Counted, SoundTypes, TypeOK

LEMMA EndCounts ==
  ASSUME CountInv, WavEnds \/ MciEnds
  PROVE  CountInv'
  <1>1. SoundTypes /\ Counted /\ "End" \in How
    BY DEF CountInv, How
  <1>2. CASE WavEnds
    <2>1. returned' \in Seq(How) /\ Len(returned') = Len(returned) + 1 /\ queued /\ ~queued'
      BY <1>1, <1>2, Queues DEF WavEnds, SoundTypes
    <2>2. SoundTypes'
      BY <1>1, <1>2, <2>1 DEF WavEnds, SoundTypes, TypeOK, Closing, object
    <2>3. Outstanding' = Outstanding
      BY <1>1, <1>2, <2>1, Nats DEF WavEnds, Outstanding
    <2>4. Counted'
      BY <1>1, <1>2, <2>3 DEF WavEnds, Counted, Uncounted, object
    <2>5. QED
      BY <2>2, <2>4 DEF CountInv
  <1>3. CASE MciEnds
    <2>1. /\ mciq' \in Seq(How) /\ mci /\ ~mci'
          /\ notify => Len(mciq') = Len(mciq) + 1
      BY <1>1, <1>3, Queues DEF MciEnds, SoundTypes
    <2>2. SoundTypes'
      BY <1>1, <1>3, <2>1 DEF MciEnds, SoundTypes, TypeOK, Closing, object, driver
    <2>3. notify => Outstanding' = Outstanding
      <3>1. UNCHANGED <<queued, returned>>
        BY <1>3 DEF MciEnds, driver
      <3>2. QED
        BY <1>1, <2>1, <3>1, MciMoves
    <2>4. Counted'
      BY <1>1, <1>3, <2>3 DEF MciEnds, Counted, Uncounted, object
    <2>5. QED
      BY <2>2, <2>4 DEF CountInv
  <1>4. QED
    BY <1>2, <1>3

LEMMA ReportCounts ==
  ASSUME CountInv, WaveOutProc \/ MciNotify
  PROVE  CountInv'
  <1>1. SoundTypes /\ Counted
    BY DEF CountInv
  <1>2. /\ UNCHANGED <<opened, waveout, started, notify, hooked, aborting, doing, gone, queued,
                       mci, plays>>
        /\ finished' = IF notify THEN finished + 1 ELSE finished
        /\ fault' \in BOOLEAN
        /\ returned # <<>> \/ mciq # <<>>
    BY <1>1 DEF WaveOutProc, MciNotify, Finish, driver, SoundTypes, TypeOK
  <1>9. /\ reporting' \in How \cup {"None"}
        /\ reporting' # "None" => opened = "Wav"
    <2>1. CASE WaveOutProc
      <3>1. reporting' \in {Head(returned), reporting} /\ returned # <<>> /\ reporting = "None"
        BY <2>1 DEF WaveOutProc
      <3>2. Head(returned) \in How
        BY <1>1, <3>1 DEF SoundTypes
      <3>3. QED
        BY <1>1, <3>1, <3>2 DEF SoundTypes, TypeOK
    <2>2. CASE MciNotify
      BY <1>1, <2>2 DEF MciNotify, driver, SoundTypes, TypeOK
    <2>3. QED
      BY <2>1, <2>2
  <1>3. Uncounted' = Uncounted /\ Outstanding \in Nat
    BY <1>1, <1>2, OutstandingNat DEF Uncounted
  <1>4. /\ returned' \in Seq(How) /\ mciq' \in Seq(How)
        /\ Outstanding' = Outstanding - 1
        /\ returned' # <<>> => returned # <<>>
        /\ mciq' # <<>> => mciq # <<>>
    <2>1. CASE WaveOutProc
      <3>1. /\ returned # <<>> /\ returned' = Tail(returned) /\ mciq' = mciq
            /\ returned' \in Seq(How) /\ Len(returned') = Len(returned) - 1
        BY <1>1, <2>1, Queues DEF WaveOutProc, SoundTypes
      <3>2. QED
        BY <1>1, <1>2, <3>1, Nats DEF Outstanding, SoundTypes
    <2>2. CASE MciNotify
      <3>1. /\ mciq # <<>> /\ mciq' = Tail(mciq) /\ returned' = returned
            /\ mciq' \in Seq(How) /\ Len(mciq') = Len(mciq) - 1
        BY <1>1, <2>2, Queues DEF MciNotify, SoundTypes, driver
      <3>2. QED
        BY <1>1, <1>2, <3>1, Nats DEF Outstanding, SoundTypes
    <2>3. QED
      BY <2>1, <2>2
  <1>5. finished' \in 0 .. MaxPlays /\ finished' <= started + Uncounted
    <2>1. CASE notify
      BY <1>2, <2>1, Reported
    <2>2. CASE ~notify
      BY <1>1, <1>2, <2>2 DEF Counted, SoundTypes, TypeOK
    <2>3. QED
      BY <2>1, <2>2
  <1>6. SoundTypes'
    BY <1>1, <1>2, <1>4, <1>5, <1>9 DEF SoundTypes, TypeOK, Closing
  <1>7. Counted'
    BY <1>1, <1>2, <1>3, <1>4, <1>5, Nats DEF Counted
  <1>8. QED
    BY <1>6, <1>7 DEF CountInv

LEMMA TellCounts ==
  ASSUME CountInv, WaveOutProcTells
  PROVE  CountInv'
  <1>1. SoundTypes /\ Counted
    BY DEF CountInv
  <1>2. SoundTypes'
    BY <1>1 DEF WaveOutProcTells, SoundTypes, TypeOK, Closing, object
  <1>3. Outstanding' = Outstanding
    BY DEF WaveOutProcTells, Outstanding
  <1>4. Counted'
    BY <1>1, <1>3 DEF WaveOutProcTells, Counted, Uncounted, object
  <1>5. QED
    BY <1>2, <1>4 DEF CountInv

LEMMA ReceiveCounts ==
  ASSUME CountInv, Receive
  PROVE  CountInv'
  <1>1. SoundTypes /\ Counted
    BY DEF CountInv
  <1>2. SoundTypes'
    BY <1>1 DEF Receive, SoundTypes, TypeOK, Closing, object, driver
  <1>3. Outstanding' = Outstanding
    BY DEF Receive, Outstanding, driver
  <1>4. Counted'
    BY <1>1, <1>3 DEF Receive, Counted, Uncounted, object
  <1>5. QED
    BY <1>2, <1>4 DEF CountInv

LEMMA IdleCounts ==
  ASSUME CountInv, UNCHANGED vars
  PROVE  CountInv'
  <1>1. SoundTypes'
    BY DEF CountInv, vars, object, driver, SoundTypes, TypeOK, Closing
  <1>2. Counted'
    BY DEF CountInv, vars, object, driver, Counted, Uncounted, Outstanding
  <1>3. QED
    BY <1>1, <1>2 DEF CountInv

-----------------------------------------------------------------------------
LEMMA NextCounts ==
  ASSUME "RegisterLate" \notin Client, "CloseOverlapped" \notin Client,
         CountInv, [Next]_vars
  PROVE  CountInv'
  <1>1. ASSUME NEW on \in BOOLEAN, RegisterHwndNotify(on)
        PROVE  CountInv'
    BY <1>1, RegisterCounts
  <1>2. CASE PlayOnceWav \/ PlayOnceMci
    BY <1>2, PlayCounts
  <1>3. CASE PlayOnceCounts
    BY <1>3, StartCounts
  <1>4. CASE Stop
    BY <1>4, StopCounts
  <1>5. ASSUME NEW purpose \in {"Close", "OpenBin", "OpenFile", "Delete"}, Close(purpose)
        PROVE  CountInv'
    BY <1>5, CloseCounts
  <1>6. CASE \/ CloseEnds
             \/ \E f \in WavFiles, device \in BOOLEAN : OpenSoundBin(f, device)
             \/ \E found \in BOOLEAN : OpenSoundFile(found)
    BY <1>6, OpenCounts
  <1>7. CASE WavEnds \/ MciEnds
    BY <1>7, EndCounts
  <1>8. CASE WaveOutProc \/ MciNotify \/ WaveOutProcTells
    BY <1>8, ReportCounts, TellCounts
  <1>9. CASE Receive
    BY <1>9, ReceiveCounts
  <1>10. CASE UNCHANGED vars
    BY <1>10, IdleCounts
  <1>11. QED
    BY <1>1, <1>2, <1>3, <1>4, <1>5, <1>6, <1>7, <1>8, <1>9, <1>10 DEF Next

LEMMA CountsExact == CountInv => PlayingExact
  <1> SUFFICES ASSUME CountInv, Quiet, notify PROVE started - finished = Outstanding
    BY DEF CountInv, SoundTypes, PlayingExact
  <1>1. Uncounted = 0
    BY DEF Quiet, Uncounted
  <1>2. QED
    BY <1>1, Nats DEF CountInv, Counted

\* IPlaySound.h has clients ask IsPlaying(): for any number of plays over both
\* interfaces, in whatever order the driver's thread and the message loop get to
\* report their ends, a play is `Playing' between calls just while its end is
\* still to be counted -- for clients that register a window while nothing plays
\* and close with at most one MCI play to be notified.
THEOREM PlayingCorrect ==
  ASSUME "RegisterLate" \notin Client, "CloseOverlapped" \notin Client
  PROVE  Spec => []PlayingExact
  <1>1. Init => CountInv
    BY InitCounts
  <1>2. CountInv /\ [Next]_vars => CountInv'
    BY NextCounts
  <1>3. CountInv => PlayingExact
    BY CountsExact
  <1>4. QED
    BY <1>1, <1>2, <1>3, PTL DEF Spec

-----------------------------------------------------------------------------
(***************************************************************************)
(* What a notification says is so.  The driver's thread tells by           *)
(* m_abort_flag alone, which Stop() raises and the next play lowers: what  *)
(* makes it right is that the flag is up while a play that was cut is to   *)
(* be told, and down while one is that ended by itself or is still played, *)
(* but for those the client has overtaken.                                 *)
(***************************************************************************)
Notices == [said : {"Success", "Aborted"}, so : How]

ToTell(so) == reporting = so \/ \E i \in DOMAIN returned : returned[i] = so

FlagTells ==
  /\ ToTell("Cut") => aborting
  /\ (ToTell("End") \/ queued) => ~aborting

VerdictInv ==
  /\ opened \in {"None", "Wav", "Mci"}
  /\ returned \in Seq(How) /\ mciq \in Seq(How) /\ notices \in Seq(Notices)
  /\ reporting \in How \cup {"None"}
  /\ FlagTells
  /\ VerdictTrue

LEMMA Elements ==
  ASSUME NEW S, NEW s \in Seq(S)
  PROVE  /\ \A e \in S : /\ Append(s, e) \in Seq(S)
                         /\ \A i \in DOMAIN Append(s, e) :
                              Append(s, e)[i] = e \/ (i \in DOMAIN s /\ Append(s, e)[i] = s[i])
         /\ s # <<>> => /\ Tail(s) \in Seq(S) /\ Head(s) \in S
                        /\ 1 \in DOMAIN s /\ Head(s) = s[1]
                        /\ \A i \in DOMAIN Tail(s) : i + 1 \in DOMAIN s /\ Tail(s)[i] = s[i + 1]
  <1>1. ASSUME NEW e \in S
        PROVE  /\ Append(s, e) \in Seq(S)
               /\ \A i \in DOMAIN Append(s, e) :
                    Append(s, e)[i] = e \/ (i \in DOMAIN s /\ Append(s, e)[i] = s[i])
    OBVIOUS
  <1>2. CASE s # <<>>
    BY <1>2
  <1>3. QED
    BY <1>1, <1>2

\* A notification is true if its verdict is.
LEMMA TellIsTrue ==
  ASSUME VerdictInv, NEW said \in {"Success", "Aborted"}, NEW so \in How,
         said = "Success" => so # "Cut", said = "Aborted" => so # "End", Tell(said, so)
  PROVE  notices' \in Seq(Notices) /\ VerdictTrue'
  <1> DEFINE new == [said |-> said, so |-> so]
  <1>1. new \in Notices /\ new.said = said /\ new.so = so
    BY DEF Notices
  <1>2. notices' = notices \/ notices' = Append(notices, new)
    BY DEF Tell
  <1> HIDE DEF new
  <1>3. CASE notices' = Append(notices, new)
    <2>1. /\ notices' \in Seq(Notices)
          /\ \A i \in DOMAIN notices' :
               notices'[i] = new \/ (i \in DOMAIN notices /\ notices'[i] = notices[i])
      BY <1>1, <1>3, Elements DEF VerdictInv
    <2>2. QED
      BY <1>1, <2>1 DEF VerdictInv, VerdictTrue
  <1>4. QED
    BY <1>2, <1>3 DEF VerdictInv, VerdictTrue

\* A reset cuts the play short, and overtakes what is still to be told.
LEMMA StopIsTrue ==
  ASSUME VerdictInv, StopWav
  PROVE  returned' \in Seq(How) /\ reporting' \in How \cup {"None"} /\ FlagTells'
  <1>1. /\ returned' \in Seq(How)
        /\ \A i \in DOMAIN returned' : returned'[i] # "End"
    BY StopMarks DEF VerdictInv
  <1>2. reporting' \in How \cup {"None"} /\ reporting' # "End"
    BY Marks DEF StopWav, VerdictInv
  <1>3. aborting' /\ ~queued'
    BY DEF StopWav
  <1>4. QED
    BY <1>1, <1>2, <1>3 DEF FlagTells, ToTell

\* A play overtakes the stop before it.
LEMMA PlayIsTrue ==
  ASSUME VerdictInv, PlayOnceWav
  PROVE  VerdictInv'
  <1>1. /\ returned' \in Seq(How)
        /\ \A i \in DOMAIN returned' : returned'[i] # "Cut"
    BY PlayMarks DEF VerdictInv
  <1>2. reporting' \in How \cup {"None"} /\ reporting' # "Cut"
    BY Marks DEF PlayOnceWav, VerdictInv
  <1>3. ~aborting' /\ UNCHANGED <<opened, mciq, notices>>
    BY DEF PlayOnceWav
  <1>4. FlagTells'
    BY <1>1, <1>2, <1>3 DEF FlagTells, ToTell
  <1>5. QED
    BY <1>1, <1>2, <1>3, <1>4 DEF VerdictInv, VerdictTrue

\* MCI has its own queue, and the flag is not for it.
LEMMA MciIsTrue ==
  ASSUME VerdictInv, StopMci \/ MciEnds \/ PlayOnceMci
  PROVE  mciq' \in Seq(How) /\ UNCHANGED <<returned, reporting, aborting, queued>>
  <1>1. mciq' \in {mciq, Append(mciq, "Cut"), Append(mciq, "End")}
    BY DEF StopMci, MciEnds, PlayOnceMci
  <1>2. Append(mciq, "Cut") \in Seq(How) /\ Append(mciq, "End") \in Seq(How)
    BY Elements DEF VerdictInv, How
  <1>3. QED
    BY <1>1, <1>2 DEF StopMci, MciEnds, PlayOnceMci, VerdictInv, driver, object

LEMMA EndIsTrue ==
  ASSUME VerdictInv, WavEnds
  PROVE  VerdictInv'
  <1>1. /\ returned' = Append(returned, "End") /\ queued /\ ~queued'
        /\ UNCHANGED <<opened, aborting, reporting, mciq, notices>>
    BY DEF WavEnds, object
  <1>2. /\ returned' \in Seq(How)
        /\ \A i \in DOMAIN returned' :
             returned'[i] = "End" \/ (i \in DOMAIN returned /\ returned'[i] = returned[i])
    BY <1>1, Elements DEF VerdictInv, How
  <1>3. FlagTells'
    BY <1>1, <1>2 DEF VerdictInv, FlagTells, ToTell
  <1>4. QED
    BY <1>1, <1>2, <1>3 DEF VerdictInv, VerdictTrue

LEMMA CloseIsTrue ==
  ASSUME VerdictInv, NEW purpose, Close(purpose)
  PROVE  VerdictInv'
  <1>1. CASE opened = "Wav"
    <2>1. StopWav /\ UNCHANGED <<opened, notices, mciq>>
      BY <1>1 DEF Close, StopWav
    <2>2. QED
      BY <2>1, StopIsTrue DEF VerdictInv, VerdictTrue
  <1>2. CASE opened = "Mci"
    <2>1. /\ CloseMci /\ UNCHANGED <<aborting, returned, reporting, queued>>
          /\ mciq' = <<>> /\ opened' = "None"
      BY <1>2 DEF Close, CloseMci, driver
    <2>2. notices' \in Seq(Notices) /\ VerdictTrue'
      <3>1. CASE started > finished
        <4>1. Tell("Aborted", IF mci THEN "Cut" ELSE "Late")
          BY <2>1, <3>1 DEF CloseMci, Finish
        <4>2. (IF mci THEN "Cut" ELSE "Late") \in How \ {"End"}
          BY DEF How
        <4>3. QED
          BY <4>1, <4>2, TellIsTrue
      <3>2. CASE ~(started > finished)
        BY <2>1, <3>2 DEF CloseMci, VerdictInv, VerdictTrue
      <3>3. QED
        BY <3>1, <3>2
    <2>3. QED
      BY <2>1, <2>2 DEF VerdictInv, FlagTells, ToTell
  <1>3. CASE opened = "None"
    BY <1>3 DEF Close, driver, VerdictInv, VerdictTrue, FlagTells, ToTell
  <1>4. QED
    BY <1>1, <1>2, <1>3 DEF VerdictInv

\* An end is counted first, and then told for what it was.
LEMMA ReportIsTrue ==
  ASSUME VerdictInv, WaveOutProc \/ WaveOutProcTells \/ MciNotify
  PROVE  VerdictInv'
  <1>1. CASE WaveOutProc
    <2>1. /\ UNCHANGED <<opened, aborting, queued, mciq, notices>>
          /\ returned # <<>> /\ returned' = Tail(returned)
          /\ reporting' \in {Head(returned), reporting}
      BY <1>1 DEF WaveOutProc
    <2>2. /\ returned' \in Seq(How) /\ Head(returned) \in How
          /\ 1 \in DOMAIN returned /\ Head(returned) = returned[1]
          /\ \A i \in DOMAIN returned' :
               i + 1 \in DOMAIN returned /\ returned'[i] = returned[i + 1]
      BY <2>1, Elements DEF VerdictInv
    <2>3. \A so : ToTell(so)' => ToTell(so)
      BY <2>1, <2>2 DEF ToTell
    <2>4. FlagTells'
      BY <2>1, <2>3 DEF FlagTells, VerdictInv
    <2>5. QED
      BY <2>1, <2>2, <2>4 DEF VerdictInv, VerdictTrue
  <1>2. CASE WaveOutProcTells
    <2> DEFINE said == IF aborting THEN "Aborted" ELSE "Success"
    <2>1. /\ UNCHANGED <<opened, aborting, queued, returned, mciq>>
          /\ reporting # "None" /\ reporting' = "None" /\ Tell(said, reporting)
      BY <1>2 DEF WaveOutProcTells, object
    <2>2. reporting \in How
      BY <2>1 DEF VerdictInv
    <2>3. (said = "Success" => reporting # "Cut") /\ (said = "Aborted" => reporting # "End")
      BY DEF VerdictInv, FlagTells, ToTell
    <2>4. said \in {"Success", "Aborted"}
      OBVIOUS
    <2> HIDE DEF said
    <2>5. notices' \in Seq(Notices) /\ VerdictTrue'
      BY <2>1, <2>2, <2>3, <2>4, TellIsTrue
    <2>6. FlagTells'
      BY <2>1 DEF VerdictInv, FlagTells, ToTell
    <2>7. QED
      BY <2>1, <2>5, <2>6 DEF VerdictInv
  <1>3. CASE MciNotify
    <2> DEFINE so == Head(mciq)
               said == IF so = "End" THEN "Success" ELSE "Aborted"
    <2>1. /\ UNCHANGED <<opened, aborting, queued, returned, reporting>> /\ mciq # <<>>
          /\ mciq' = Tail(mciq)
          /\ Tell(said, so) \/ notices' = notices
      BY <1>3 DEF MciNotify, Finish, driver
    <2>2. mciq' \in Seq(How) /\ so \in How
      BY <2>1, Elements DEF VerdictInv
    <2>3. /\ said \in {"Success", "Aborted"}
          /\ said = "Success" => so # "Cut"
          /\ said = "Aborted" => so # "End"
      OBVIOUS
    <2> HIDE DEF said, so
    <2>4. notices' \in Seq(Notices) /\ VerdictTrue'
      BY <2>1, <2>2, <2>3, TellIsTrue DEF VerdictInv, VerdictTrue
    <2>5. QED
      BY <2>1, <2>2, <2>4 DEF VerdictInv, FlagTells, ToTell
  <1>4. QED
    BY <1>1, <1>2, <1>3

LEMMA NextIsTrue ==
  ASSUME VerdictInv, [Next]_vars
  PROVE  VerdictInv'
  <1>1. ASSUME UNCHANGED <<aborting, driver, mciq, notices>>, opened' \in {"None", "Wav", "Mci"}
        PROVE  VerdictInv'
    BY <1>1 DEF VerdictInv, VerdictTrue, FlagTells, ToTell, driver
  <1>2. ASSUME NEW on \in BOOLEAN, RegisterHwndNotify(on) PROVE VerdictInv'
    BY <1>1, <1>2 DEF RegisterHwndNotify, VerdictInv
  <1>3. CASE PlayOnceWav
    BY <1>3, PlayIsTrue
  <1>4. CASE PlayOnceMci \/ MciEnds
    <2>1. UNCHANGED <<opened, notices>>
      BY <1>4 DEF PlayOnceMci, MciEnds, object
    <2>2. mciq' \in Seq(How) /\ UNCHANGED <<returned, reporting, aborting, queued>>
      BY <1>4, MciIsTrue
    <2>3. QED
      BY <2>1, <2>2 DEF VerdictInv, VerdictTrue, FlagTells, ToTell
  <1>5. CASE PlayOnceCounts
    BY <1>1, <1>5 DEF PlayOnceCounts, VerdictInv
  <1>6. CASE Stop
    <2>1. UNCHANGED <<opened, notices>>
      BY <1>6 DEF Stop
    <2>2. CASE StopWav
      <3>1. mciq' = mciq
        BY <2>2 DEF StopWav
      <3>2. QED
        BY <2>1, <2>2, <3>1, StopIsTrue DEF VerdictInv, VerdictTrue
    <2>3. CASE StopMci
      BY <2>1, <2>3, MciIsTrue DEF VerdictInv, VerdictTrue, FlagTells, ToTell
    <2>4. QED
      BY <1>6, <2>2, <2>3 DEF Stop
  <1>7. ASSUME NEW purpose, Close(purpose) PROVE VerdictInv'
    BY <1>7, CloseIsTrue
  <1>8. CASE CloseEnds
    BY <1>1, <1>8 DEF CloseEnds
  <1>9. ASSUME NEW f \in WavFiles, NEW device \in BOOLEAN, OpenSoundBin(f, device)
        PROVE  VerdictInv'
    <2>1. opened' \in {"None", "Wav", "Mci"}
      BY <1>9 DEF OpenSoundBin
    <2>2. UNCHANGED <<aborting, driver, mciq, notices>>
      BY <1>9 DEF OpenSoundBin
    <2>3. QED
      BY <1>1, <2>1, <2>2
  <1>10. ASSUME NEW found \in BOOLEAN, OpenSoundFile(found) PROVE VerdictInv'
    BY <1>1, <1>10 DEF OpenSoundFile
  <1>11. CASE WavEnds
    BY <1>11, EndIsTrue
  <1>12. CASE WaveOutProc \/ WaveOutProcTells \/ MciNotify
    BY <1>12, ReportIsTrue
  <1>13. CASE Receive
    <2>1. notices # <<>> /\ notices' = Tail(notices)
          /\ UNCHANGED <<opened, aborting, queued, returned, reporting, mciq>>
      BY <1>13 DEF Receive, object, driver
    <2>2. /\ notices' \in Seq(Notices)
          /\ \A i \in DOMAIN notices' : i + 1 \in DOMAIN notices /\ notices'[i] = notices[i + 1]
      BY <2>1, Elements DEF VerdictInv
    <2>3. QED
      BY <2>1, <2>2 DEF VerdictInv, VerdictTrue, FlagTells, ToTell
  <1>14. CASE UNCHANGED vars
    BY <1>1, <1>14 DEF vars, object, VerdictInv
  <1>15. QED
    BY <1>2, <1>3, <1>4, <1>5, <1>6, <1>7, <1>8, <1>9, <1>10, <1>11, <1>12, <1>13, <1>14
    DEF Next

\* The driver's thread counts the end of a play some time after it came, and reads
\* the flag some time after that; by then the client may have stopped the play, or
\* seen it `Stopped' and begun another.  However these come about, a play that was
\* cut short is called a success only if the client began another before it was
\* told, and one that ended by itself is called aborted only if the client stopped
\* or closed before that.
THEOREM VerdictCorrect == Spec => []VerdictTrue
  <1>1. Init => VerdictInv
    BY DEF Init, VerdictInv, VerdictTrue, FlagTells, ToTell
  <1>2. VerdictInv /\ [Next]_vars => VerdictInv'
    BY NextIsTrue
  <1>3. VerdictInv => VerdictTrue
    BY DEF VerdictInv
  <1>4. QED
    BY <1>1, <1>2, <1>3, PTL DEF Spec

-----------------------------------------------------------------------------
(***************************************************************************)
(* No assertion fails and no deleted object is used.  The driver's thread  *)
(* finds the device open whenever it calls back, because Close() leaves    *)
(* the interface only when nothing is to be returned any more.             *)
(***************************************************************************)
FaultInv ==
  /\ opened \in {"None", "Wav", "Mci"}
  /\ ~fault
  /\ opened = "Wav" => waveout
  /\ (queued \/ returned # <<>> \/ reporting # "None") => opened = "Wav"
  /\ Closing => ~queued
  /\ (gone \/ doing = "Delete") => ~hooked

\* A file is opened only if it can be played.
Plain == \A f \in WavFiles : Seen(f, LastRead(f), "data") => Readable(f)

LEMMA StopWavIsFaultless ==
  ASSUME FaultInv, opened = "Wav", StopWav
  PROVE  ~fault' /\ ~queued'
  BY DEF StopWav, FaultInv

LEMMA NextIsFaultless ==
  ASSUME Plain, "NoDevice" \notin Client, "DeleteHooked" \notin Client,
         FaultInv, [Next]_vars
  PROVE  FaultInv'
  <1>1. ASSUME NEW on \in BOOLEAN, RegisterHwndNotify(on) PROVE FaultInv'
    BY <1>1 DEF RegisterHwndNotify, May, Quiet, driver, FaultInv, Closing
  <1>2. CASE PlayOnceWav
    BY <1>2 DEF PlayOnceWav, May, Quiet, FaultInv, Closing
  <1>3. CASE PlayOnceMci
    BY <1>3 DEF PlayOnceMci, object, driver, FaultInv, Closing
  <1>4. CASE PlayOnceCounts
    BY <1>4 DEF PlayOnceCounts, driver, FaultInv, Closing
  <1>5. CASE Stop
    <2>1. /\ UNCHANGED <<opened, waveout, hooked, doing, gone>>
          /\ (opened = "Wav" /\ StopWav) \/ (opened = "Mci" /\ StopMci)
      BY <1>5 DEF Stop
    <2>2. CASE opened = "Wav" /\ StopWav
      BY <2>1, <2>2, StopWavIsFaultless DEF FaultInv, Closing
    <2>3. CASE opened = "Mci" /\ StopMci
      BY <2>1, <2>3 DEF StopMci, driver, FaultInv, Closing
    <2>4. QED
      BY <2>1, <2>2, <2>3
  <1>6. ASSUME NEW purpose \in {"Close", "OpenBin", "OpenFile", "Delete"}, Close(purpose)
        PROVE  FaultInv'
    <2>1. /\ doing' = purpose /\ UNCHANGED <<waveout, hooked, gone>>
          /\ ~gone /\ (purpose = "Delete" => ~hooked)
      BY <1>6 DEF Close, May, HeedsDelete
    <2>2. CASE opened = "Wav"
      <3>1. StopWav /\ opened' = opened
        BY <1>6, <2>2 DEF Close
      <3>2. QED
        BY <2>1, <2>2, <3>1, StopWavIsFaultless DEF FaultInv
    <2>3. CASE opened = "Mci"
      BY <1>6, <2>1, <2>3 DEF Close, CloseMci, driver, FaultInv
    <2>4. CASE opened = "None"
      BY <1>6, <2>1, <2>4 DEF Close, driver, FaultInv
    <2>5. QED
      BY <2>2, <2>3, <2>4 DEF FaultInv
  <1>7. CASE CloseEnds
    BY <1>7 DEF CloseEnds, Closed, driver, FaultInv, Closing
  <1>8. ASSUME NEW f \in WavFiles, NEW device \in BOOLEAN, OpenSoundBin(f, device)
        PROVE  FaultInv'
    <2>1. device /\ (Seen(f, LastRead(f), "data") => Readable(f))
      BY <1>8 DEF OpenSoundBin, Plain
    <2>2. opened' \in {"None", "Wav"} /\ (opened' = "Wav" => waveout')
      BY <1>8, <2>1 DEF OpenSoundBin
    <2>3. ~fault'
      BY <1>8, <2>1 DEF OpenSoundBin
    <2>4. /\ returned = <<>> /\ reporting = "None" /\ ~queued
          /\ doing = "OpenBin" /\ doing' = "Idle"
          /\ UNCHANGED <<hooked, gone, queued, returned, reporting>>
      BY <1>8 DEF OpenSoundBin, Closed, driver, FaultInv, Closing
    <2>5. QED
      BY <2>2, <2>3, <2>4 DEF FaultInv, Closing
  <1>9. ASSUME NEW found \in BOOLEAN, OpenSoundFile(found) PROVE FaultInv'
    BY <1>9 DEF OpenSoundFile, Closed, driver, FaultInv, Closing
  <1>10. CASE WavEnds
    BY <1>10 DEF WavEnds, object, FaultInv, Closing
  <1>11. CASE WaveOutProc \/ WaveOutProcTells
    <2>1. opened = "Wav" /\ waveout /\ UNCHANGED <<opened, waveout, hooked, doing, gone, queued>>
      BY <1>11 DEF WaveOutProc, WaveOutProcTells, object, FaultInv
    <2>2. ~fault'
      BY <1>11, <2>1 DEF WaveOutProc, WaveOutProcTells, FaultInv
    <2>3. QED
      BY <2>1, <2>2 DEF FaultInv, Closing
  <1>12. CASE MciEnds \/ MciNotify \/ Receive
    <2>1. UNCHANGED <<opened, waveout, hooked, doing, gone, queued, returned, reporting>>
      BY <1>12 DEF MciEnds, MciNotify, Receive, object, driver
    <2>2. ~fault'
      BY <1>12 DEF MciEnds, MciNotify, Receive, FaultInv
    <2>3. QED
      BY <2>1, <2>2 DEF FaultInv, Closing
  <1>13. CASE UNCHANGED vars
    BY <1>13 DEF vars, object, driver, FaultInv, Closing
  <1>14. QED
    BY <1>1, <1>2, <1>3, <1>4, <1>5, <1>6, <1>7, <1>8, <1>9, <1>10, <1>11, <1>12, <1>13
    DEF Next

\* However calls, callbacks and messages come about, the driver never calls back
\* for a device that is closed, and no message reaches an object that is deleted,
\* for clients whose device can be opened, whose files are not refused after the
\* data chunk, and who unregister their window before they delete the object.
THEOREM SoundFaultless ==
  ASSUME Plain, "NoDevice" \notin Client, "DeleteHooked" \notin Client
  PROVE  Spec => []NoFault
  <1>1. Init => FaultInv
    BY DEF Init, FaultInv, Closing
  <1>2. FaultInv /\ [Next]_vars => FaultInv'
    BY NextIsFaultless
  <1>3. FaultInv => NoFault
    BY DEF FaultInv, NoFault
  <1>4. QED
    BY <1>1, <1>2, <1>3, PTL DEF Spec
=============================================================================
