------------------------- MODULE WavePlayer_proofs -------------------------
(* Theorems about WavePlayer for every list of files, every number of          *)
(* failures and every order of interrupts, touches and connections.            *)
EXTENDS WavePlayer, SequenceTheorems, TLAPS

(* A pass of the main loop that stands between two statements is one of the    *)
(* PLAY branch, which may have found the track's end and stopped the output.   *)
MidPass == pc # "call" => \/ AudioState = "PLAY"
                          \/ AudioState = "NEXT" /\ dma = "off"

Speaker == RunsOnlyWhilePlaying /\ MidPass

USE DEF Call, Fault

(* What AUDIO_PLAYER_Start does to the state and the output it was given.      *)
LEMMA StartOutcome ==
    ASSUME NEW idx, NEW out, AUDIO_PLAYER_Start(idx, out)
    PROVE  \/ AudioState' = "PLAY"
           \/ AudioState' = "STOP" /\ dma' = out
           \/ AudioState' = AudioState /\ dma' = out
BY DEF AUDIO_PLAYER_Start, StartRejects, StartBreaks, StartPlays

LEMMA SpeakerStep == Speaker /\ [Next]_vars => Speaker'
<1> SUFFICES ASSUME Speaker, [Next]_vars PROVE Speaker'
  OBVIOUS
<1> USE DEF Speaker, RunsOnlyWhilePlaying, MidPass
<1>1. CASE PlayCall
  BY <1>1 DEF PlayCall
<1>2. CASE PlayHalf
  BY <1>2 DEF PlayHalf, NotFlagged, Read, ReadFails, Refilled, EffectFails,
              player, sound
<1>3. CASE PlayFull
  BY <1>3 DEF PlayFull, NotFlagged, Read, ReadFails, Refilled, EffectFails,
              player, sound
<1>4. CASE PlayTouch
  BY <1>4 DEF PlayTouch, AcquireTouchButtons, Pressed, Buttons, sound
<1>5. CASE StartCall
  <2>1. AUDIO_PLAYER_Start(FilePos, dma) /\ AudioState = "START" /\ pc' = "call"
    BY <1>5 DEF StartCall
  <2> QED BY <2>1, StartOutcome
<1>6. CASE StopCall \/ PauseCall \/ ResumeCall
  BY <1>6 DEF StopCall, PauseCall, ResumeCall
<1>7. CASE NextCall \/ PreviousCall
  <2>1. PICK target : AUDIO_PLAYER_Start(target, "off")
    BY <1>7 DEF NextCall, PreviousCall, Skip
  <2>2. AudioState \in {"NEXT", "PREVIOUS"} /\ pc' = "call"
    BY <1>7 DEF NextCall, PreviousCall, Skip
  <2> QED BY <2>1, <2>2, StartOutcome
<1>8. CASE WaitCall
  BY <1>8 DEF WaitCall, AcquireTouchButtons, Pressed, Buttons, sound
<1>9. CASE ShowWavFiles \/ Disconnected \/ USBH_UserProcess
  BY <1>9 DEF ShowWavFiles, Disconnected, USBH_UserProcess, player, sound
<1>10. CASE HalfTransfer_CallBack \/ TransferComplete_CallBack
  BY <1>10 DEF HalfTransfer_CallBack, TransferComplete_CallBack, HalfEnds, player
<1>11. CASE UNCHANGED vars
  BY <1>11 DEF vars, player, sound
<1> QED
  BY <1>1, <1>2, <1>3, <1>4, <1>5, <1>6, <1>7, <1>8, <1>9, <1>10, <1>11
  DEF Next, MainLoop, Process, Play

(* The speaker runs only while the player plays or is about to stop it         *)
(* (waveplayer.c:278-353, :355-431): whatever fails or is touched, a player    *)
(* that waits, starts or resumes has no output it does not know of.            *)
THEOREM NoUnknownOutput == Spec => []RunsOnlyWhilePlaying
<1>1. Init => Speaker
  BY DEF Init, Speaker, RunsOnlyWhilePlaying, MidPass
<1>2. Speaker /\ [Next]_vars => Speaker'
  BY SpeakerStep
<1>3. Speaker => RunsOnlyWhilePlaying
  BY DEF Speaker
<1> QED BY <1>1, <1>2, <1>3, PTL DEF Spec

-----------------------------------------------------------------------------
(* The type invariant in two parts: what the provers take for a value, and the *)
(* truth values.                                                               *)
Values ==
    /\ appli_state \in {"READY", "DISCONNECT", "IDLE"}
    /\ AudioState \in States
    /\ FilePos \in 0 .. Len(Files) - 1
    /\ format \in 0 .. Len(Files)
    /\ pos \in Nat /\ fptr \in Nat /\ bytesread \in {0, 1}
    /\ flag \in {"NONE", "HALF", "FULL"}
    /\ buff \in [{1, 2} -> Nat]
    /\ pc \in {"call", "half", "halfRead", "full", "fullRead", "touch"}
    /\ dma \in {"off", "run", "paused"} /\ at \in {1, 2}
    /\ faults \in 0 .. MaxFaults
    /\ heard \in Nat

Truths ==
    /\ touched \in BOOLEAN /\ readable \in BOOLEAN /\ struck \in BOOLEAN
    /\ excused \in BOOLEAN /\ glitch \in BOOLEAN

LEMMA FileFacts ==
    /\ Len(Files) \in Nat \ {0}
    /\ \A f \in 1 .. Len(Files) : Files[f].data \in Nat
<1> DEFINE File == [data : Nat, size : Nat, ok : BOOLEAN]
<1>1. Files \in Seq(File) /\ Len(Files) > 0
  BY FilesAssumption
<1> HIDE DEF File
<1>2. Len(Files) \in Nat \ {0}
  BY <1>1, LenProperties
<1>3. \A f \in 1 .. Len(Files) : Files[f] \in File
  BY <1>1, ElementOfSeq
<1>4. \A r \in File : r.data \in Nat
  BY DEF File
<1> QED BY <1>2, <1>3, <1>4

(* AUDIO_PLAYER_Start keeps the types of what it writes.                       *)
LEMMA StartValues ==
    ASSUME Values,
           NEW idx \in 0 .. Len(Files) - 1, NEW out \in {"off", "run", "paused"},
           AUDIO_PLAYER_Start(idx, out)
    PROVE  /\ AudioState' \in States /\ format' \in 0 .. Len(Files)
           /\ pos' \in Nat /\ fptr' \in Nat
           /\ buff' \in [{1, 2} -> Nat] /\ flag' \in {"NONE", "HALF", "FULL"}
           /\ dma' \in {"off", "run", "paused"} /\ at' \in {1, 2}
           /\ faults' \in 0 .. MaxFaults /\ heard' \in Nat
<1> USE FaultsAssumption DEF Values
<1>0. /\ idx + 1 \in 1 .. Len(Files) /\ Len(Files) \in Nat
      /\ Files[idx + 1].data \in Nat
  BY FileFacts
<1>1. CASE StartRejects(idx, out)
  BY <1>0, <1>1 DEF StartRejects, HeaderRead, States, history
<1>2. CASE StartBreaks(idx, out)
  BY <1>0, <1>2 DEF StartBreaks, history
<1>3. CASE StartPlays(idx, out)
  <2> DEFINE n == Least(2, Files[idx + 1].data)
  <2>1. n \in Nat
    BY <1>0 DEF Least
  <2>2. buff' \in [{1, 2} -> Nat]
    <3>1. buff' = [h \in {1, 2} |-> IF h <= n THEN h - 1 ELSE buff[h]]
      BY <1>3 DEF StartPlays
    <3>2. \A h \in {1, 2} : (IF h <= n THEN h - 1 ELSE buff[h]) \in Nat
      BY <2>1
    <3> QED BY <3>1, <3>2
  <2>3. /\ AudioState' \in States /\ format' \in 0 .. Len(Files)
        /\ pos' \in Nat /\ flag' \in {"NONE", "HALF", "FULL"}
        /\ faults' \in 0 .. MaxFaults
    BY <1>0, <1>3, <2>1 DEF StartPlays, States
  <2>4. fptr' \in Nat /\ heard' \in Nat
    BY <1>3, <2>1 DEF StartPlays, history
  <2>5. dma' \in {"off", "run", "paused"} /\ at' \in {1, 2}
    BY <1>3 DEF StartPlays
  <2> QED BY <2>2, <2>3, <2>4, <2>5
<1> QED BY <1>1, <1>2, <1>3 DEF AUDIO_PLAYER_Start

LEMMA StartTruths ==
    ASSUME Truths, NEW idx, NEW out, AUDIO_PLAYER_Start(idx, out)
    PROVE  /\ readable' \in BOOLEAN /\ struck' \in BOOLEAN
           /\ excused' \in BOOLEAN /\ glitch' \in BOOLEAN
<1> USE DEF Truths
<1>1. CASE StartRejects(idx, out)
  BY <1>1, Zenon DEF StartRejects, history
<1>2. CASE StartBreaks(idx, out)
  BY <1>2, Zenon DEF StartBreaks, history
<1>3. CASE StartPlays(idx, out)
  BY <1>3, Zenon DEF StartPlays, history
<1> QED BY <1>1, <1>2, <1>3, Zenon DEF AUDIO_PLAYER_Start

(* One half of the PLAY branch.                                                *)
Half(here, callback, half, reading_here, next) ==
    \/ NotFlagged(here, callback, next)
    \/ Read(here, callback, half, reading_here) \/ ReadFails(here, callback)
    \/ Refilled(reading_here, next) \/ EffectFails(reading_here)

LEMMA HalfValues ==
    ASSUME Values, NEW here, NEW callback, NEW half \in {1, 2},
           NEW reading_here \in {"halfRead", "fullRead"},
           NEW next \in {"full", "touch"},
           Half(here, callback, half, reading_here, next)
    PROVE  Values'
<1> USE FaultsAssumption DEF Values
<1>1. CASE NotFlagged(here, callback, next)
  BY <1>1 DEF NotFlagged, player, reading, sound, history
<1>2. CASE Read(here, callback, half, reading_here)
  <2>1. bytesread' \in {0, 1} /\ pos' \in Nat
    BY <1>2 DEF Read
  <2>2. buff' \in [{1, 2} -> Nat]
    BY <1>2 DEF Read
  <2> QED BY <1>2, <2>1, <2>2 DEF Read, player, sound, history
<1>3. CASE ReadFails(here, callback)
  BY <1>3 DEF ReadFails, player, history
<1>4. CASE Refilled(reading_here, next)
  BY <1>4 DEF Refilled, player, sound, history
<1>5. CASE EffectFails(reading_here)
  BY <1>5 DEF EffectFails, player, reading, sound
<1> QED BY <1>1, <1>2, <1>3, <1>4, <1>5 DEF Half

LEMMA StepValues == Values /\ [Next]_vars => Values'
<1> SUFFICES ASSUME Values, [Next]_vars PROVE Values'
  OBVIOUS
<1> USE FaultsAssumption DEF Values
<1>1. CASE PlayCall
  BY <1>1 DEF PlayCall, States, reading, history
<1>2. CASE PlayHalf
  BY <1>2, HalfValues DEF PlayHalf, Half
<1>3. CASE PlayFull
  BY <1>3, HalfValues DEF PlayFull, Half
<1>4. CASE PlayTouch \/ WaitCall
  <2>1. \A s \in States, b \in Buttons : Pressed(s, b) \in States
    BY DEF Pressed, Buttons, States
  <2>2. AudioState' \in States
    BY <1>4, <2>1 DEF PlayTouch, WaitCall, AcquireTouchButtons, States
  <2> QED BY <1>4, <2>2 DEF PlayTouch, WaitCall, reading, sound, history
<1>5. CASE StartCall
  <2>1. AUDIO_PLAYER_Start(FilePos, dma)
        /\ UNCHANGED <<appli_state, FilePos, bytesread, pc>>
    BY <1>5 DEF StartCall
  <2> QED BY <2>1, StartValues
<1>6. CASE StopCall \/ PauseCall \/ ResumeCall
  BY <1>6 DEF StopCall, PauseCall, ResumeCall, States, reading, history
<1>7. CASE NextCall \/ PreviousCall
  <2>1. PICK target \in 0 .. Len(Files) - 1 : Skip(AudioState, target)
    BY <1>7, FileFacts DEF NextCall, PreviousCall, Skip
  <2>2. AUDIO_PLAYER_Start(target, "off") /\ FilePos' = target
        /\ UNCHANGED <<appli_state, bytesread, pc>>
    BY <2>1 DEF Skip
  <2> QED BY <2>2, StartValues
<1>8. CASE ShowWavFiles \/ Disconnected \/ USBH_UserProcess
  BY <1>8 DEF ShowWavFiles, Disconnected, USBH_UserProcess, States,
              player, reading, sound, history
<1>9. CASE HalfTransfer_CallBack \/ TransferComplete_CallBack
  <2>1. PICK half \in {1, 2}, callback \in {"HALF", "FULL"} : HalfEnds(half, callback)
    BY <1>9 DEF HalfTransfer_CallBack, TransferComplete_CallBack
  <2>2. at' \in {1, 2} /\ flag' \in {"NONE", "HALF", "FULL"}
    BY <2>1 DEF HalfEnds
  <2>3. heard' \in Nat
    BY <2>1 DEF HalfEnds
  <2> QED BY <2>1, <2>2, <2>3 DEF HalfEnds, player, reading
<1>10. CASE UNCHANGED vars
  BY <1>10 DEF vars, player, reading, sound, history
<1> QED
  BY <1>1, <1>2, <1>3, <1>4, <1>5, <1>6, <1>7, <1>8, <1>9, <1>10
  DEF Next, MainLoop, Process, Play

LEMMA StepTruths == Truths /\ [Next]_vars => Truths'
<1> SUFFICES ASSUME Truths, [Next]_vars PROVE Truths'
  OBVIOUS
<1> USE DEF Truths
<1>1. CASE PlayCall
  BY <1>1, Zenon DEF PlayCall, reading, history
<1>2. CASE PlayHalf
  BY <1>2, Zenon DEF PlayHalf, NotFlagged, Read, ReadFails, Refilled, EffectFails,
                     player, reading, sound, history
<1>3. CASE PlayFull
  BY <1>3, Zenon DEF PlayFull, NotFlagged, Read, ReadFails, Refilled, EffectFails,
                     player, reading, sound, history
<1>4. CASE PlayTouch \/ WaitCall
  BY <1>4, Zenon DEF PlayTouch, WaitCall, AcquireTouchButtons, reading, sound, history
<1>5. CASE StartCall
  BY <1>5, StartTruths, Zenon DEF StartCall
<1>6. CASE StopCall \/ PauseCall \/ ResumeCall
  BY <1>6, Zenon DEF StopCall, PauseCall, ResumeCall, reading, history
<1>7. CASE NextCall \/ PreviousCall
  BY <1>7, StartTruths, Zenon DEF NextCall, PreviousCall, Skip
<1>8. CASE ShowWavFiles \/ Disconnected \/ USBH_UserProcess
  BY <1>8, Zenon DEF ShowWavFiles, Disconnected, USBH_UserProcess,
                     player, reading, sound, history
<1>9. CASE HalfTransfer_CallBack \/ TransferComplete_CallBack
  BY <1>9, Zenon DEF HalfTransfer_CallBack, TransferComplete_CallBack, HalfEnds,
                     player, reading
<1>10. CASE UNCHANGED vars
  BY <1>10, Zenon DEF vars, player, reading, sound, history
<1> QED
  BY <1>1, <1>2, <1>3, <1>4, <1>5, <1>6, <1>7, <1>8, <1>9, <1>10, Zenon
  DEF Next, MainLoop, Process, Play

(* The types of the player's state, for every list of files: the position and  *)
(* the halves stay numbers, the flags the ones the interrupts and the loop     *)
(* exchange, and the file one of the list (waveplayer.c:395-411).              *)
THEOREM TypeCorrect == Spec => []TypeOK
<1>1. Init => Values /\ Truths
  <2>1. Init => Values
    BY FileFacts, FaultsAssumption DEF Init, Values, States
  <2>2. Init => Truths
    BY Zenon DEF Init, Truths
  <2> QED BY <2>1, <2>2
<1>2. Values /\ Truths => TypeOK
  BY Zenon DEF Values, Truths, TypeOK
<1> QED BY <1>1, <1>2, StepValues, StepTruths, PTL DEF Spec

-----------------------------------------------------------------------------
(* The output, running or paused, plays the file of the list it was started    *)
(* for, which has data; and what was read of it was counted.  The first part   *)
(* is what keeps a restart that reads nothing from touching a paused output.   *)
Loaded == dma # "off" => format = FilePos + 1 /\ Files[FilePos + 1].data > 0
Tracked == dma # "off" => excused \/ pos = Counted
Followed == Loaded /\ Tracked

LEMMA StartFollows ==
    ASSUME Values, NEW idx \in 0 .. Len(Files) - 1, NEW out \in {"off", dma},
           AUDIO_PLAYER_Start(idx, out),
           FilePos' = idx, pc' = "call",
           out # "off" => Followed /\ idx = FilePos /\ pc = "call"
    PROVE  Followed'
<1> USE DEF Followed, Loaded, Tracked, Counted
<1>1. CASE StartRejects(idx, out)
  BY <1>1 DEF StartRejects, HeaderRead, history
<1>2. CASE StartBreaks(idx, out)
  BY <1>2 DEF StartBreaks, history
<1>3. CASE StartPlays(idx, out)
  <2> DEFINE n == Least(2, Files[idx + 1].data)
  <2>1. Files[idx + 1].data \in Nat
    BY FileFacts
  <2>2. n \in Nat /\ (n = 0 <=> Files[idx + 1].data = 0)
    BY <2>1 DEF Least
  <2>3. format' = idx + 1 /\ pos' = n
    BY <1>3 DEF StartPlays
  <2>4. CASE n = 0
    <3>1. out = "off"
      BY <2>2, <2>4
    <3> QED BY <1>3, <2>4, <3>1 DEF StartPlays
  <2>5. CASE n # 0
    <3>1. fptr' = n
      BY <1>3, <2>5 DEF StartPlays
    <3> QED BY <2>1, <2>2, <2>3, <2>5, <3>1
  <2> QED BY <2>4, <2>5
<1> QED BY <1>1, <1>2, <1>3 DEF AUDIO_PLAYER_Start

LEMMA HalfFollows ==
    ASSUME Values, Followed,
           NEW here \in {"half", "full"}, NEW callback, NEW half,
           NEW reading_here \in {"halfRead", "fullRead"},
           NEW next \in {"full", "touch"},
           Half(here, callback, half, reading_here, next)
    PROVE  Followed'
<1> USE DEF Values, Followed, Loaded, Tracked, Counted
<1>1. CASE NotFlagged(here, callback, next)
  BY <1>1 DEF NotFlagged, player, reading, sound, history
<1>2. CASE Read(here, callback, half, reading_here)
  <2>1. /\ pos' = pos + bytesread' /\ bytesread' \in {0, 1}
        /\ UNCHANGED <<fptr, dma, excused, format, FilePos>>
        /\ pc \in {"half", "full"} /\ pc' \in {"halfRead", "fullRead"}
    BY <1>2 DEF Read, player, sound, history
  <2> QED BY <2>1
<1>3. CASE ReadFails(here, callback)
  BY <1>3 DEF ReadFails
<1>4. CASE Refilled(reading_here, next)
  BY <1>4 DEF Refilled, player, sound, history
<1>5. CASE EffectFails(reading_here)
  BY <1>5 DEF EffectFails, player, sound
<1> QED BY <1>1, <1>2, <1>3, <1>4, <1>5 DEF Half

LEMMA StepFollows == Values /\ Followed /\ [Next]_vars => Followed'
<1> SUFFICES ASSUME Values, Followed, [Next]_vars PROVE Followed'
  OBVIOUS
<1>a. CASE PlayHalf \/ PlayFull
  BY <1>a, HalfFollows DEF PlayHalf, PlayFull, Half
<1>b. CASE StartCall
  <2>1. FilePos \in 0 .. Len(Files) - 1
    BY DEF Values
  <2> QED BY <1>b, <2>1, StartFollows DEF StartCall
<1>c. CASE NextCall \/ PreviousCall
  <2>0. FilePos \in 0 .. Len(Files) - 1
    BY DEF Values
  <2>1. PICK target \in 0 .. Len(Files) - 1 : Skip(AudioState, target)
    BY <1>c, <2>0, FileFacts DEF NextCall, PreviousCall, Skip
  <2> QED BY <2>1, StartFollows DEF Skip
<1> USE DEF Followed, Loaded, Tracked, Counted
<1>1. CASE PlayCall
  BY <1>1 DEF PlayCall, reading, history
<1>2. CASE PlayTouch \/ WaitCall
  BY <1>2 DEF PlayTouch, WaitCall, reading, sound, history
<1>3. CASE StopCall \/ PauseCall \/ ResumeCall
  BY <1>3 DEF StopCall, PauseCall, ResumeCall, reading, history
<1>4. CASE ShowWavFiles \/ Disconnected \/ USBH_UserProcess
  BY <1>4 DEF ShowWavFiles, Disconnected, USBH_UserProcess,
              player, reading, sound, history
<1>5. CASE HalfTransfer_CallBack \/ TransferComplete_CallBack
  BY <1>5 DEF HalfTransfer_CallBack, TransferComplete_CallBack, HalfEnds,
              player, reading
<1>6. CASE UNCHANGED vars
  BY <1>6 DEF vars, player, reading, sound, history
<1> QED
  BY <1>1, <1>2, <1>3, <1>4, <1>5, <1>6, <1>a, <1>b, <1>c
  DEF Next, MainLoop, Process, Play

(* While the output runs, what was read of the track was counted in fptr, but  *)
(* for the half being refilled (waveplayer.c:284-338), unless a half was lost: *)
(* pauses, restarts and skips of any list of files never let them part.        *)
THEOREM PositionFollows == Spec => []PositionIsTrue
<1>1. Init => Values /\ Followed
  <2>1. Init => Values
    BY FileFacts, FaultsAssumption DEF Init, Values, States
  <2> QED BY <2>1 DEF Init, Followed, Loaded, Tracked
<1>2. Followed => PositionIsTrue
  BY DEF Followed, Tracked, PositionIsTrue
<1> QED BY <1>1, <1>2, StepValues, StepFollows, PTL DEF Spec

-----------------------------------------------------------------------------
(* What the buffer holds while a track is heard: the half the DMA plays is the *)
(* one that is due, the other one the next, unless its refill is owed; and the *)
(* flag names the half that is to be refilled.                                 *)
Refilling == pc \in {"halfRead", "fullRead"}
Owed      == flag # "NONE" /\ ~Refilling

Fed(data) ==
    /\ heard <= data
    /\ pos = Least(IF Owed THEN heard + 1 ELSE heard + 2, data)
    /\ heard < data => buff[at] = heard
    /\ ~Owed /\ heard + 1 < data => buff[3 - at] = heard + 1
    /\ flag # "NONE" /\ heard < data => flag = IF at = 2 THEN "HALF" ELSE "FULL"

(* A player that is about to start or to stop anew is of no account.           *)
Sounding == dma # "off" /\ ~excused /\ AudioState \notin {"START", "STOP"}

InStep == HeardInOrder /\ (Sounding => Fed(Files[format].data))

LEMMA InStepKept ==
    ASSUME InStep, UNCHANGED <<format, heard, pos, buff, at, flag>>,
           glitch' => glitch, excused => excused',
           Sounding' => Sounding /\ (Refilling' <=> Refilling)
    PROVE  InStep'
BY DEF InStep, Fed, Owed, HeardInOrder

(* AUDIO_PLAYER_Start leaves a track that begins, or one nobody hears.         *)
LEMMA StartInStep ==
    ASSUME Values, Followed, InStep,
           NEW idx \in 0 .. Len(Files) - 1, NEW out \in {"off", dma},
           AUDIO_PLAYER_Start(idx, out), pc' = "call",
           out # "off" => idx = FilePos /\ AudioState = "START"
    PROVE  InStep'
<1>1. CASE StartRejects(idx, out)
  BY <1>1 DEF StartRejects, InStep, Sounding, HeardInOrder, history
<1>2. CASE StartBreaks(idx, out)
  <2>1. ~Sounding'
    BY <1>2 DEF StartBreaks, Sounding
  <2> QED BY <1>2, <2>1 DEF StartBreaks, InStep, HeardInOrder, history
<1>3. CASE StartPlays(idx, out)
  <2>1. PICK data \in Nat : data = Files[idx + 1].data
    BY FileFacts
  <2>2. PICK n \in Nat : n = Least(2, data)
    BY DEF Least
  <2>3. /\ format' = idx + 1 /\ flag' = "NONE" /\ pos' = n
        /\ buff' = [h \in {1, 2} |-> IF h <= n THEN h - 1 ELSE buff[h]]
    BY <1>3, <2>1, <2>2 DEF StartPlays
  <2>4. CASE n = 0
    <3>1. dma' = out /\ UNCHANGED history
      BY <1>3, <2>1, <2>2, <2>4 DEF StartPlays
    <3>2. out = "off"
      BY <2>1, <2>2, <2>4 DEF Followed, Loaded, Least
    <3> QED BY <3>1, <3>2 DEF InStep, Sounding, HeardInOrder, history
  <2>5. CASE n # 0
    <3>1. heard' = 0 /\ glitch' = FALSE /\ excused' = (at' # 1)
      BY <1>3, <2>1, <2>2, <2>5 DEF StartPlays
    <3>2. HeardInOrder'
      BY <3>1 DEF HeardInOrder
    <3>3. ASSUME Sounding' PROVE Fed(data)'
      <4>1. at' = 1
        BY <3>1, <3>3 DEF Sounding
      <4>2. ~Owed'
        BY <2>3 DEF Owed
      <4>3. buff'[1] = 0 /\ (1 < data => buff'[2] = 1)
        BY <2>2, <2>3, <2>5 DEF Least
      <4>4. n = Least(0 + 2, data)
        BY <2>2
      <4> QED BY <2>3, <3>1, <4>1, <4>2, <4>3, <4>4 DEF Fed
    <3>4. Files[format'].data = data
      BY <2>1, <2>3
    <3> QED BY <3>2, <3>3, <3>4 DEF InStep
  <2> QED BY <2>4, <2>5
<1> QED BY <1>1, <1>2, <1>3 DEF AUDIO_PLAYER_Start

(* A refill reads the half that is owed.                                       *)
LEMMA ReadInStep ==
    ASSUME Values, Followed, InStep,
           NEW here \in {"half", "full"}, NEW callback \in {"HALF", "FULL"},
           NEW half \in {1, 2}, half = 1 <=> callback = "HALF",
           NEW reading_here \in {"halfRead", "fullRead"},
           Read(here, callback, half, reading_here)
    PROVE  InStep'
<1>1. /\ pc = here /\ flag = callback /\ pc' = reading_here
      /\ UNCHANGED <<AudioState, format, flag, dma, at, heard, excused, glitch>>
  BY DEF Read, player, sound, history
<1>2. HeardInOrder'
  BY <1>1 DEF InStep, HeardInOrder
<1>3. Owed /\ ~Owed'
  BY <1>1 DEF Owed, Refilling
<1>4. ASSUME Sounding' PROVE Fed(Files[format].data)'
  <2>1. Sounding
    BY <1>1, <1>4 DEF Sounding
  <2>2. PICK data \in Nat : data = Files[format].data
    <3>1. format = FilePos + 1 /\ FilePos \in 0 .. Len(Files) - 1
      BY <2>1 DEF Sounding, Followed, Loaded, Values
    <3> QED BY <3>1, FileFacts
  <2>3. Fed(data)
    BY <2>1, <2>2 DEF InStep
  <2>4. heard \in Nat /\ at \in {1, 2} /\ pos \in Nat /\ buff \in [{1, 2} -> Nat]
    BY DEF Values
  <2>5. pos = Least(heard + 1, data) /\ heard <= data
    BY <1>3, <2>3 DEF Fed
  <2>6. heard < data => half = 3 - at
    BY <1>1, <2>3, <2>4 DEF Fed
  <2>7. CASE pos < data
    <3>1. pos = heard + 1 /\ pos' = heard + 2 /\ buff' = [buff EXCEPT ![half] = pos]
      BY <2>2, <2>4, <2>5, <2>7 DEF Read, Least
    <3>2. buff'[3 - at] = heard + 1 /\ buff'[at] = buff[at]
      BY <2>4, <2>5, <2>6, <2>7, <3>1
    <3>3. pos' = Least(heard + 2, data)
      BY <2>4, <2>7, <3>1 DEF Least
    <3>4. (heard < data => buff[at] = heard)
          /\ (flag # "NONE" /\ heard < data => flag = IF at = 2 THEN "HALF" ELSE "FULL")
      BY <2>3 DEF Fed
    <3> QED BY <1>1, <1>3, <2>2, <2>5, <3>2, <3>3, <3>4 DEF Fed
  <2>8. CASE ~(pos < data)
    <3>1. pos' = pos /\ buff' = buff
      BY <2>2, <2>4, <2>8 DEF Read
    <3>2. ~(heard + 1 < data) /\ pos = Least(heard + 2, data)
      BY <2>4, <2>5, <2>8 DEF Least
    <3>4. (heard < data => buff[at] = heard)
          /\ (flag # "NONE" /\ heard < data => flag = IF at = 2 THEN "HALF" ELSE "FULL")
      BY <2>3 DEF Fed
    <3> QED BY <1>1, <1>3, <2>2, <2>5, <3>1, <3>2, <3>4 DEF Fed
  <2> QED BY <2>7, <2>8
<1> QED BY <1>1, <1>2, <1>4 DEF InStep

(* The flag is cleared when its half is filled again.                          *)
LEMMA RefilledInStep ==
    ASSUME InStep, NEW reading_here \in {"halfRead", "fullRead"},
           NEW next \in {"full", "touch"}, Refilled(reading_here, next)
    PROVE  InStep'
<1>1. /\ UNCHANGED <<AudioState, format, dma, at, pos, buff, heard, excused, glitch>>
      /\ flag' = "NONE" /\ pc = reading_here
  BY DEF Refilled, player, sound, history
<1>2. ~Owed /\ ~Owed'
  BY <1>1 DEF Owed, Refilling
<1>3. Sounding' => Sounding
  BY <1>1 DEF Sounding
<1> QED BY <1>1, <1>2, <1>3 DEF InStep, Fed, HeardInOrder

(* The end of a half, which is the one that was due.                           *)
LEMMA EndInStep ==
    ASSUME Values, Followed, InStep,
           NEW half \in {1, 2}, NEW callback \in {"HALF", "FULL"},
           half = 1 <=> callback = "HALF", HalfEnds(half, callback)
    PROVE  InStep'
<1>1. /\ at = half /\ at' = 3 - half
      /\ UNCHANGED <<AudioState, FilePos, format, pos, buff, pc, dma>>
  BY DEF HalfEnds, player, reading
<1>2. CASE excused'
  BY <1>2 DEF InStep, HeardInOrder, Sounding
<1>3. CASE ~excused'
  <2>1. /\ ~excused /\ AudioState = "PLAY" /\ flag = "NONE" /\ ~Refilling /\ dma = "run"
        /\ flag' = callback
    BY <1>3 DEF HalfEnds, Refilling
  <2>2. Sounding /\ ~Owed
    BY <2>1 DEF Sounding, Owed
  <2>3. PICK data \in Nat : data = Files[format].data
    <3>1. format = FilePos + 1 /\ FilePos \in 0 .. Len(Files) - 1
      BY <2>2 DEF Sounding, Followed, Loaded, Values
    <3> QED BY <3>1, FileFacts
  <2>4. Fed(data) /\ ~glitch
    BY <2>1, <2>2, <2>3 DEF InStep, HeardInOrder
  <2>5. Owed'
    BY <1>1, <2>1 DEF Owed, Refilling
  <2>6. heard \in Nat /\ heard <= data /\ pos = Least(heard + 2, data)
    BY <2>2, <2>4 DEF Fed, Values
  <2>7. CASE heard >= data
    <3>1. UNCHANGED <<heard, glitch>>
      BY <2>3, <2>7 DEF HalfEnds
    <3>2. Least(heard + 2, data) = Least(heard + 1, data)
      BY <2>6, <2>7 DEF Least
    <3>3. Fed(data)'
      BY <1>1, <2>5, <2>6, <2>7, <3>1, <3>2 DEF Fed
    <3> QED BY <1>1, <2>3, <2>4, <3>1, <3>3 DEF InStep, HeardInOrder
  <2>8. CASE heard < data
    <3>1. buff[half] = heard
      BY <1>1, <2>4, <2>8 DEF Fed
    <3>2. heard' = heard + 1 /\ glitch' = glitch
      BY <2>3, <2>6, <2>8, <3>1 DEF HalfEnds
    <3>3. Least(heard + 2, data) = Least(heard' + 1, data) /\ heard' <= data
      BY <2>6, <2>8, <3>2
    <3>4. heard' < data => buff[at'] = heard'
      BY <1>1, <2>2, <2>4, <3>2 DEF Fed
    <3>5. flag' = IF at' = 2 THEN "HALF" ELSE "FULL"
      BY <1>1, <2>1
    <3>6. Fed(data)'
      BY <1>1, <2>5, <2>6, <3>3, <3>4, <3>5 DEF Fed
    <3> QED BY <1>1, <2>3, <2>4, <3>2, <3>6 DEF InStep, HeardInOrder
  <2> QED BY <2>6, <2>7, <2>8
<1> QED BY <1>2, <1>3

LEMMA StepInStep == Speaker /\ Values /\ Followed /\ InStep /\ [Next]_vars => InStep'
<1> SUFFICES ASSUME Speaker, Values, Followed, InStep, [Next]_vars PROVE InStep'
  OBVIOUS
<1>1. CASE PlayHalf \/ PlayFull
  <2>1. PICK here \in {"half", "full"}, callback \in {"HALF", "FULL"}, half \in {1, 2},
             reading_here \in {"halfRead", "fullRead"}, next \in {"full", "touch"} :
          (half = 1 <=> callback = "HALF") /\ Half(here, callback, half, reading_here, next)
    BY <1>1 DEF PlayHalf, PlayFull, Half
  <2>2. CASE NotFlagged(here, callback, next)
    <3>1. UNCHANGED <<AudioState, format, heard, pos, buff, at, flag, dma, excused, glitch>>
      BY <2>2 DEF NotFlagged, player, reading, sound, history
    <3>2. (Refilling' <=> Refilling) /\ (Sounding' => Sounding)
      BY <2>2, <3>1 DEF NotFlagged, Refilling, Sounding
    <3> QED BY <3>1, <3>2, InStepKept
  <2>3. CASE Read(here, callback, half, reading_here)
    BY <2>1, <2>3, ReadInStep
  <2>4. CASE ReadFails(here, callback)
    BY <2>4 DEF ReadFails, InStep, Sounding, HeardInOrder, history
  <2>5. CASE Refilled(reading_here, next)
    BY <2>5, RefilledInStep
  <2>6. CASE EffectFails(reading_here)
    BY <2>6 DEF EffectFails, InStep, Sounding, HeardInOrder
  <2> QED BY <2>1, <2>2, <2>3, <2>4, <2>5, <2>6 DEF Half
<1>2. CASE StartCall
  <2>1. FilePos \in 0 .. Len(Files) - 1
    BY DEF Values
  <2>2. AUDIO_PLAYER_Start(FilePos, dma) /\ pc' = "call" /\ AudioState = "START"
    BY <1>2 DEF StartCall, Call
  <2> QED BY <2>1, <2>2, StartInStep
<1>3. CASE NextCall \/ PreviousCall
  <2>0. FilePos \in 0 .. Len(Files) - 1
    BY DEF Values
  <2>1. PICK target \in 0 .. Len(Files) - 1 : Skip(AudioState, target)
    BY <1>3, <2>0, FileFacts DEF NextCall, PreviousCall, Skip
  <2>2. AUDIO_PLAYER_Start(target, "off") /\ pc' = "call"
    BY <2>1 DEF Skip, Call
  <2> QED BY <2>2, StartInStep
<1>4. CASE HalfTransfer_CallBack \/ TransferComplete_CallBack
  BY <1>4, EndInStep DEF HalfTransfer_CallBack, TransferComplete_CallBack
<1>5. CASE PlayCall
  <2>1. UNCHANGED <<format, heard, pos, buff, at, flag, excused, glitch>>
    BY <1>5 DEF PlayCall, reading, history
  <2>2. Sounding' => Sounding /\ (Refilling' <=> Refilling)
    BY <1>5, <2>1 DEF PlayCall, Call, Sounding, Refilling
  <2> QED BY <2>1, <2>2, InStepKept
<1>6. CASE PlayTouch \/ WaitCall \/ StopCall \/ PauseCall \/ ResumeCall
  <2>1. UNCHANGED <<format, heard, pos, buff, at, flag, excused, glitch>>
    BY <1>6 DEF PlayTouch, WaitCall, StopCall, PauseCall, ResumeCall, reading, sound, history
  <2>2. /\ ~Refilling /\ ~Refilling'
        /\ dma' # "off" => dma # "off" /\ AudioState \notin {"START", "STOP"}
    BY <1>6 DEF PlayTouch, WaitCall, StopCall, PauseCall, ResumeCall, Call, Refilling, sound,
                Speaker, MidPass
  <2>3. Sounding' => Sounding
    BY <2>1, <2>2 DEF Sounding
  <2> QED BY <2>1, <2>2, <2>3, InStepKept
<1>7. CASE ShowWavFiles \/ Disconnected \/ USBH_UserProcess \/ UNCHANGED vars
  <2>1. /\ UNCHANGED <<format, heard, pos, buff, at, flag, excused, glitch, pc>>
        /\ dma' # "off" => dma # "off" /\ (AudioState' = AudioState \/ AudioState = "IDLE")
    BY <1>7 DEF ShowWavFiles, Disconnected, USBH_UserProcess, vars, player, reading, sound, history
  <2>2. (Sounding' => Sounding) /\ (Refilling' <=> Refilling)
    BY <2>1 DEF Sounding, Refilling
  <2> QED BY <2>1, <2>2, InStepKept
<1> QED
  BY <1>1, <1>2, <1>3, <1>4, <1>5, <1>6, <1>7
  DEF Next, MainLoop, Process, Play

(* As long as no interrupt and no refill was lost, the halves of a track of    *)
(* any length are heard in order and none twice, through pauses, resumes,      *)
(* skips and failures (waveplayer.c:240-255, :284-338).                        *)
THEOREM TrackHeardInOrder == Spec => []HeardInOrder
<1>1. Init => Speaker /\ Values /\ Followed /\ InStep
  <2>1. Init => Values
    BY FileFacts, FaultsAssumption DEF Init, Values, States
  <2>2. Init => Followed
    BY DEF Init, Followed, Loaded, Tracked
  <2>3. Init => InStep
    BY DEF Init, InStep, HeardInOrder, Sounding
  <2>4. Init => Speaker
    BY DEF Init, Speaker, RunsOnlyWhilePlaying, MidPass
  <2> QED BY <2>1, <2>2, <2>3, <2>4
<1>2. InStep => HeardInOrder
  BY DEF InStep
<1> QED BY <1>1, <1>2, SpeakerStep, StepValues, StepFollows, StepInStep, PTL DEF Spec
=============================================================================
