----------------------------- MODULE WavePlayer -----------------------------
(* The wave player of the audio programs (Audio_BAM): the main loop runs one   *)
(* AUDIO_PLAYER_Process call after another, and the circular DMA that feeds    *)
(* the speaker interrupts it at the end of each half of the sound buffer.      *)
(* Sound is counted in halves of the buffer: half number k of a track is the   *)
(* k-th piece of its data.  The display, the volume and the settings of the    *)
(* bass effect are left out; that a call of the effect may fail is kept.       *)
EXTENDS Naturals, Sequences

CONSTANTS
    Files,       \* the wave files found: records [data, size : Nat, ok : BOOLEAN]
    MaxFaults    \* bound: how many file or effect calls may fail

ASSUME FilesAssumption ==
    /\ Files \in Seq([data : Nat, size : Nat, ok : BOOLEAN])
    /\ Len(Files) > 0
ASSUME FaultsAssumption == MaxFaults \in Nat

VARIABLES
    appli_state,  \* the USB key: "READY", "DISCONNECT", or "IDLE" when away or new
    AudioState,   \* state of the player
    touched,      \* TS_State.touchDetected of the last look at the screen
    FilePos,      \* index of the file, from 0
    format,       \* WaveFormat: index + 1 of the file whose header it holds, 0 none
    readable,     \* WavFile is open and no read of it has failed
    pos,          \* halves of the open file that were read
    fptr,         \* BufferCtl.fptr
    flag,         \* BufferCtl.state: "NONE", "HALF" or "FULL"
    buff,         \* BufferCtl.buff: the number of the half of the track in each half
    bytesread,    \* the local of AUDIO_PLAYER_Process
    pc,           \* where the PLAY branch of AUDIO_PLAYER_Process is
    dma,          \* the sound output: "off", "run" or "paused"
    at,           \* the half of the buffer the DMA plays
    struck,       \* a half has ended since the pass of the main loop began
    faults,       \* failures so far
    heard,        \* history: halves of the track heard in order
    excused,      \* history: an interrupt or a refill of this track was lost
    glitch        \* history: a wrong half was heard before the track's end

player   == <<AudioState, touched, FilePos, format>>
reading  == <<readable, pos, fptr, buff>>
sound    == <<dma, at, struck>>
history  == <<heard, excused, glitch>>
vars == <<appli_state, player, reading, flag, bytesread, pc, sound, faults, history>>

States  == {"IDLE", "WAIT", "INIT", "START", "STOP", "PLAY", "NEXT",
            "PREVIOUS", "PAUSE", "RESUME"}
Buttons == {"PAUSE", "NEXT", "PREVIOUS", "STOP", "SETTING"}

Least(a, b) == IF a < b THEN a ELSE b
Supported(f) == f > 0 /\ Files[f].ok

TypeOK ==
    /\ appli_state \in {"READY", "DISCONNECT", "IDLE"}
    /\ AudioState \in States /\ touched \in BOOLEAN
    /\ FilePos \in 0 .. Len(Files) - 1
    /\ format \in 0 .. Len(Files)
    /\ readable \in BOOLEAN
    /\ pos \in Nat /\ fptr \in Nat /\ bytesread \in {0, 1}
    /\ flag \in {"NONE", "HALF", "FULL"}
    /\ buff \in [{1, 2} -> Nat]
    /\ pc \in {"call", "half", "halfRead", "full", "fullRead", "touch"}
    /\ dma \in {"off", "run", "paused"} /\ at \in {1, 2} /\ struck \in BOOLEAN
    /\ faults \in 0 .. MaxFaults
    /\ heard \in Nat /\ excused \in BOOLEAN /\ glitch \in BOOLEAN

Init ==
    /\ appli_state = "IDLE"
    /\ AudioState = "IDLE" /\ touched = FALSE
    /\ FilePos = 0 /\ format = 0
    /\ readable = FALSE /\ pos = 0 /\ fptr = 0 /\ buff = [h \in {1, 2} |-> 0]
    /\ flag = "NONE" /\ bytesread = 0 /\ pc = "call"
    /\ dma = "off" /\ at = 1 /\ struck = FALSE
    /\ faults = 0
    /\ heard = 0 /\ excused = FALSE /\ glitch = FALSE

(* A call fails, as often as the bound allows.                                 *)
Fault == faults < MaxFaults /\ faults' = faults + 1

-----------------------------------------------------------------------------
(* The DMA reaches the end of the half it plays and goes on with the other     *)
(* one; the interrupt sets the flag only while the player is in PLAY.          *)
(* A half lasts longer than a pass of the main loop that refills nothing; a    *)
(* refill may take any time.                                                   *)
(* The history compares the half heard with the one that was due.              *)
HalfEnds(half, callback) ==
    /\ dma = "run" /\ at = half
    /\ ~struck \/ pc \in {"halfRead", "fullRead"}
    /\ struck' = TRUE
    /\ at' = 3 - half
    /\ flag' = IF AudioState = "PLAY" THEN callback ELSE flag
    /\ excused' = \/ excused
                  \/ AudioState # "PLAY"
                  \/ flag # "NONE"
                  \/ pc \in {"halfRead", "fullRead"}
    /\ IF heard >= Files[format].data
       THEN UNCHANGED <<heard, glitch>>
       ELSE IF buff[half] = heard
            THEN heard' = heard + 1 /\ UNCHANGED glitch
            ELSE glitch' = TRUE /\ UNCHANGED heard
    /\ UNCHANGED <<appli_state, player, reading, bytesread, pc, dma, faults>>

HalfTransfer_CallBack     == HalfEnds(1, "HALF")
TransferComplete_CallBack == HalfEnds(2, "FULL")

-----------------------------------------------------------------------------
(* AUDIO_PLAYER_Start(idx), from a state of the output given by out: "off" for *)
(* NEXT and PREVIOUS, which stop it first.  A header that cannot be read       *)
(* leaves the format of an earlier file in WaveFormat.                         *)
HeaderRead(idx) ==
    \/ format' = idx + 1 /\ UNCHANGED faults
    \/ Fault /\ UNCHANGED format

StartRejects(idx, out) ==
    /\ HeaderRead(idx)
    /\ ~Supported(format')
    /\ AudioState' = "STOP"
    /\ readable' = FALSE
    /\ dma' = out
    /\ UNCHANGED <<pos, fptr, buff, flag, at, struck, history>>

(* The effect cannot be set up, or the file cannot be read: the state stays.   *)
StartBreaks(idx, out) ==
    /\ Fault
    /\ format' \in {format, idx + 1}
    /\ Supported(format')
    /\ flag' \in {flag, "NONE"}
    /\ readable' = FALSE
    /\ dma' = out
    /\ UNCHANGED <<AudioState, pos, fptr, buff, at, struck, history>>

(* Restarting an output that is only paused is left to the HAL: it may stay    *)
(* paused or go on in the half where it was.                                   *)
StartPlays(idx, out) ==
    LET n == Least(2, Files[idx + 1].data) IN
    /\ format' = idx + 1 /\ Supported(format')
    /\ flag' = "NONE"
    /\ buff' = [h \in {1, 2} |-> IF h <= n THEN h - 1 ELSE buff[h]]
    /\ readable' = TRUE /\ pos' = n
    /\ AudioState' = "PLAY"
    /\ IF n = 0
       THEN dma' = out /\ UNCHANGED <<fptr, at, history>>
       ELSE /\ fptr' = n
            /\ \/ dma' = "run" /\ at' = 1
               \/ out = "paused" /\ dma' \in {"run", "paused"} /\ at' = at
            /\ heard' = 0 /\ glitch' = FALSE
            /\ excused' = (at' # 1)
    /\ UNCHANGED <<struck, faults>>

AUDIO_PLAYER_Start(idx, out) ==
    StartRejects(idx, out) \/ StartBreaks(idx, out) \/ StartPlays(idx, out)

-----------------------------------------------------------------------------
(* AUDIO_AcquireTouchButtons with the player in state s: only a touch that     *)
(* begins counts.                                                              *)
Pressed(s, b) ==
    CASE b = "PAUSE"               -> IF s = "PLAY" THEN "PAUSE" ELSE "RESUME"
      [] b \in {"NEXT", "PREVIOUS"} -> b
      [] b = "STOP"                -> IF s = "PLAY" THEN "STOP" ELSE "START"
      [] b = "SETTING"             -> s

AcquireTouchButtons(s) ==
    /\ touched' \in BOOLEAN
    /\ IF ~touched /\ touched'
       THEN \E b \in Buttons : AudioState' = Pressed(s, b)
       ELSE AudioState' = s

-----------------------------------------------------------------------------
(* AUDIO_PLAYER_Process, called again and again while the key is there.        *)
Call(s) == pc = "call" /\ appli_state = "READY" /\ AudioState = s

(* Mutant: does not look for the end of the track.                             *)
PlayCallEndless ==
    /\ Call("PLAY")
    /\ pc' = "half"
    /\ struck' = FALSE
    /\ UNCHANGED <<appli_state, player, reading, flag, bytesread, dma, at, faults,
                   history>>

(* case PLAY: the end of the track, the two halves in turn, the screen.        *)
PlayCall ==
    /\ Call("PLAY")
    /\ pc' = "half"
    /\ struck' = FALSE
    /\ IF format > 0 /\ fptr < Files[format].size
       THEN UNCHANGED <<AudioState, dma>>
       ELSE dma' = "off" /\ AudioState' = "NEXT"
    /\ UNCHANGED <<appli_state, touched, FilePos, format, reading, flag,
                   bytesread, at, faults, history>>

NotFlagged(here, callback, next) ==
    /\ pc = here /\ flag # callback
    /\ pc' = next
    /\ UNCHANGED <<appli_state, player, reading, flag, bytesread, sound, faults, history>>

(* Mutant: asks for the buffer, not a half.                                    *)
ReadWholeBuffer(here, callback, half, next) ==
    /\ pc = here /\ flag = callback /\ readable
    /\ bytesread' = Least(2, Files[format].data - pos)
    /\ pos' = pos + bytesread'
    /\ buff' = IF bytesread' > 0 THEN [buff EXCEPT ![half] = pos] ELSE buff
    /\ pc' = next
    /\ UNCHANGED <<appli_state, player, readable, fptr, flag, sound, faults, history>>

(* Mutant: fills the half being played.                                        *)
ReadOtherHalf(here, callback, half, next) ==
    /\ pc = here /\ flag = callback /\ readable
    /\ bytesread' = IF pos < Files[format].data THEN 1 ELSE 0
    /\ pos' = pos + bytesread'
    /\ buff' = IF bytesread' = 1 THEN [buff EXCEPT ![3 - half] = pos] ELSE buff
    /\ pc' = next
    /\ UNCHANGED <<appli_state, player, readable, fptr, flag, sound, faults, history>>

(* f_read fills the half the interrupt announced ...                           *)
Read(here, callback, half, next) ==
    /\ pc = here /\ flag = callback
    /\ readable
    /\ bytesread' = IF pos < Files[format].data THEN 1 ELSE 0
    /\ pos' = pos + bytesread'
    /\ buff' = IF bytesread' = 1 THEN [buff EXCEPT ![half] = pos] ELSE buff
    /\ pc' = next
    /\ UNCHANGED <<appli_state, player, readable, fptr, flag, sound, faults, history>>

(* ... or fails, and then fails for good: the output is stopped, the call      *)
(* returns, the state remains PLAY and the flag set.                           *)
ReadFails(here, callback) ==
    /\ pc = here /\ flag = callback
    /\ \/ ~readable /\ UNCHANGED faults
       \/ Fault
    /\ readable' = FALSE
    /\ dma' = "off"
    /\ pc' = "call"
    /\ UNCHANGED <<appli_state, player, pos, fptr, buff, flag, bytesread, at, struck, history>>

(* Mutant: forgets fptr.                                                       *)
RefilledUncounted(here, next) ==
    /\ pc = here
    /\ flag' = "NONE"
    /\ pc' = next
    /\ UNCHANGED <<appli_state, player, reading, bytesread, sound, faults, history>>

(* After the effect ran the flag is cleared, whatever it now is.               *)
Refilled(here, next) ==
    /\ pc = here
    /\ flag' = "NONE"
    /\ fptr' = fptr + bytesread
    /\ pc' = next
    /\ UNCHANGED <<appli_state, player, readable, pos, buff, bytesread, sound, faults,
                   history>>

(* The effect fails: the call returns with the flag set and the data read.     *)
EffectFails(here) ==
    /\ pc = here
    /\ Fault
    /\ pc' = "call"
    /\ excused' = TRUE
    /\ UNCHANGED <<appli_state, player, reading, flag, bytesread, sound, heard, glitch>>

PlayHalf ==
    \/ NotFlagged("half", "HALF", "full")
    \/ Read("half", "HALF", 1, "halfRead") \/ ReadFails("half", "HALF")
    \/ Refilled("halfRead", "full") \/ EffectFails("halfRead")
PlayFull ==
    \/ NotFlagged("full", "FULL", "touch")
    \/ Read("full", "FULL", 2, "fullRead") \/ ReadFails("full", "FULL")
    \/ Refilled("fullRead", "touch") \/ EffectFails("fullRead")

PlayTouch ==
    /\ pc = "touch"
    /\ AcquireTouchButtons(AudioState)
    /\ pc' = "call"
    /\ UNCHANGED <<appli_state, FilePos, format, reading, flag, bytesread, sound,
                   faults, history>>

StartCall ==
    /\ Call("START")
    /\ AUDIO_PLAYER_Start(FilePos, dma)
    /\ UNCHANGED <<appli_state, touched, FilePos, bytesread, pc>>

(* Mutant: forgets to stop the output.                                         *)
StopCallSilent ==
    /\ Call("STOP")
    /\ AudioState' = "WAIT"
    /\ UNCHANGED <<appli_state, touched, FilePos, format, reading, flag, bytesread,
                   pc, sound, faults, history>>

StopCall ==
    /\ Call("STOP")
    /\ dma' = "off"
    /\ AudioState' = "WAIT"
    /\ UNCHANGED <<appli_state, touched, FilePos, format, reading, flag, bytesread,
                   pc, at, struck, faults, history>>

(* The result of AUDIO_PLAYER_Start is not looked at.                          *)
Skip(s, target) ==
    /\ Call(s)
    /\ FilePos' = target
    /\ AUDIO_PLAYER_Start(target, "off")
    /\ UNCHANGED <<appli_state, touched, bytesread, pc>>

NextCall     == Skip("NEXT", IF FilePos + 1 >= Len(Files) THEN 0 ELSE FilePos + 1)
PreviousCall == Skip("PREVIOUS", IF FilePos = 0 THEN Len(Files) - 1 ELSE FilePos - 1)

PauseCall ==
    /\ Call("PAUSE")
    /\ dma' = IF dma = "run" THEN "paused" ELSE dma
    /\ AudioState' = "WAIT"
    /\ UNCHANGED <<appli_state, touched, FilePos, format, reading, flag, bytesread,
                   pc, at, struck, faults, history>>

ResumeCall ==
    /\ Call("RESUME")
    /\ dma' = IF dma = "paused" THEN "run" ELSE dma
    /\ AudioState' = "PLAY"
    /\ UNCHANGED <<appli_state, touched, FilePos, format, reading, flag, bytesread,
                   pc, at, struck, faults, history>>

(* case INIT falls through to the screen as if in STOP.                        *)
WaitCall ==
    /\ \/ Call("INIT") /\ AcquireTouchButtons("STOP")
       \/ Call("WAIT") /\ AcquireTouchButtons("WAIT")
    /\ UNCHANGED <<appli_state, FilePos, format, reading, flag, bytesread, pc, sound,
                   faults, history>>

-----------------------------------------------------------------------------
(* AUDIO_MenuProcess: the files are listed once, before the player first runs; *)
(* a key that left stops the output and nothing else.                          *)
ShowWavFiles ==
    /\ pc = "call" /\ appli_state = "READY" /\ AudioState = "IDLE"
    /\ \/ AudioState' = "INIT" /\ UNCHANGED faults
       \/ Fault /\ UNCHANGED AudioState
    /\ UNCHANGED <<appli_state, touched, FilePos, format, reading, flag, bytesread,
                   pc, sound, history>>

Disconnected ==
    /\ pc = "call" /\ appli_state = "DISCONNECT"
    /\ appli_state' = "IDLE"
    /\ dma' = "off"
    /\ UNCHANGED <<player, reading, flag, bytesread, pc, at, struck, faults, history>>

(* USBH_UserProcess, called by USBH_Process between two menu calls.            *)
USBH_UserProcess ==
    /\ pc = "call"
    /\ appli_state' = CASE appli_state = "READY" -> "DISCONNECT"
                        [] appli_state = "DISCONNECT" -> "DISCONNECT"
                        [] appli_state = "IDLE" -> "READY"
    /\ appli_state' # appli_state
    /\ UNCHANGED <<player, reading, flag, bytesread, pc, sound, faults, history>>

Play == PlayCall \/ PlayHalf \/ PlayFull \/ PlayTouch
Process ==
    \/ Play \/ StartCall \/ StopCall \/ NextCall \/ PreviousCall
    \/ PauseCall \/ ResumeCall \/ WaitCall
MainLoop == Process \/ ShowWavFiles \/ Disconnected
Next ==
    \/ MainLoop \/ USBH_UserProcess
    \/ HalfTransfer_CallBack \/ TransferComplete_CallBack

Spec == Init /\ [][Next]_vars

(* The main loop never blocks, and a running DMA comes to the end of its half. *)
FairSpec ==
    /\ Spec
    /\ WF_vars(MainLoop)
    /\ WF_vars(HalfTransfer_CallBack \/ TransferComplete_CallBack)

-----------------------------------------------------------------------------
(* The speaker runs only while the player plays or is about to stop it: a      *)
(* player that waits, starts or resumes (waveplayer.c:355-376, :423-448) never *)
(* has an output it does not know of, though end of track, touch, failures and *)
(* a lost key stop and start it from different places.                         *)
RunsOnlyWhilePlaying ==
    dma = "run" => AudioState \in {"PLAY", "PAUSE", "STOP", "NEXT", "PREVIOUS"}

(* As long as no interrupt and no refill of the track was lost, its halves are *)
(* heard in order and none twice until its data ends, through pauses and       *)
(* resumes and whatever happened before it (waveplayer.c:240-255, :284-338).   *)
HeardInOrder == glitch => excused

(* While the output runs, the position shown and compared with the file's size *)
(* (waveplayer.c:279, :341) is what was read of this track, but for the half   *)
(* being refilled and for halves a failed effect lost.                         *)
Counted == IF pc \in {"halfRead", "fullRead"} THEN fptr + bytesread ELSE fptr
PositionIsTrue == (dma = "run" /\ ~excused) => pos = Counted

(* A playing track whose remaining data can bring the position to the size in  *)
(* its header comes to its end, if nobody stops it and no failed effect loses  *)
(* that data (waveplayer.c:279-282, :308-309): lost interrupts delay the       *)
(* refills and never block them.                                               *)
CanEnd    == Counted + (Files[format].data - pos) >= Files[format].size
Playing   == dma = "run" /\ AudioState = "PLAY"
TrackEnds == (Playing /\ CanEnd) ~> ~(Playing /\ CanEnd)
=============================================================================
