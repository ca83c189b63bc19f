------------------------------ MODULE TimeTone ------------------------------
(***************************************************************************)
(* The tone of cFE TIME: how a time server follows a signal that comes     *)
(* once a second, and goes on without it ("flywheel") when signal, message *)
(* or data packet is late or lost.                                         *)
(*                                                                         *)
(* The configuration is the one built by default: a server with a virtual  *)
(* MET, an internal time source, a tone faked by the local 1 Hz timer, and *)
(* the data packet after the tone (AT_TONE_WAS).  A time is a whole number *)
(* of units of 1/Second s.  An action is the handling of one message or    *)
(* command by the main task of TIME, or one round of its other two tasks,  *)
(* and takes no time by this clock; Tick lets time pass.  What is only     *)
(* reported is left out: STCF, leap seconds, set state, events, counters.  *)
(* How the reference is written and read without a lock is TimeRef.        *)
(***************************************************************************)
EXTENDS Integers, Sequences

CONSTANTS
  Second,      \* units in a second
  MaxLocal,    \* CFE_PLATFORM_TIME_MAX_LOCAL_*: the local clock rolls over here
  StartFly,    \* CFE_PLATFORM_TIME_CFG_START_FLY, in seconds
  LatchFly,    \* CFE_PLATFORM_TIME_CFG_LATCH_FLY, in seconds
  ToneLimit,   \* CFE_PLATFORM_TIME_CFG_TONE_LIMIT
  MaxElapsed,  \* CFE_MISSION_TIME_MAX_ELAPSED; MIN_ELAPSED is 0
  METs,        \* what the ground may set the MET to
  ToneDelay,   \* environment: a 1 Hz message is handled so soon after its timer
  Delay,       \* environment: all that follows from it, so soon (both in its second)
  MaxDisturbances, MaxTicks  \* bounds: of losses, commands and resets; of time

ASSUME SecondAssumption == Second \in Nat \ {0} /\ METs \subseteq Nat
ASSUME ClockAssumption ==
  /\ StartFly \in Nat \ {0} /\ LatchFly \in Nat /\ StartFly <= LatchFly
  /\ MaxLocal \in Nat /\ LatchFly * Second < MaxLocal
ASSUME LimitsAssumption ==
  /\ ToneLimit \in 1 .. Second - 1 /\ MaxElapsed \in 0 .. Second - 1
  /\ ToneDelay \in 0 .. Second - 1 /\ Delay \in 0 .. Second - 1
ASSUME BoundsAssumption == MaxDisturbances \in Nat /\ MaxTicks \in Nat

VARIABLES
  met, latch, fly,  \* the reference: AtToneMET, AtToneLatch, ClockFlyState
  virtualMET, toneSignalLatch, forced2Fly,  \* of CFE_TIME_Global
  prevTime1, prevTime2,  \* the static variables of CFE_TIME_ToneVerify
  localSem, toneSem,     \* LocalSemaphore, ToneSemaphore, both binary
  pipe,        \* the messages TIME sends itself that its pipe holds
  saved,       \* CurrentMET in the reset area
  clock,       \* the local clock, CFE_PSP_GetTime
  phase,       \* time since the local 1 Hz timer expired
  disturbed, ticks,  \* used up of the bounds
  limit,       \* specification only: what the MET may be at most
  calm,        \* specification only: expirations since anything was disturbed
  isSet        \* specification only: the MET was set since the last update

reference == <<met, latch, fly>>
verify    == <<prevTime1, prevTime2>>
kept      == <<virtualMET, toneSignalLatch, forced2Fly>>
sems      == <<localSem, toneSem>>
used      == <<disturbed, ticks>>
vars == <<reference, kept, verify, sems, pipe, saved, clock, phase, used, limit, calm, isSet>>

-----------------------------------------------------------------------------
(* Reading the time.                                                       *)

\* Mutant of Since: the clock is taken never to have rolled over.
SinceNoRoll(then, now) == now - then

\* From one reading of the local clock to a later one, across one roll-over.
Since(then, now) == IF now < then THEN MaxLocal - then + now ELSE now - then

\* CFE_TIME_GetReference: TimeSinceTone and CurrentMET.
TimeSinceTone == Since(latch, clock)
CurrentMET    == met + TimeSinceTone
WholeSeconds(t) == t \div Second

-----------------------------------------------------------------------------
(* Time, and the tasks woken by it.                                        *)

\* A boot: the reset area holds what was saved, VirtualMET starts from it, and
\* the server flies until it has a tone and its data.
Boot ==
  /\ met' = saved /\ latch' = clock /\ fly' = TRUE
  /\ virtualMET' = WholeSeconds(saved) /\ toneSignalLatch' = 0 /\ forced2Fly' = FALSE
  /\ prevTime1' = 0 /\ prevTime2' = 0
  /\ localSem' = FALSE /\ toneSem' = FALSE /\ pipe' = << >>

Init ==
  /\ met = 0 /\ latch = 0 /\ fly = TRUE
  /\ virtualMET = 0 /\ toneSignalLatch = 0 /\ forced2Fly = FALSE
  /\ prevTime1 = 0 /\ prevTime2 = 0
  /\ localSem = FALSE /\ toneSem = FALSE /\ pipe = << >>
  /\ saved = 0 /\ clock = 0 /\ phase = 0
  /\ disturbed = 0 /\ ticks = 0
  /\ limit = Second /\ calm = 0 /\ isSet = FALSE

\* What the processor is assumed to have done when the timer is so far on.
KeptUp ==
  /\ phase >= ToneDelay => ~localSem /\ \A i \in DOMAIN pipe : pipe[i].type # "OneHz"
  /\ phase >= Delay => ~toneSem /\ pipe = << >>

CalmEnough == 4   \* expirations in which TIME surely finds the tone again

\* One unit passes.  When the second is over, CFE_TIME_Local1HzISR wakes the
\* task that sends the 1 Hz message.
Tick ==
  /\ ticks < MaxTicks /\ ticks' = ticks + 1
  /\ KeptUp
  /\ clock' = (clock + 1) % MaxLocal
  /\ phase' = (phase + 1) % Second
  /\ localSem' = (localSem \/ phase' = 0)
  /\ calm' = IF phase' = 0 /\ calm < CalmEnough THEN calm + 1 ELSE calm
  /\ limit' = limit + 1
  /\ UNCHANGED <<reference, kept, verify, toneSem, pipe, saved, disturbed, isSet>>

Disturb == disturbed < MaxDisturbances /\ disturbed' = disturbed + 1

\* SB delivers a message into a pipe, or drops it when the pipe is at its limit.
Send(rest, m) ==
  \/ pipe' = Append(rest, m) /\ UNCHANGED <<disturbed, calm>>
  \/ Disturb /\ calm' = 0 /\ pipe' = rest

Message(t, n) == [type |-> t, met |-> n]

Local1HzTask ==
  /\ localSem /\ localSem' = FALSE
  /\ Send(pipe, Message("OneHz", 0))
  /\ UNCHANGED <<reference, kept, verify, toneSem, saved, clock, phase, ticks,
                 limit, isSet>>

\* It also sends the tone signal message, which is only counted.
Tone1HzTask ==
  /\ toneSem /\ toneSem' = FALSE
  /\ Send(pipe, Message("ToneSend", 0))
  /\ UNCHANGED <<reference, kept, verify, localSem, saved, clock, phase, ticks,
                 limit, isSet>>

-----------------------------------------------------------------------------
(* The messages TIME sends itself, in its main task.                       *)

Taken(t) == pipe # << >> /\ Head(pipe).type = t

\* Mutant of StateMachine: the MET is latched without the clock.
StateMachineHalfLatch ==
  IF fly /\ WholeSeconds(TimeSinceTone) >= LatchFly
  THEN met' = CurrentMET /\ UNCHANGED <<latch, fly>>
  ELSE /\ fly' = (fly \/ WholeSeconds(TimeSinceTone) >= StartFly)
       /\ UNCHANGED <<met, latch>>

\* CFE_TIME_Local1HzStateMachine: without an update for long, fly; when flying
\* for long, take the computed time for the time at the tone.
StateMachine ==
  IF fly /\ WholeSeconds(TimeSinceTone) >= LatchFly
  THEN met' = CurrentMET /\ latch' = clock /\ UNCHANGED fly
  ELSE /\ fly' = (fly \/ WholeSeconds(TimeSinceTone) >= StartFly)
       /\ UNCHANGED <<met, latch>>

\* Mutant of ToneIsGood: a tone after two seconds is as good as one after one.
ToneIsGoodLate ==
  LET e == Since(toneSignalLatch, clock)
  IN Second - ToneLimit < e /\ e < 2 * Second + ToneLimit

\* The tone came about a second after the one before.
ToneIsGood ==
  LET e == Since(toneSignalLatch, clock)
  IN Second - ToneLimit < e /\ e < Second + ToneLimit

\* CFE_TIME_OneHzCmd: the state machine, then CFE_TIME_Tone1HzISR.  Only a good
\* tone is counted and passed on, but every tone is the next one's reference.
OneHzCmd ==
  /\ Taken("OneHz") /\ pipe' = Tail(pipe)
  /\ StateMachine
  /\ virtualMET' = IF ToneIsGood THEN virtualMET + 1 ELSE virtualMET
  /\ toneSem' = (toneSem \/ ToneIsGood)
  /\ toneSignalLatch' = clock
  /\ UNCHANGED <<forced2Fly, verify, localSem, saved, clock, phase, used, limit, calm,
                 isSet>>

\* CFE_TIME_ToneSend: the data packet, from the count of tones or, when flying,
\* from the computed time.
ToneSendCmd ==
  /\ Taken("ToneSend")
  /\ Send(Tail(pipe),
          Message("ToneData", IF fly THEN WholeSeconds(CurrentMET) ELSE virtualMET))
  /\ UNCHANGED <<reference, kept, verify, sems, saved, clock, phase, ticks,
                 limit, isSet>>

\* CFE_TIME_ToneVerify: tone and packet are both new, and close to each other.
Matched ==
  /\ prevTime1 # toneSignalLatch /\ prevTime2 # clock
  /\ Since(toneSignalLatch, clock) <= MaxElapsed

\* The MET at the tone: after a flight VirtualMET may have missed tones.
UpdatedMET == IF fly THEN WholeSeconds(CurrentMET) ELSE virtualMET

\* Mutant of ToneUpdate: the flywheel is never left.
ToneUpdateFlying ==
  /\ virtualMET' = UpdatedMET
  /\ met' = UpdatedMET * Second /\ latch' = toneSignalLatch /\ UNCHANGED fly

\* CFE_TIME_ToneUpdate.
ToneUpdate ==
  /\ virtualMET' = UpdatedMET
  /\ met' = UpdatedMET * Second /\ latch' = toneSignalLatch /\ fly' = FALSE

\* CFE_TIME_ToneData.  A server whose source is internal does not use the values
\* in the packet, only the moment it came.
ToneDataCmd ==
  /\ Taken("ToneData") /\ pipe' = Tail(pipe)
  /\ IF Matched /\ ~forced2Fly
     THEN ToneUpdate /\ isSet' = FALSE
     ELSE UNCHANGED <<reference, virtualMET, isSet>>
  /\ prevTime1' = toneSignalLatch /\ prevTime2' = clock
  /\ calm' = IF phase <= MaxElapsed THEN calm ELSE 0
  /\ UNCHANGED <<toneSignalLatch, forced2Fly, sems, saved, clock, phase, used, limit>>

-----------------------------------------------------------------------------
(* Commands, housekeeping and processor resets.                            *)

Commanded ==
  /\ Disturb
  /\ UNCHANGED <<verify, sems, pipe, clock, phase, ticks>>

\* CFE_TIME_SetState(CFE_TIME_ClockState_FLYWHEEL).
SetStateFlywheel ==
  /\ Commanded /\ fly' = TRUE /\ forced2Fly' = TRUE /\ calm' = 0
  /\ UNCHANGED <<met, latch, virtualMET, toneSignalLatch, saved, limit, isSet>>

\* CFE_TIME_SetState with any other state: updates are accepted again.
SetStateOther ==
  /\ Commanded /\ forced2Fly' = FALSE /\ calm' = 0
  /\ UNCHANGED <<reference, virtualMET, toneSignalLatch, saved, limit, isSet>>

\* CFE_TIME_SetMET.  A tone still to come in this second adds a whole one.
SetMET(m) ==
  /\ Commanded
  /\ met' = m /\ virtualMET' = WholeSeconds(m) /\ latch' = clock
  /\ limit' = m + Second + phase /\ isSet' = TRUE
  /\ UNCHANGED <<fly, toneSignalLatch, forced2Fly, saved, calm>>

\* CFE_TIME_SendHkCmd saves the computed time in the reset area.
SendHkCmd ==
  /\ Commanded /\ saved' = CurrentMET
  /\ UNCHANGED <<reference, kept, limit, calm, isSet>>

\* A processor reset and the start of TIME (CFE_TIME_InitData).  The local clock
\* runs on; the 1 Hz timer begins again.
ProcessorReset ==
  /\ Disturb /\ Boot /\ phase' = 0
  /\ limit' = saved + Second /\ calm' = 0 /\ isSet' = FALSE
  /\ UNCHANGED <<saved, clock, ticks>>

Next ==
  \/ Tick \/ Local1HzTask \/ Tone1HzTask
  \/ OneHzCmd \/ ToneSendCmd \/ ToneDataCmd
  \/ SetStateFlywheel \/ SetStateOther \/ SendHkCmd \/ ProcessorReset
  \/ \E m \in METs : SetMET(m)

Spec == Init /\ [][Next]_vars

-----------------------------------------------------------------------------
(* Correctness.                                                            *)

Messages == [type : {"OneHz", "ToneSend", "ToneData"}, met : Nat]

\* Every variable keeps its type.  Types of cfe_time_utils.h; the roll-over of
\* the local clock is what its latched values must stay below.
TypeOK ==
  /\ met \in Nat /\ virtualMET \in Nat /\ saved \in Nat /\ limit \in Nat
  /\ {latch, clock, toneSignalLatch, prevTime1, prevTime2} \subseteq 0 .. MaxLocal - 1
  /\ {fly, forced2Fly, localSem, toneSem, isSet} \subseteq BOOLEAN
  /\ pipe \in Seq(Messages)
  /\ phase \in 0 .. Second - 1 /\ calm \in 0 .. CalmEnough
  /\ disturbed \in 0 .. MaxDisturbances /\ ticks \in 0 .. MaxTicks

\* The MET never runs ahead: it is at most what it was set or restored to, one
\* second, and the time since, whatever tones and packets were lost, late or
\* made up by the flywheel, and whichever of the two counts was last used.
NeverAhead == CurrentMET <= limit

\* How far an update may turn the MET back: jitter; when a flight ends, the
\* fraction of a second the computed MET loses; at the first update after the
\* MET was set, its fraction and a tone missed just before.
Slip == CASE isSet -> 2 * Second [] ~isSet /\ fly -> Second [] OTHER -> ToneLimit

\* Except when the ground sets it or the processor is reset, the MET an
\* application reads goes back by less than the slip of the case, and never
\* with a message or with time alone.  So no tone that was missed is a second
\* lost, and the local clock never rolls past the time latched at the tone.
GoesBackLittle ==
  [][\/ ProcessorReset \/ \E m \in METs : SetMET(m)
     \/ CurrentMET' >= CurrentMET
     \/ ToneDataCmd /\ CurrentMET' > CurrentMET - Slip]_vars

\* The tone is found again: some seconds after the last loss, late packet,
\* command or reset the server does not fly, unless it was told to.
Recovers == calm = CalmEnough /\ ~forced2Fly => ~fly

\* What the comment in CFE_TIME_ToneUpdate says of an internal source: the data
\* in the packet are the values this server updates its reference with.
PacketAgrees ==
  [][ToneDataCmd /\ Matched /\ ~forced2Fly => Head(pipe).met = UpdatedMET]_vars
=============================================================================
