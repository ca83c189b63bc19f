--------------------------- MODULE TimeToneProofs ---------------------------
(***************************************************************************)
(* Proofs about the tone of TIME, for any length of a second, any limits   *)
(* and any number of messages lost, commands and resets.  In a state the   *)
(* ages of what was latched count, by the local clock that rolls over, and *)
(* whether the tone of this second is still to come (Pending) or what      *)
(* follows from it (Following).                                            *)
(***************************************************************************)
EXTENDS TimeTone, SequenceTheorems, TLAPS

-----------------------------------------------------------------------------
(* The invariant                                                           *)

Age(x) == Since(x, clock)

Pending   == localSem \/ (pipe # << >> /\ Head(pipe).type = "OneHz")
Following == toneSem \/ (pipe # << >> /\ Head(pipe).type # "OneHz")
Idle      == ~Pending /\ ~Following

\* TIME has one thing to do at a time, and does it in its second.
OneAtATime ==
  /\ Len(pipe) <= 1 /\ ~(localSem /\ toneSem)
  /\ localSem \/ toneSem => pipe = << >>
InTime ==
  /\ Pending => phase <= ToneDelay
  /\ Following => Age(toneSignalLatch) <= phase

\* VirtualMET counts no tone twice and none that has not come.
Count   == virtualMET * Second
TonesOK == Count + (IF Pending THEN Second ELSE 0) <= limit - phase

\* The MET is a second behind the limit; or it has whole seconds at the tone, and
\* none of them is ahead of it.
Aligned ==
  \E j \in Nat, d \in 0 .. Second - 1 :
    CurrentMET = j * Second + phase - d /\ j * Second <= limit - phase
METOK == CurrentMET + Second <= limit \/ Aligned

IInv == TypeOK /\ OneAtATime /\ InTime /\ TonesOK /\ METOK

\* What is found again, expiration by expiration: a tone, its successor that is
\* good, data packets with other tones than the one before, and updates.
ToneFound ==
  /\ calm >= 1 /\ ~Pending =>
       phase - ToneDelay <= Age(toneSignalLatch) /\ Age(toneSignalLatch) <= phase
  /\ calm >= 2 /\ Pending =>
       /\ phase + Second - ToneDelay <= Age(toneSignalLatch)
       /\ Age(toneSignalLatch) <= phase + Second
PacketFound ==
  /\ calm >= 2 /\ Idle => prevTime1 = toneSignalLatch /\ Age(prevTime2) <= phase
  /\ calm >= 3 /\ Pending => prevTime1 = toneSignalLatch
  /\ calm >= 3 /\ Following => prevTime1 # toneSignalLatch
  /\ calm >= 3 /\ ~Idle => phase + 1 <= Age(prevTime2) /\ Age(prevTime2) <= phase + Second
UpdateFound ==
  /\ calm >= 3 /\ Idle /\ ~forced2Fly => ~fly /\ Age(latch) <= phase
  /\ calm >= 4 /\ ~Idle /\ ~forced2Fly => ~fly
  /\ calm >= 4 /\ Pending /\ ~forced2Fly => Age(latch) <= phase + Second

Found == ToneFound /\ PacketFound /\ UpdateFound

\* The local clock does not roll past the time at the tone.
Longest == (IF fly THEN LatchFly ELSE StartFly) + disturbed + IF Pending THEN 1 ELSE 0
NoRoll  == Age(latch) <= Longest * Second + phase

\* No two tones are closer than the delays of their messages allow.
ToneSpaced == Following => phase - ToneDelay <= Age(toneSignalLatch)

\* Since the update every tone was counted, or no update comes before a flight.
SinceUpdate == Age(latch) - Age(toneSignalLatch)
TonesCounted ==
  ~fly /\ ~isSet =>
    /\ SinceUpdate >= 0
    /\ phase + (IF Pending THEN Second ELSE 0) - ToneDelay <= Age(toneSignalLatch)
    /\ \/ Count = met /\ toneSignalLatch = latch
       \/ met + Second <= Count /\ met + SinceUpdate < Count + ToneLimit
       \/ ~Following /\ Age(latch) >= (IF Pending THEN 2 * Second ELSE Second + phase)
SetCounted ==
  ~fly /\ isSet =>
    /\ met < Count + Second
    /\ Following => met + SinceUpdate < Count + 2 * Second

Kept == NoRoll /\ ToneSpaced /\ TonesCounted /\ SetCounted

-----------------------------------------------------------------------------
(* Constants, whole seconds and the local clock                            *)

LEMMA Constants ==
  /\ Second \in Nat \ {0} /\ METs \subseteq Nat
  /\ ToneDelay \in 0 .. Second - 1 /\ Delay \in 0 .. Second - 1
  /\ ToneLimit \in 1 .. Second - 1 /\ MaxElapsed \in 0 .. Second - 1
  /\ StartFly \in Nat \ {0} /\ LatchFly \in Nat \ {0} /\ StartFly <= LatchFly
  /\ MaxLocal \in Nat /\ LatchFly * Second < MaxLocal
  /\ MaxDisturbances \in Nat /\ MaxTicks \in Nat
BY SecondAssumption, ClockAssumption, LimitsAssumption, BoundsAssumption

LEMMA Products ==
  ASSUME NEW i \in Nat, NEW j \in Nat
  PROVE  /\ i * Second \in Nat
         /\ i <= j => i * Second <= j * Second
         /\ i < j => i * Second + Second <= j * Second
         /\ i * Second < j * Second + Second => i <= j
<1>1. \A k \in Nat : k * Second \in Nat
  BY Constants
<1>2. ASSUME NEW p \in Nat, NEW q \in Nat, p <= q
      PROVE  p * Second <= q * Second
  <2>1. q - p \in Nat /\ q = p + (q - p)
    BY <1>2
  <2>2. (p + (q - p)) * Second = p * Second + (q - p) * Second
    BY <2>1, Constants
  <2> QED
    BY <1>1, <2>1, <2>2
<1>3. (i + 1) * Second = i * Second + Second /\ (j + 1) * Second = j * Second + Second
  BY Constants
<1>4. i < j => i * Second + Second <= j * Second
  BY <1>2, <1>3
<1>5. j < i => j * Second + Second <= i * Second
  BY <1>2, <1>3
<1>6. i * Second \in Nat /\ j * Second \in Nat /\ Second \in Nat
  BY <1>1, Constants
<1> QED
  BY <1>2, <1>4, <1>5, <1>6

\* Rounding down to whole seconds.
LEMMA Whole ==
  ASSUME NEW t \in Nat
  PROVE  /\ WholeSeconds(t) \in Nat
         /\ WholeSeconds(t) * Second <= t /\ t < WholeSeconds(t) * Second + Second
BY Constants DEF WholeSeconds

LEMMA WholeAtLeast ==
  ASSUME NEW t \in Nat, NEW n \in Nat
  PROVE  WholeSeconds(t) >= n <=> t >= n * Second
<1>1. /\ WholeSeconds(t) \in Nat /\ WholeSeconds(t) * Second <= t
      /\ t < WholeSeconds(t) * Second + Second
      /\ n * Second \in Nat /\ WholeSeconds(t) * Second \in Nat /\ Second \in Nat
  BY Whole, Products, Constants
<1>2. n <= WholeSeconds(t) => n * Second <= WholeSeconds(t) * Second
  BY <1>1, Products
<1>3. WholeSeconds(t) < n => WholeSeconds(t) * Second + Second <= n * Second
  BY <1>1, Products
<1> QED
  BY <1>1, <1>2, <1>3

Readings == 0 .. MaxLocal - 1

\* A second is less than the range of the local clock; the next reading of it.
LEMMA Clock ==
  /\ Second < MaxLocal
  /\ \A c \in Readings : (c + 1) % MaxLocal = IF c = MaxLocal - 1 THEN 0 ELSE c + 1
<1>1. Second <= LatchFly * Second
  <2>1. 1 * Second <= LatchFly * Second
    BY Products, Constants
  <2> QED
    BY <2>1, Constants
<1>2. Second < MaxLocal
  <2>1. LatchFly * Second \in Nat
    BY Constants, Products
  <2> QED
    BY <1>1, <2>1, Constants
<1>3. MaxLocal \in Nat \ {0}
  BY <1>2, Constants
<1>4. \A c \in Readings : c + 1 < MaxLocal => (c + 1) % MaxLocal = c + 1
  BY <1>3 DEF Readings
<1>5. MaxLocal % MaxLocal = 0
  BY <1>3
<1> QED
  BY <1>2, <1>3, <1>4, <1>5 DEF Readings

LEMMA Ranges ==
  /\ Second \in Nat \ {0} /\ MaxLocal \in Nat \ {0} /\ Second < MaxLocal
  /\ 0 \in 0 .. MaxLocal - 1 /\ 0 \in 0 .. Second - 1
  /\ MaxDisturbances \in Nat /\ MaxTicks \in Nat
BY Clock, Constants

LEMMA SinceType ==
  ASSUME NEW x \in Readings, NEW c \in Readings
  PROVE  Since(x, c) \in Readings /\ (Since(x, c) = 0 <=> x = c)
BY Constants DEF Since, Readings

\* As the clock goes on, what it has latched ages, until it rolls over that.
LEMMA SinceTick ==
  ASSUME NEW x \in Readings, NEW c \in Readings
  PROVE  LET next == (c + 1) % MaxLocal IN
         /\ next \in Readings
         /\ Since(x, next) = IF Since(x, c) = MaxLocal - 1 THEN 0 ELSE Since(x, c) + 1
<1>1. MaxLocal \in Nat \ {0} /\ (c + 1) % MaxLocal = IF c = MaxLocal - 1 THEN 0 ELSE c + 1
  BY Clock, Constants
<1> QED
  BY <1>1 DEF Since, Readings

-----------------------------------------------------------------------------
(* Types                                                                   *)

LEMMA CurrentType ==
  ASSUME TypeOK
  PROVE  TimeSinceTone \in Readings /\ CurrentMET \in Nat
<1>1. latch \in Readings /\ clock \in Readings /\ met \in Nat
  BY DEF TypeOK, Readings
<1>2. TimeSinceTone \in Readings
  BY <1>1, SinceType DEF TimeSinceTone
<1> QED
  BY <1>1, <1>2, Constants DEF CurrentMET, Readings

LEMMA UpdatedType ==
  ASSUME TypeOK
  PROVE  UpdatedMET \in Nat
BY CurrentType, Whole DEF UpdatedMET, TypeOK

LEMMA SendType ==
  ASSUME TypeOK, NEW rest \in Seq(Messages), NEW m \in Messages, Send(rest, m)
  PROVE  /\ pipe' \in Seq(Messages) /\ disturbed' \in 0 .. MaxDisturbances
         /\ calm' \in 0 .. CalmEnough
<1>1. Append(rest, m) \in Seq(Messages)
  OBVIOUS
<1>2. disturbed \in 0 .. MaxDisturbances /\ calm \in 0 .. CalmEnough
  BY DEF TypeOK
<1>3. CASE pipe' = Append(rest, m) /\ UNCHANGED <<disturbed, calm>>
  BY <1>1, <1>2, <1>3
<1>4. CASE Disturb /\ calm' = 0 /\ pipe' = rest
  BY <1>2, <1>4, Ranges DEF Disturb, CalmEnough
<1> QED
  BY <1>3, <1>4 DEF Send

LEMMA TakenType ==
  ASSUME TypeOK, NEW t, Taken(t)
  PROVE  Tail(pipe) \in Seq(Messages)
BY DEF TypeOK, Taken

LEMMA InitInv == Init => IInv
<1> SUFFICES ASSUME Init PROVE IInv
  OBVIOUS
<1>1. TypeOK
  <2>1. << >> \in Seq(Messages)
    OBVIOUS
  <2>2. {met, virtualMET, saved, limit} \subseteq Nat
    BY Ranges DEF Init
  <2>3. /\ {latch, clock, toneSignalLatch, prevTime1, prevTime2} \subseteq 0 .. MaxLocal - 1
        /\ phase \in 0 .. Second - 1 /\ disturbed \in 0 .. MaxDisturbances
        /\ ticks \in 0 .. MaxTicks
    BY Ranges DEF Init
  <2>4. {fly, forced2Fly, localSem, toneSem, isSet} \subseteq BOOLEAN /\ pipe = << >>
    BY DEF Init
  <2>5. calm \in 0 .. CalmEnough
    BY DEF Init, CalmEnough
  <2> QED
    BY <2>1, <2>2, <2>3, <2>4, <2>5 DEF TypeOK
<1>2. ~Pending /\ ~Following
  BY DEF Init, Pending, Following
<1>3. OneAtATime
  BY DEF Init, OneAtATime
<1>4. CurrentMET + Second <= limit /\ limit = Second /\ phase = 0 /\ virtualMET * Second = 0
  BY Constants DEF Init, CurrentMET, TimeSinceTone, Since
<1> QED
  BY <1>1, <1>2, <1>3, <1>4, Constants DEF IInv, InTime, TonesOK, METOK, Count

LEMMA TypeInv ==
  ASSUME TypeOK, Next
  PROVE  TypeOK'
<1>1. CASE Tick
  <2>1. clock' \in Readings
    <3>1. clock \in Readings
      BY DEF TypeOK, Readings
    <3>2. (clock + 1) % MaxLocal \in Readings
      BY <3>1, SinceTick
    <3> QED
      BY <1>1, <3>2 DEF Tick
  <2>2. phase' \in 0 .. Second - 1
    BY <1>1, Constants DEF Tick, TypeOK
  <2>3. calm' \in 0 .. CalmEnough /\ ticks' \in 0 .. MaxTicks
    BY <1>1, Constants DEF Tick, TypeOK, CalmEnough
  <2>4. localSem' \in BOOLEAN
    BY <1>1 DEF Tick, TypeOK
  <2>5. limit' \in Nat
    BY <1>1 DEF Tick, TypeOK
  <2>6. UNCHANGED <<reference, kept, verify, toneSem, pipe, saved, disturbed, isSet>>
    BY <1>1 DEF Tick
  <2> QED
    BY <2>1, <2>2, <2>3, <2>4, <2>5, <2>6 DEF TypeOK, reference, kept, verify, Readings
<1>2. CASE Local1HzTask
  <2>1. Message("OneHz", 0) \in Messages /\ pipe \in Seq(Messages)
    BY DEF Message, Messages, TypeOK
  <2>2. /\ pipe' \in Seq(Messages) /\ disturbed' \in 0 .. MaxDisturbances
        /\ calm' \in 0 .. CalmEnough
    BY <1>2, <2>1, SendType DEF Local1HzTask
  <2> QED
    BY <1>2, <2>2 DEF Local1HzTask, TypeOK, reference, kept, verify
<1>3. CASE Tone1HzTask
  <2>1. Message("ToneSend", 0) \in Messages /\ pipe \in Seq(Messages)
    BY DEF Message, Messages, TypeOK
  <2>2. /\ pipe' \in Seq(Messages) /\ disturbed' \in 0 .. MaxDisturbances
        /\ calm' \in 0 .. CalmEnough
    BY <1>3, <2>1, SendType DEF Tone1HzTask
  <2> QED
    BY <1>3, <2>2 DEF Tone1HzTask, TypeOK, reference, kept, verify
<1>4. CASE OneHzCmd
  <2>1. met' \in Nat /\ latch' \in 0 .. MaxLocal - 1 /\ fly' \in BOOLEAN
    BY <1>4, CurrentType DEF OneHzCmd, StateMachine, TypeOK
  <2>2. pipe' \in Seq(Messages)
    BY <1>4, TakenType DEF OneHzCmd
  <2>3. toneSem' \in BOOLEAN /\ virtualMET' \in Nat
    BY <1>4 DEF OneHzCmd, TypeOK, ToneIsGood
  <2> QED
    BY <1>4, <2>1, <2>2, <2>3 DEF OneHzCmd, TypeOK, verify, used
<1>5. CASE ToneSendCmd
  <2>1. (IF fly THEN WholeSeconds(CurrentMET) ELSE virtualMET) \in Nat
    BY CurrentType, Whole DEF TypeOK
  <2>2. \A n \in Nat : Message("ToneData", n) \in Messages
    BY DEF Message, Messages
  <2>3. Tail(pipe) \in Seq(Messages)
    BY <1>5, TakenType DEF ToneSendCmd
  <2>4. /\ pipe' \in Seq(Messages) /\ disturbed' \in 0 .. MaxDisturbances
        /\ calm' \in 0 .. CalmEnough
    BY <1>5, <2>1, <2>2, <2>3, SendType DEF ToneSendCmd
  <2> QED
    BY <1>5, <2>4 DEF ToneSendCmd, TypeOK, reference, kept, verify, sems
<1>6. CASE ToneDataCmd
  <2>1. pipe' \in Seq(Messages)
    BY <1>6, TakenType DEF ToneDataCmd
  <2>2. /\ met' \in Nat /\ latch' \in 0 .. MaxLocal - 1 /\ fly' \in BOOLEAN
        /\ virtualMET' \in Nat /\ isSet' \in BOOLEAN
    <3>1. CASE Matched /\ ~forced2Fly
      <4>1. UpdatedMET \in Nat /\ UpdatedMET * Second \in Nat
        BY UpdatedType, Products
      <4> QED
        BY <1>6, <3>1, <4>1 DEF ToneDataCmd, ToneUpdate, TypeOK
    <3>2. CASE ~(Matched /\ ~forced2Fly)
      BY <1>6, <3>2 DEF ToneDataCmd, TypeOK, reference
    <3> QED
      BY <3>1, <3>2
  <2>3. calm' \in 0 .. CalmEnough
    BY <1>6 DEF ToneDataCmd, TypeOK, CalmEnough
  <2> QED
    BY <1>6, <2>1, <2>2, <2>3 DEF ToneDataCmd, TypeOK, sems, used
<1>7. CASE SetStateFlywheel
  <2>1. disturbed' \in 0 .. MaxDisturbances
    BY <1>7, Ranges DEF SetStateFlywheel, Commanded, Disturb, TypeOK
  <2>2. calm' \in 0 .. CalmEnough
    BY <1>7 DEF SetStateFlywheel, CalmEnough
  <2> QED
    BY <1>7, <2>1, <2>2 DEF SetStateFlywheel, Commanded, TypeOK, verify, sems
<1>8. CASE SetStateOther
  <2>1. disturbed' \in 0 .. MaxDisturbances
    <3>1. disturbed \in Nat /\ disturbed < MaxDisturbances /\ disturbed' = disturbed + 1
      BY <1>8 DEF SetStateOther, Commanded, Disturb, TypeOK
    <3> QED
      BY <3>1, Ranges
  <2>2. calm' \in 0 .. CalmEnough
    BY <1>8 DEF SetStateOther, CalmEnough
  <2> QED
    BY <1>8, <2>1, <2>2 DEF SetStateOther, Commanded, TypeOK, verify, sems, reference
<1>9. CASE SendHkCmd
  BY <1>9, Ranges, CurrentType DEF SendHkCmd, Commanded, Disturb, TypeOK, verify, sems,
                          reference, kept
<1>10. CASE ProcessorReset
  <2>1. WholeSeconds(saved) \in Nat
    BY Whole DEF TypeOK
  <2>2. << >> \in Seq(Messages)
    OBVIOUS
  <2>3. saved + Second \in Nat
    BY Ranges DEF TypeOK
  <2> QED
    <3>1. disturbed' \in 0 .. MaxDisturbances /\ calm' \in 0 .. CalmEnough
      BY <1>10, Ranges DEF ProcessorReset, Disturb, TypeOK, CalmEnough
    <3>2. /\ met' \in Nat /\ virtualMET' \in Nat /\ limit' \in Nat
          /\ {fly', forced2Fly', localSem', toneSem', isSet'} \subseteq BOOLEAN
      BY <1>10, <2>1, <2>3 DEF ProcessorReset, Boot, TypeOK
    <3>3. /\ {latch', toneSignalLatch', prevTime1', prevTime2'} \subseteq 0 .. MaxLocal - 1
          /\ phase' \in 0 .. Second - 1
      BY <1>10, Ranges DEF ProcessorReset, Boot, TypeOK
    <3>4. pipe' \in Seq(Messages) /\ UNCHANGED <<saved, clock, ticks>>
      BY <1>10, <2>2 DEF ProcessorReset, Boot
    <3> QED
      BY <3>1, <3>2, <3>3, <3>4 DEF TypeOK
<1>11. ASSUME NEW m \in METs, SetMET(m) PROVE TypeOK'
  <2>1. m \in Nat /\ WholeSeconds(m) \in Nat
    BY Whole, Constants
  <2>2. m + Second + phase \in Nat
    BY <2>1, Ranges DEF TypeOK
  <2> QED
    BY <1>11, <2>1, <2>2, Ranges DEF SetMET, Commanded, Disturb, TypeOK, verify, sems, CalmEnough
<1> QED
  BY <1>1, <1>2, <1>3, <1>4, <1>5, <1>6, <1>7, <1>8, <1>9, <1>10, <1>11 DEF Next

-----------------------------------------------------------------------------
(* One thing at a time: a step hands on what is to be done                 *)

LEMMA OneMessage ==
  ASSUME TypeOK, OneAtATime, pipe # << >>
  PROVE  Tail(pipe) = << >>
<1>1. pipe \in Seq(Messages) /\ Len(pipe) \in Nat /\ Len(pipe) <= 1
  BY DEF TypeOK, OneAtATime
<1>2. Len(pipe) # 0
  BY <1>1, EmptySeq
<1>3. Tail(pipe) \in Seq(Messages) /\ Len(Tail(pipe)) = Len(pipe) - 1
  BY <1>1, <1>2
<1>4. Len(Tail(pipe)) = 0
  BY <1>1, <1>2, <1>3
<1> QED
  BY <1>3, <1>4, EmptySeq

LEMMA Sent ==
  ASSUME NEW t, NEW n, Send(<< >>, Message(t, n))
  PROVE  \/ /\ pipe' # << >> /\ Len(pipe') = 1 /\ Head(pipe').type = t
            /\ UNCHANGED <<disturbed, calm>>
         \/ Disturb /\ calm' = 0 /\ pipe' = << >> /\ Len(pipe') = 0
<1> DEFINE m == Message(t, n)
<1>1. Append(<< >>, m) = <<m>> /\ m.type = t
  BY DEF Message
<1>2. <<m>> # << >> /\ Len(<<m>>) = 1 /\ Head(<<m>>) = m
  OBVIOUS
<1> QED
  BY <1>1, <1>2 DEF Send

LEMMA TickChain ==
  ASSUME TypeOK, OneAtATime, Tick
  PROVE  /\ OneAtATime'
         /\ \/ /\ phase' = phase + 1 /\ calm' = calm
               /\ Pending' <=> Pending
               /\ Following' <=> Following
            \/ /\ phase' = 0 /\ phase = Second - 1
               /\ ~Pending /\ ~Following /\ Pending' /\ ~Following'
               /\ calm' = IF calm < CalmEnough THEN calm + 1 ELSE calm
         /\ Pending => phase < ToneDelay
         /\ Following => phase < Delay
<1>1. /\ phase \in 0 .. Second - 1 /\ ToneDelay \in 0 .. Second - 1 /\ Delay \in 0 .. Second - 1
      /\ Second \in Nat \ {0}
  BY Constants DEF TypeOK
<1>2. \/ phase = Second - 1 /\ phase' = 0
      \/ phase < Second - 1 /\ phase' = phase + 1
  BY <1>1 DEF Tick
<1>3. pipe # << >> => 1 \in DOMAIN pipe /\ Head(pipe) = pipe[1]
  BY DEF TypeOK
<1>4. /\ Pending => phase < ToneDelay
      /\ Following => phase < Delay
  BY <1>1, <1>3 DEF Tick, KeptUp, Pending, Following
<1>5. CASE phase = Second - 1 /\ phase' = 0
  <2>1. ~Pending /\ ~Following /\ ~(phase < Delay)
    BY <1>1, <1>4, <1>5
  <2>2. pipe = << >> /\ ~localSem /\ ~toneSem
    BY <1>1, <1>5, <2>1 DEF Tick, KeptUp, Pending
  <2>3. localSem' /\ pipe' = << >> /\ ~toneSem'
    BY <1>5, <2>2 DEF Tick
  <2>4. Pending' /\ ~Following'
    BY <2>3 DEF Pending, Following
  <2>5. OneAtATime'
    BY <2>3 DEF OneAtATime
  <2>6. calm' = IF calm < CalmEnough THEN calm + 1 ELSE calm
    BY <1>5 DEF Tick
  <2> QED
    BY <1>4, <1>5, <2>1, <2>4, <2>5, <2>6
<1>6. CASE phase < Second - 1 /\ phase' = phase + 1
  <2>1. phase' # 0
    BY <1>1, <1>6
  <2>2. /\ localSem' <=> localSem
        /\ UNCHANGED <<toneSem, pipe, calm>>
    BY <2>1 DEF Tick
  <2>3. OneAtATime' /\ (Pending' <=> Pending) /\ (Following' <=> Following)
    BY <2>2 DEF OneAtATime, Pending, Following
  <2> QED
    BY <1>4, <1>6, <2>2, <2>3
<1> QED
  BY <1>2, <1>5, <1>6

LEMMA Local1HzChain ==
  ASSUME TypeOK, OneAtATime, Local1HzTask
  PROVE  /\ OneAtATime' /\ Pending /\ ~Following /\ ~Following'
         /\ \/ Pending' /\ UNCHANGED <<disturbed, calm>>
            \/ ~Pending' /\ disturbed' = disturbed + 1 /\ calm' = 0
<1>1. localSem /\ ~toneSem /\ pipe = << >> /\ ~localSem' /\ ~toneSem'
  BY DEF OneAtATime, Local1HzTask, TypeOK
<1>2. Send(<< >>, Message("OneHz", 0))
  BY <1>1 DEF Local1HzTask
<1>3. \/ /\ pipe' # << >> /\ Len(pipe') = 1 /\ Head(pipe').type = "OneHz"
         /\ UNCHANGED <<disturbed, calm>>
      \/ Disturb /\ calm' = 0 /\ pipe' = << >> /\ Len(pipe') = 0
  BY <1>2, Sent
<1>4. OneAtATime'
  BY <1>1, <1>3 DEF OneAtATime
<1> QED
  BY <1>1, <1>3, <1>4 DEF Pending, Following, Disturb

LEMMA Tone1HzChain ==
  ASSUME TypeOK, OneAtATime, Tone1HzTask
  PROVE  /\ OneAtATime' /\ Following /\ ~Pending /\ ~Pending'
         /\ \/ Following' /\ UNCHANGED <<disturbed, calm>>
            \/ ~Following' /\ disturbed' = disturbed + 1 /\ calm' = 0
<1>1. toneSem /\ ~localSem /\ pipe = << >> /\ ~toneSem' /\ ~localSem'
  BY DEF OneAtATime, Tone1HzTask, TypeOK
<1>2. Send(<< >>, Message("ToneSend", 0))
  BY <1>1 DEF Tone1HzTask
<1>3. \/ /\ pipe' # << >> /\ Len(pipe') = 1 /\ Head(pipe').type = "ToneSend"
         /\ UNCHANGED <<disturbed, calm>>
      \/ Disturb /\ calm' = 0 /\ pipe' = << >> /\ Len(pipe') = 0
  BY <1>2, Sent
<1>4. OneAtATime'
  BY <1>1, <1>3 DEF OneAtATime
<1> QED
  BY <1>1, <1>3, <1>4 DEF Pending, Following, Disturb

LEMMA OneHzChain ==
  ASSUME TypeOK, OneAtATime, OneHzCmd
  PROVE  /\ OneAtATime' /\ Pending /\ ~Following /\ ~Pending'
         /\ Following' <=> ToneIsGood
<1>1. pipe # << >> /\ Head(pipe).type = "OneHz" /\ Tail(pipe) = << >> /\ ~toneSem /\ ~localSem
  BY OneMessage DEF OneHzCmd, Taken, OneAtATime
<1>2. pipe' = << >> /\ ~localSem' /\ (toneSem' <=> ToneIsGood)
  BY <1>1 DEF OneHzCmd
<1>3. OneAtATime'
  BY <1>2 DEF OneAtATime
<1> QED
  BY <1>1, <1>2, <1>3 DEF Pending, Following

LEMMA ToneSendChain ==
  ASSUME TypeOK, OneAtATime, ToneSendCmd
  PROVE  /\ OneAtATime' /\ Following /\ ~Pending /\ ~Pending'
         /\ \/ Following' /\ UNCHANGED <<disturbed, calm>>
            \/ ~Following' /\ disturbed' = disturbed + 1 /\ calm' = 0
<1> DEFINE n == IF fly THEN WholeSeconds(CurrentMET) ELSE virtualMET
<1>1. pipe # << >> /\ Head(pipe).type = "ToneSend" /\ Tail(pipe) = << >> /\ ~toneSem /\ ~localSem
  BY OneMessage DEF ToneSendCmd, Taken, OneAtATime
<1>2. ~toneSem' /\ ~localSem'
  BY <1>1 DEF ToneSendCmd, sems
<1>3. Send(<< >>, Message("ToneData", n))
  BY <1>1 DEF ToneSendCmd
<1> HIDE DEF n
<1>4. \/ /\ pipe' # << >> /\ Len(pipe') = 1 /\ Head(pipe').type = "ToneData"
         /\ UNCHANGED <<disturbed, calm>>
      \/ Disturb /\ calm' = 0 /\ pipe' = << >> /\ Len(pipe') = 0
  BY <1>3, Sent
<1>5. OneAtATime'
  BY <1>2, <1>4 DEF OneAtATime
<1> QED
  BY <1>1, <1>2, <1>4, <1>5 DEF Pending, Following, Disturb

LEMMA ToneDataChain ==
  ASSUME TypeOK, OneAtATime, ToneDataCmd
  PROVE  OneAtATime' /\ Following /\ ~Pending /\ ~Pending' /\ ~Following'
<1>1. pipe # << >> /\ Head(pipe).type = "ToneData" /\ Tail(pipe) = << >> /\ ~toneSem /\ ~localSem
  BY OneMessage DEF ToneDataCmd, Taken, OneAtATime
<1>2. ~toneSem' /\ ~localSem' /\ pipe' = << >>
  BY <1>1 DEF ToneDataCmd, sems
<1>3. OneAtATime'
  BY <1>2 DEF OneAtATime
<1> QED
  BY <1>1, <1>2, <1>3 DEF Pending, Following

LEMMA CommandedChain ==
  ASSUME Commanded, OneAtATime
  PROVE  /\ OneAtATime' /\ (Pending' <=> Pending) /\ (Following' <=> Following)
         /\ disturbed' = disturbed + 1 /\ phase' = phase /\ clock' = clock
BY DEF Commanded, sems, Disturb, OneAtATime, Pending, Following

LEMMA ResetChain ==
  ASSUME ProcessorReset
  PROVE  OneAtATime' /\ ~Pending' /\ ~Following' /\ disturbed' = disturbed + 1
<1>1. pipe' = << >> /\ ~localSem' /\ ~toneSem' /\ disturbed' = disturbed + 1
  BY DEF ProcessorReset, Boot, Disturb
<1> QED
  BY <1>1 DEF OneAtATime, Pending, Following

-----------------------------------------------------------------------------
(* The MET never runs ahead                                                *)

\* What is latched ages with the clock, and is new when it is latched.
LEMMA Ages ==
  ASSUME TypeOK
  PROVE  /\ \A x \in Readings : Age(x) \in Readings
         /\ Age(clock) = 0
         /\ Tick => \A x \in Readings :
              Since(x, clock') = IF Age(x) = MaxLocal - 1 THEN 0 ELSE Age(x) + 1
<1>1. clock \in Readings
  BY DEF TypeOK, Readings
<1>2. \A x \in Readings : Age(x) \in Readings
  BY <1>1, SinceType DEF Age
<1>3. Age(clock) = 0
  BY <1>1, SinceType DEF Age
<1>4. ASSUME Tick, NEW x \in Readings
      PROVE  Since(x, clock') = IF Age(x) = MaxLocal - 1 THEN 0 ELSE Age(x) + 1
  BY <1>1, <1>4, SinceTick DEF Age, Tick
<1> QED
  BY <1>2, <1>3, <1>4

LEMMA InTimeInv ==
  ASSUME TypeOK, OneAtATime, InTime, Next
  PROVE  InTime'
<1>1. /\ phase \in Nat /\ ToneDelay \in Nat /\ toneSignalLatch \in Readings
      /\ Age(toneSignalLatch) \in Nat /\ Age(clock) = 0
  BY Ages, Constants DEF TypeOK, Readings
<1>2. CASE Tick
  <2>1. toneSignalLatch' = toneSignalLatch
    BY <1>2 DEF Tick, kept
  <2>2. Age(toneSignalLatch)' <= Age(toneSignalLatch) + 1
    BY <1>1, <1>2, <2>1, Ages DEF Age
  <2>3. Age(toneSignalLatch)' \in Nat
    BY <1>1, <1>2, <2>1, Ages DEF Age
  <2> QED
    BY <1>1, <1>2, <2>2, <2>3, TickChain DEF InTime
<1>3. ASSUME UNCHANGED <<toneSignalLatch, clock, phase>>,
             Pending' => Pending, Following' => Following
      PROVE  InTime'
  BY <1>3 DEF InTime, Age
<1>4. CASE Local1HzTask
  BY <1>3, <1>4, Local1HzChain DEF Local1HzTask, kept
<1>5. CASE Tone1HzTask
  BY <1>3, <1>5, Tone1HzChain DEF Tone1HzTask, kept
<1>6. CASE OneHzCmd
  <2>1. toneSignalLatch' = clock /\ clock' = clock /\ phase' = phase
    BY <1>6 DEF OneHzCmd
  <2>2. Age(toneSignalLatch)' = 0
    BY <1>1, <2>1 DEF Age
  <2> QED
    BY <1>1, <1>6, <2>1, <2>2, OneHzChain DEF InTime
<1>7. CASE ToneSendCmd
  BY <1>3, <1>7, ToneSendChain DEF ToneSendCmd, kept
<1>8. CASE ToneDataCmd
  BY <1>3, <1>8, ToneDataChain DEF ToneDataCmd
<1>9. CASE SetStateFlywheel
  BY <1>3, <1>9, CommandedChain DEF SetStateFlywheel
<1>10. CASE SetStateOther
  BY <1>3, <1>10, CommandedChain DEF SetStateOther
<1>11. CASE SendHkCmd
  BY <1>3, <1>11, CommandedChain DEF SendHkCmd, kept
<1>12. CASE ProcessorReset
  BY <1>12, ResetChain DEF InTime
<1>13. ASSUME NEW m \in METs, SetMET(m) PROVE InTime'
  BY <1>3, <1>13, CommandedChain DEF SetMET
<1> QED
  BY <1>2, <1>4, <1>5, <1>6, <1>7, <1>8, <1>9, <1>10, <1>11, <1>12, <1>13 DEF Next

LEMMA NeverAheadHolds ==
  ASSUME TypeOK, METOK
  PROVE  NeverAhead
<1>1. CurrentMET \in Nat /\ limit \in Nat /\ phase \in 0 .. Second - 1 /\ Second \in Nat \ {0}
  BY CurrentType, Constants DEF TypeOK
<1>2. CASE CurrentMET + Second <= limit
  BY <1>1, <1>2 DEF NeverAhead
<1>3. CASE Aligned
  <2>1. PICK j \in Nat, d \in 0 .. Second - 1 :
          CurrentMET = j * Second + phase - d /\ j * Second <= limit - phase
    BY <1>3 DEF Aligned
  <2>2. j * Second \in Nat
    BY Products
  <2> QED
    BY <1>1, <2>1, <2>2 DEF NeverAhead
<1> QED
  BY <1>2, <1>3 DEF METOK

\* An update never brings the MET at the tone past the limit.
LEMMA UpdatedAtMost ==
  ASSUME TypeOK, TonesOK, METOK
  PROVE  UpdatedMET * Second <= limit - phase
<1>1. /\ CurrentMET \in Nat /\ limit \in Nat /\ phase \in 0 .. Second - 1
      /\ Second \in Nat \ {0}
  BY CurrentType, Constants DEF TypeOK
<1>2. CASE ~fly
  <2>1. Count \in Nat
    BY Products DEF Count, TypeOK
  <2>2. Count <= limit - phase
    BY <1>1, <2>1 DEF TonesOK
  <2> QED
    BY <1>2, <2>2 DEF UpdatedMET, Count
<1>3. CASE fly
  <2> DEFINE W == WholeSeconds(CurrentMET)
  <2>1. W \in Nat /\ W * Second <= CurrentMET /\ W * Second \in Nat
    BY <1>1, Whole, Products
  <2>2. UpdatedMET = W
    BY <1>3 DEF UpdatedMET
  <2> HIDE DEF W
  <2>3. CASE CurrentMET + Second <= limit
    BY <1>1, <2>1, <2>2, <2>3
  <2>4. CASE Aligned
    <3>1. PICK j \in Nat, d \in 0 .. Second - 1 :
            CurrentMET = j * Second + phase - d /\ j * Second <= limit - phase
      BY <2>4 DEF Aligned
    <3>2. j * Second \in Nat
      BY Products
    <3>3. W * Second < j * Second + Second
      BY <1>1, <2>1, <3>1, <3>2
    <3>4. W <= j
      BY <2>1, <3>3, Products
    <3>5. W * Second <= j * Second
      BY <2>1, <3>4, Products
    <3> QED
      BY <1>1, <2>1, <2>2, <3>1, <3>2, <3>5
  <2> QED
    BY <2>3, <2>4 DEF METOK
<1> QED
  BY <1>2, <1>3 DEF TypeOK

LEMMA TonesInv ==
  ASSUME TypeOK, OneAtATime, TonesOK, METOK, Next
  PROVE  TonesOK'
<1>1. /\ Count \in Nat /\ limit \in Nat /\ phase \in 0 .. Second - 1 /\ Second \in Nat \ {0}
      /\ virtualMET \in Nat /\ saved \in Nat
  BY Products, Constants DEF Count, TypeOK
<1>2. ASSUME UNCHANGED <<virtualMET, limit, phase>>, Pending' => Pending
      PROVE  TonesOK'
  <2>1. Count' = Count
    BY <1>2 DEF Count
  <2> QED
    BY <1>1, <1>2, <2>1 DEF TonesOK
<1>3. CASE Tick
  <2>1. Count' = Count
    BY <1>3 DEF Tick, kept, Count
  <2>2. limit' = limit + 1
    BY <1>3 DEF Tick
  <2> QED
    BY <1>1, <1>3, <2>1, <2>2, TickChain DEF TonesOK
<1>4. CASE Local1HzTask
  BY <1>2, <1>4, Local1HzChain DEF Local1HzTask, kept
<1>5. CASE Tone1HzTask
  BY <1>2, <1>5, Tone1HzChain DEF Tone1HzTask, kept
<1>6. CASE OneHzCmd
  <2>1. limit' = limit /\ phase' = phase /\ virtualMET' \in {virtualMET, virtualMET + 1}
    BY <1>6 DEF OneHzCmd
  <2>2. (virtualMET + 1) * Second = virtualMET * Second + Second
    BY <1>1
  <2>3. Count' \in {Count, Count + Second}
    <3>1. CASE virtualMET' = virtualMET
      BY <3>1 DEF Count
    <3>2. CASE virtualMET' = virtualMET + 1
      <4>1. Count' = (virtualMET + 1) * Second
        BY <3>2 DEF Count
      <4> QED
        BY <4>1, <2>2 DEF Count
    <3> QED
      BY <2>1, <3>1, <3>2
  <2>4. Count' <= Count + Second /\ Count' \in Nat
    BY <1>1, <2>3
  <2>5. Pending /\ ~Pending'
    BY <1>6, OneHzChain
  <2>6. Count + Second <= limit - phase
    BY <2>5 DEF TonesOK
  <2>7. limit' - phase' = limit - phase /\ limit - phase \in Int
    BY <1>1, <2>1
  <2>8. Count' + 0 <= limit' - phase'
    BY <1>1, <2>4, <2>6, <2>7
  <2> QED
    BY <2>5, <2>8 DEF TonesOK
<1>7. CASE ToneSendCmd
  BY <1>2, <1>7, ToneSendChain DEF ToneSendCmd, kept
<1>8. CASE ToneDataCmd
  <2>1. limit' = limit /\ phase' = phase /\ virtualMET' \in {virtualMET, UpdatedMET}
    BY <1>8 DEF ToneDataCmd, ToneUpdate
  <2>2. UpdatedMET * Second <= limit - phase
    BY UpdatedAtMost
  <2>3. UpdatedMET \in Nat /\ UpdatedMET * Second \in Nat
    BY UpdatedType, Products
  <2>4. Count' \in {Count, UpdatedMET * Second}
    <3>1. CASE virtualMET' = virtualMET
      BY <3>1 DEF Count
    <3>2. CASE virtualMET' = UpdatedMET
      BY <3>2 DEF Count
    <3> QED
      BY <2>1, <3>1, <3>2
  <2>5. ~Pending /\ ~Pending'
    BY <1>8, ToneDataChain
  <2>6. CASE Count' = Count
    BY <1>2, <1>1, <2>1, <2>5, <2>6 DEF TonesOK
  <2>7. CASE Count' = UpdatedMET * Second
    BY <1>1, <2>1, <2>2, <2>3, <2>5, <2>7 DEF TonesOK
  <2> QED
    BY <2>4, <2>6, <2>7
<1>9. CASE SetStateFlywheel
  BY <1>2, <1>9, CommandedChain DEF SetStateFlywheel
<1>10. CASE SetStateOther
  BY <1>2, <1>10, CommandedChain DEF SetStateOther
<1>11. CASE SendHkCmd
  BY <1>2, <1>11, CommandedChain DEF SendHkCmd, kept
<1>12. CASE ProcessorReset
  <2>1. limit' = saved + Second /\ phase' = 0 /\ virtualMET' = WholeSeconds(saved)
    BY <1>12 DEF ProcessorReset, Boot
  <2>2. WholeSeconds(saved) * Second <= saved /\ WholeSeconds(saved) * Second \in Nat
    BY <1>1, Whole, Products
  <2>3. Count' = WholeSeconds(saved) * Second
    BY <2>1 DEF Count
  <2> QED
    BY <1>1, <1>12, <2>1, <2>2, <2>3, ResetChain DEF TonesOK
<1>13. ASSUME NEW m \in METs, SetMET(m) PROVE TonesOK'
  <2>1. limit' = m + Second + phase /\ phase' = phase /\ virtualMET' = WholeSeconds(m)
    BY <1>13, CommandedChain DEF SetMET
  <2>2. m \in Nat /\ WholeSeconds(m) * Second <= m /\ WholeSeconds(m) * Second \in Nat
    BY Constants, Whole, Products
  <2>3. Count' = WholeSeconds(m) * Second
    BY <2>1 DEF Count
  <2> QED
    BY <1>1, <2>1, <2>2, <2>3 DEF TonesOK
<1> QED
  BY <1>3, <1>4, <1>5, <1>6, <1>7, <1>8, <1>9, <1>10, <1>11, <1>12, <1>13 DEF Next

\* To latch the time for the reference, or to fly, changes no time.
LEMMA StateMachineKeeps ==
  ASSUME TypeOK, StateMachine, clock' = clock
  PROVE  CurrentMET' = CurrentMET
<1>1. CASE UNCHANGED <<met, latch>>
  BY <1>1 DEF CurrentMET, TimeSinceTone
<1>2. CASE met' = CurrentMET /\ latch' = clock
  <2>1. CurrentMET' = CurrentMET + Age(clock)
    BY <1>2 DEF CurrentMET, TimeSinceTone, Age
  <2> QED
    BY <2>1, Ages, CurrentType
<1> QED
  BY <1>1, <1>2 DEF StateMachine

LEMMA METInv ==
  ASSUME TypeOK, OneAtATime, InTime, TonesOK, METOK, Next
  PROVE  METOK'
<1>1. /\ CurrentMET \in Nat /\ limit \in Nat /\ phase \in 0 .. Second - 1 /\ saved \in Nat
      /\ met \in Nat /\ Second \in Nat \ {0} /\ MaxLocal \in Nat /\ Second < MaxLocal
      /\ latch \in Readings /\ toneSignalLatch \in Readings
  BY CurrentType, Ranges DEF TypeOK, Readings
<1>2. ASSUME UNCHANGED <<limit, phase>>, CurrentMET' = CurrentMET
      PROVE  METOK'
  BY <1>2 DEF METOK, Aligned
<1>3. ASSUME UNCHANGED <<reference, limit, phase, clock>>
      PROVE  METOK'
  BY <1>2, <1>3 DEF reference, CurrentMET, TimeSinceTone
<1>4. ASSUME CurrentMET' + Second <= limit'
      PROVE  METOK'
  BY <1>4 DEF METOK
<1>5. CASE Tick
  <2>1. limit' = limit + 1 /\ met' = met /\ latch' = latch
    BY <1>5 DEF Tick, reference
  <2>2. CurrentMET = met + Age(latch) /\ CurrentMET' = met + Since(latch, clock')
    BY <2>1 DEF CurrentMET, TimeSinceTone, Age
  <2>3. Age(latch) \in Readings
    BY <1>1, Ages
  <2>4. CASE Age(latch) = MaxLocal - 1
    <3>1. CurrentMET' = CurrentMET - (MaxLocal - 1)
      BY <1>1, <1>5, <2>2, <2>4, Ages
    <3>2. CurrentMET <= limit
      BY NeverAheadHolds DEF NeverAhead
    <3>3. CurrentMET' + Second <= limit'
      BY <1>1, <2>1, <3>1, <3>2
    <3> QED
      BY <1>4, <3>3
  <2>5. CASE Age(latch) # MaxLocal - 1
    <3>1. CurrentMET' = CurrentMET + 1
      BY <1>1, <1>5, <2>2, <2>3, <2>5, Ages DEF Readings
    <3>2. CASE CurrentMET + Second <= limit
      <4>1. CurrentMET' + Second <= limit'
        BY <1>1, <2>1, <3>1, <3>2
      <4> QED
        BY <1>4, <4>1
    <3>3. CASE Aligned
      <4>1. PICK j \in Nat, d \in 0 .. Second - 1 :
              CurrentMET = j * Second + phase - d /\ j * Second <= limit - phase
        BY <3>3 DEF Aligned
      <4>2. j * Second \in Nat /\ (j + 1) * Second = j * Second + Second
        BY <1>1, Products
      <4>3. CASE phase' = phase + 1
        <5>1. CurrentMET' = j * Second + phase' - d /\ j * Second <= limit' - phase'
          BY <1>1, <2>1, <3>1, <4>1, <4>2, <4>3
        <5>2. Aligned'
          BY <5>1 DEF Aligned
        <5> QED
          BY <5>2 DEF METOK
      <4>4. CASE phase = Second - 1 /\ phase' = 0
        <5>1. /\ CurrentMET' = (j + 1) * Second + phase' - d
              /\ (j + 1) * Second <= limit' - phase'
          BY <1>1, <2>1, <3>1, <4>1, <4>2, <4>4
        <5>2. j + 1 \in Nat
          OBVIOUS
        <5>3. Aligned'
          BY <5>1, <5>2 DEF Aligned
        <5> QED
          BY <5>3 DEF METOK
      <4> QED
        BY <1>5, <4>3, <4>4, TickChain
    <3> QED
      BY <3>2, <3>3 DEF METOK
  <2> QED
    BY <2>4, <2>5
<1>6. CASE Local1HzTask
  BY <1>3, <1>6 DEF Local1HzTask
<1>7. CASE Tone1HzTask
  BY <1>3, <1>7 DEF Tone1HzTask
<1>8. CASE OneHzCmd
  BY <1>2, <1>8, StateMachineKeeps DEF OneHzCmd
<1>9. CASE ToneSendCmd
  BY <1>3, <1>9 DEF ToneSendCmd
<1>10. CASE ToneDataCmd
  <2>1. CASE Matched /\ ~forced2Fly
    <3>1. /\ met' = UpdatedMET * Second /\ latch' = toneSignalLatch
          /\ UNCHANGED <<clock, limit, phase>>
      BY <1>10, <2>1 DEF ToneDataCmd, ToneUpdate
    <3>2. CurrentMET' = UpdatedMET * Second + Age(toneSignalLatch)
      BY <3>1 DEF CurrentMET, TimeSinceTone, Age
    <3>3. Age(toneSignalLatch) <= phase /\ Age(toneSignalLatch) \in Nat
      BY <1>1, <1>10, Ages, ToneDataChain DEF InTime, Readings
    <3>4. UpdatedMET \in Nat /\ UpdatedMET * Second \in Nat
      BY UpdatedType, Products
    <3>5. PICK d \in 0 .. Second - 1 : Age(toneSignalLatch) = phase - d
      <4>1. phase - Age(toneSignalLatch) \in 0 .. Second - 1
        BY <1>1, <3>3
      <4>2. Age(toneSignalLatch) = phase - (phase - Age(toneSignalLatch))
        BY <1>1, <3>3
      <4> QED
        BY <4>1, <4>2
    <3>6. CurrentMET' = UpdatedMET * Second + phase' - d
      BY <1>1, <3>1, <3>2, <3>4, <3>5
    <3>7. UpdatedMET * Second <= limit' - phase'
      BY <3>1, UpdatedAtMost
    <3>8. Aligned'
      BY <3>4, <3>6, <3>7 DEF Aligned
    <3> QED
      BY <3>8 DEF METOK
  <2>2. CASE ~(Matched /\ ~forced2Fly)
    BY <1>3, <1>10, <2>2 DEF ToneDataCmd
  <2> QED
    BY <2>1, <2>2
<1>11. CASE SetStateFlywheel
  BY <1>2, <1>11, CommandedChain DEF SetStateFlywheel, CurrentMET, TimeSinceTone
<1>12. CASE SetStateOther
  BY <1>3, <1>12, CommandedChain DEF SetStateOther
<1>13. CASE SendHkCmd
  BY <1>3, <1>13, CommandedChain DEF SendHkCmd
<1>14. CASE ProcessorReset
  <2>1. met' = saved /\ latch' = clock /\ clock' = clock /\ limit' = saved + Second
    BY <1>14 DEF ProcessorReset, Boot
  <2>2. CurrentMET' = saved + Age(clock)
    BY <2>1 DEF CurrentMET, TimeSinceTone, Age
  <2>3. CurrentMET' + Second <= limit'
    BY <1>1, <2>1, <2>2, Ages
  <2> QED
    BY <1>4, <2>3
<1>15. ASSUME NEW m \in METs, SetMET(m) PROVE METOK'
  <2>1. met' = m /\ latch' = clock /\ clock' = clock /\ limit' = m + Second + phase
    BY <1>15, CommandedChain DEF SetMET
  <2>2. CurrentMET' = m + Age(clock) /\ m \in Nat
    BY <2>1, Constants DEF CurrentMET, TimeSinceTone, Age
  <2>3. CurrentMET' + Second <= limit'
    BY <1>1, <2>1, <2>2, Ages
  <2> QED
    BY <1>4, <2>3
<1> QED
  BY <1>5, <1>6, <1>7, <1>8, <1>9, <1>10, <1>11, <1>12, <1>13, <1>14, <1>15 DEF Next

LEMMA NextInv ==
  ASSUME IInv, Next
  PROVE  IInv'
<1>1. TypeOK /\ OneAtATime /\ InTime /\ TonesOK /\ METOK
  BY DEF IInv
<1>2. OneAtATime'
  <2>1. CASE Commanded
    BY <1>1, <2>1, CommandedChain
  <2>2. CASE ~Commanded
    <3>1. ~SetStateFlywheel /\ ~SetStateOther /\ ~SendHkCmd /\ \A m \in METs : ~SetMET(m)
      BY <2>2 DEF SetStateFlywheel, SetStateOther, SendHkCmd, SetMET
    <3> QED
      BY <1>1, <3>1, TickChain, Local1HzChain, Tone1HzChain, OneHzChain, ToneSendChain,
         ToneDataChain, ResetChain DEF Next
  <2> QED
    BY <2>1, <2>2
<1>3. TypeOK' /\ InTime' /\ TonesOK' /\ METOK'
  BY <1>1, TypeInv, InTimeInv, TonesInv, METInv
<1> QED
  BY <1>2, <1>3 DEF IInv

LEMMA StutterInv ==
  ASSUME IInv, UNCHANGED vars
  PROVE  IInv'
<1>1. UNCHANGED <<met, latch, fly, virtualMET, toneSignalLatch, forced2Fly, prevTime1,
                  prevTime2, localSem, toneSem, pipe, saved, clock, phase, disturbed,
                  ticks, limit, calm, isSet>>
  BY DEF vars, reference, kept, verify, sems, used
<1>2. TypeOK'
  BY <1>1 DEF IInv, TypeOK
<1>3. OneAtATime' /\ InTime'
  BY <1>1 DEF IInv, OneAtATime, InTime, Pending, Following, Age
<1>4. TonesOK'
  BY <1>1 DEF IInv, TonesOK, Count, Pending
<1>5. METOK'
  BY <1>1 DEF IInv, METOK, Aligned, CurrentMET, TimeSinceTone
<1> QED
  BY <1>2, <1>3, <1>4, <1>5 DEF IInv

LEMMA Invariance == Spec => []IInv
<1>1. IInv /\ [Next]_vars => IInv'
  BY NextInv, StutterInv
<1> QED
  BY <1>1, InitInv, PTL DEF Spec

\* Every variable keeps its type; the latched readings of the local clock stay
\* below its roll-over (cfe_time_utils.h).
THEOREM TypesHold == Spec => []TypeOK
<1>1. IInv => TypeOK
  BY DEF IInv
<1> QED
  BY <1>1, Invariance, PTL

\* The MET never runs ahead of what it was set to, a second, and the time since:
\* no tone is counted twice, the second that a flight rounds off is never added,
\* and the roll-over of the local clock takes nothing but time away
\* (CFE_TIME_Tone1HzISR, CFE_TIME_ToneUpdate, CFE_TIME_Local1HzStateMachine).
THEOREM TheMETNeverRunsAhead == Spec => []NeverAhead
<1>1. IInv => NeverAhead
  BY NeverAheadHolds DEF IInv
<1> QED
  BY <1>1, Invariance, PTL

-----------------------------------------------------------------------------
(* The tone is found again                                                 *)

\* The tone is handled before the jitter it is allowed is used up, and the
\* platform lets one tone be late before it flies.
OneToneLate == ToneDelay < ToneLimit /\ StartFly >= 2

LEMMA TwoSeconds ==
  ASSUME StartFly >= 2
  PROVE  Second + Second < MaxLocal /\ Second + Second <= StartFly * Second
<1>1. StartFly \in Nat /\ LatchFly \in Nat /\ StartFly <= LatchFly /\ Second \in Nat /\ MaxLocal \in Nat
  BY Constants
<1>2. 2 * Second = Second + Second
  BY <1>1
<1>3. 2 * Second <= StartFly * Second
  BY <1>1, Products
<1>4. /\ StartFly * Second <= LatchFly * Second /\ LatchFly * Second < MaxLocal
      /\ StartFly * Second \in Nat /\ LatchFly * Second \in Nat
  BY <1>1, Products, Constants
<1> QED
  BY <1>1, <1>2, <1>3, <1>4

\* What TickChain says, and that no age below two seconds is rolled over.
LEMMA TickAges ==
  ASSUME IInv, Tick, StartFly >= 2
  PROVE  /\ \A x \in Readings : Age(x) \in Nat
         /\ \A x \in Readings : Age(x) < Second + Second => Since(x, clock') = Age(x) + 1
<1>1. TypeOK
  BY DEF IInv
<1>2. Second + Second < MaxLocal /\ Second \in Nat /\ MaxLocal \in Nat
  BY TwoSeconds, Constants
<1>3. \A x \in Readings : Age(x) \in 0 .. MaxLocal - 1
  BY <1>1, Ages DEF Readings
<1>4. \A x \in Readings : Since(x, clock') = IF Age(x) = MaxLocal - 1 THEN 0 ELSE Age(x) + 1
  BY <1>1, Ages
<1> QED
  BY <1>2, <1>3, <1>4

LEMMA States ==
  ASSUME IInv
  PROVE  /\ TypeOK /\ OneAtATime /\ InTime
         /\ phase \in 0 .. Second - 1 /\ calm \in 0 .. 4 /\ fly \in BOOLEAN
         /\ forced2Fly \in BOOLEAN
         /\ {latch, toneSignalLatch, prevTime1, prevTime2, clock} \subseteq Readings
         /\ \A x \in Readings : Age(x) \in Nat
         /\ Age(clock) = 0
         /\ Second \in Nat \ {0} /\ ToneDelay \in 0 .. Second - 1
         /\ ToneLimit \in 1 .. Second - 1 /\ MaxElapsed \in 0 .. Second - 1
<1>1. TypeOK /\ OneAtATime /\ InTime
  BY DEF IInv
<1>2. \A x \in Readings : Age(x) \in 0 .. MaxLocal - 1
  BY <1>1, Ages DEF Readings
<1>3. MaxLocal \in Nat
  BY Ranges
<1>4. \A x \in Readings : Age(x) \in Nat
  BY <1>2, <1>3
<1> QED
  BY <1>1, <1>4, Ages, Constants DEF TypeOK, Readings, CalmEnough

LEMMA ToneFoundInv ==
  ASSUME IInv, OneToneLate, ToneFound, Next
  PROVE  ToneFound'
<1>1. /\ TypeOK /\ OneAtATime /\ InTime /\ phase \in 0 .. Second - 1 /\ calm \in 0 .. 4
      /\ toneSignalLatch \in Readings /\ clock \in Readings
      /\ Age(toneSignalLatch) \in Nat /\ Age(clock) = 0
      /\ Second \in Nat \ {0} /\ ToneDelay \in 0 .. Second - 1
  BY States
<1>2. ASSUME UNCHANGED <<toneSignalLatch, clock, phase>>, calm' = calm, Pending' <=> Pending
      PROVE  ToneFound'
  BY <1>2 DEF ToneFound, Age
<1>3. ASSUME calm' = 0
      PROVE  ToneFound'
  BY <1>3 DEF ToneFound
<1>4. CASE Tick
  <2>1. toneSignalLatch' = toneSignalLatch
    BY <1>4 DEF Tick, kept
  <2>2. Age(toneSignalLatch)' = Since(toneSignalLatch, clock')
    BY <2>1 DEF Age
  <2>3. Age(toneSignalLatch) < Second + Second => Age(toneSignalLatch)' = Age(toneSignalLatch) + 1
    BY <1>1, <1>4, <2>2, TickAges DEF OneToneLate
  <2> QED
    BY <1>1, <1>4, <2>3, TickChain DEF ToneFound, CalmEnough
<1>5. CASE Local1HzTask
  <2>1. UNCHANGED <<toneSignalLatch, clock, phase>>
    BY <1>5 DEF Local1HzTask, kept
  <2> QED
    BY <1>1, <1>2, <1>3, <1>5, <2>1, Local1HzChain
<1>6. CASE Tone1HzTask
  <2>1. UNCHANGED <<toneSignalLatch, clock, phase>>
    BY <1>6 DEF Tone1HzTask, kept
  <2> QED
    BY <1>1, <1>2, <1>3, <1>6, <2>1, Tone1HzChain
<1>7. CASE OneHzCmd
  <2>1. toneSignalLatch' = clock /\ clock' = clock /\ phase' = phase /\ calm' = calm
    BY <1>7 DEF OneHzCmd
  <2>2. Age(toneSignalLatch)' = 0
    BY <1>1, <2>1 DEF Age
  <2>3. ~Pending' /\ phase <= ToneDelay
    BY <1>1, <1>7, OneHzChain DEF InTime
  <2> QED
    BY <1>1, <2>1, <2>2, <2>3 DEF ToneFound
<1>8. CASE ToneSendCmd
  <2>1. UNCHANGED <<toneSignalLatch, clock, phase>>
    BY <1>8 DEF ToneSendCmd, kept
  <2> QED
    BY <1>1, <1>2, <1>3, <1>8, <2>1, ToneSendChain
<1>9. CASE ToneDataCmd
  <2>1. UNCHANGED <<toneSignalLatch, clock, phase>> /\ calm' \in {calm, 0}
    BY <1>9 DEF ToneDataCmd
  <2> QED
    BY <1>1, <1>2, <1>3, <1>9, <2>1, ToneDataChain
<1>10. CASE SetStateFlywheel \/ SetStateOther \/ ProcessorReset
  BY <1>3, <1>10 DEF SetStateFlywheel, SetStateOther, ProcessorReset
<1>11. CASE SendHkCmd
  <2>1. UNCHANGED <<toneSignalLatch, calm>> /\ Commanded
    BY <1>11 DEF SendHkCmd, kept
  <2> QED
    BY <1>1, <1>2, <2>1, CommandedChain
<1>12. ASSUME NEW m \in METs, SetMET(m) PROVE ToneFound'
  <2>1. UNCHANGED <<toneSignalLatch, calm>> /\ Commanded
    BY <1>12 DEF SetMET
  <2> QED
    BY <1>1, <1>2, <2>1, CommandedChain
<1> QED
  BY <1>4, <1>5, <1>6, <1>7, <1>8, <1>9, <1>10, <1>11, <1>12 DEF Next

\* Once tones are found every one of them is good.
LEMMA FoundIsGood ==
  ASSUME IInv, OneToneLate, ToneFound, Pending, calm >= 2
  PROVE  ToneIsGood /\ Age(toneSignalLatch) >= 1
<1>1. /\ InTime /\ phase \in 0 .. Second - 1 /\ toneSignalLatch \in Readings
      /\ Age(toneSignalLatch) \in Nat /\ calm \in 0 .. 4
      /\ Second \in Nat \ {0} /\ ToneDelay \in 0 .. Second - 1 /\ ToneLimit \in 1 .. Second - 1
  BY States
<1>2. /\ phase + Second - ToneDelay <= Age(toneSignalLatch)
      /\ Age(toneSignalLatch) <= phase + Second
      /\ phase <= ToneDelay
  BY <1>1 DEF ToneFound, InTime
<1>3. /\ Second - ToneLimit < Age(toneSignalLatch)
      /\ Age(toneSignalLatch) < Second + ToneLimit
      /\ Age(toneSignalLatch) >= 1
  BY <1>1, <1>2 DEF OneToneLate
<1> QED
  BY <1>3 DEF ToneIsGood, Age

LEMMA PacketFoundInv ==
  ASSUME IInv, OneToneLate, ToneFound, PacketFound, Next
  PROVE  PacketFound'
<1>1. /\ TypeOK /\ OneAtATime /\ InTime /\ phase \in 0 .. Second - 1 /\ calm \in 0 .. 4
      /\ toneSignalLatch \in Readings /\ clock \in Readings /\ prevTime2 \in Readings
      /\ Age(toneSignalLatch) \in Nat /\ Age(prevTime2) \in Nat /\ Age(clock) = 0
      /\ Second \in Nat \ {0}
  BY States
<1>2. ASSUME UNCHANGED <<toneSignalLatch, prevTime1, prevTime2, clock, phase>>, calm' = calm,
             Pending' <=> Pending, Following' <=> Following
      PROVE  PacketFound'
  BY <1>2 DEF PacketFound, Idle, Age
<1>3. ASSUME calm' = 0
      PROVE  PacketFound'
  BY <1>3 DEF PacketFound
<1>4. CASE Tick
  <2>1. UNCHANGED <<toneSignalLatch, prevTime1, prevTime2>>
    BY <1>4 DEF Tick, kept, verify
  <2>2. Age(prevTime2)' = Since(prevTime2, clock')
    BY <2>1 DEF Age
  <2>3. Age(prevTime2) < Second + Second => Age(prevTime2)' = Age(prevTime2) + 1
    BY <1>1, <1>4, <2>2, TickAges DEF OneToneLate
  <2>4. CASE /\ phase' = phase + 1 /\ calm' = calm
             /\ Pending' <=> Pending
             /\ Following' <=> Following
    BY <1>1, <2>1, <2>3, <2>4 DEF PacketFound, Idle
  <2>5. CASE /\ phase' = 0 /\ phase = Second - 1
             /\ ~Pending /\ ~Following /\ Pending' /\ ~Following'
             /\ calm' = IF calm < CalmEnough THEN calm + 1 ELSE calm
    <3>1. calm' >= 3 => calm >= 2
      BY <1>1, <2>5 DEF CalmEnough
    <3> QED
      BY <1>1, <2>1, <2>3, <2>5, <3>1 DEF PacketFound, Idle
  <2> QED
    BY <1>1, <1>4, <2>4, <2>5, TickChain
<1>5. CASE Local1HzTask
  <2>1. UNCHANGED <<toneSignalLatch, prevTime1, prevTime2, clock, phase>>
    BY <1>5 DEF Local1HzTask, kept, verify
  <2> QED
    BY <1>1, <1>2, <1>3, <1>5, <2>1, Local1HzChain
<1>6. CASE Tone1HzTask
  <2>1. UNCHANGED <<toneSignalLatch, prevTime1, prevTime2, clock, phase>>
    BY <1>6 DEF Tone1HzTask, kept, verify
  <2> QED
    BY <1>1, <1>2, <1>3, <1>6, <2>1, Tone1HzChain
<1>7. CASE OneHzCmd
  <2>1. /\ toneSignalLatch' = clock /\ clock' = clock /\ phase' = phase /\ calm' = calm
        /\ UNCHANGED <<prevTime1, prevTime2>>
    BY <1>7 DEF OneHzCmd, verify
  <2>2. Pending /\ ~Pending' /\ (Following' <=> ToneIsGood)
    BY <1>1, <1>7, OneHzChain
  <2>3. calm' >= 2 => Following' /\ toneSignalLatch # clock
    BY <1>1, <2>1, <2>2, FoundIsGood
  <2>4. Age(prevTime2)' = Age(prevTime2)
    BY <2>1 DEF Age
  <2>5. calm' >= 2 => Following'
    BY <2>3
  <2>6. calm' >= 3 => /\ prevTime1' # toneSignalLatch'
                      /\ phase' + 1 <= Age(prevTime2)' /\ Age(prevTime2)' <= phase' + Second
    BY <1>1, <2>1, <2>2, <2>3, <2>4 DEF PacketFound, Idle
  <2> QED
    BY <1>1, <2>1, <2>2, <2>5, <2>6 DEF PacketFound, Idle
<1>8. CASE ToneSendCmd
  <2>1. UNCHANGED <<toneSignalLatch, prevTime1, prevTime2, clock, phase>>
    BY <1>8 DEF ToneSendCmd, kept, verify
  <2> QED
    BY <1>1, <1>2, <1>3, <1>8, <2>1, ToneSendChain
<1>9. CASE ToneDataCmd
  <2>1. /\ prevTime1' = toneSignalLatch /\ prevTime2' = clock
        /\ UNCHANGED <<toneSignalLatch, clock, phase>>
    BY <1>9 DEF ToneDataCmd
  <2>2. ~Pending' /\ ~Following'
    BY <1>1, <1>9, ToneDataChain
  <2>3. Age(prevTime2)' = 0
    BY <1>1, <2>1 DEF Age
  <2> QED
    BY <1>1, <2>1, <2>2, <2>3 DEF PacketFound, Idle
<1>10. CASE SetStateFlywheel \/ SetStateOther \/ ProcessorReset
  BY <1>3, <1>10 DEF SetStateFlywheel, SetStateOther, ProcessorReset
<1>11. CASE SendHkCmd
  <2>1. UNCHANGED <<toneSignalLatch, prevTime1, prevTime2, calm>> /\ Commanded
    BY <1>11 DEF SendHkCmd, Commanded, kept, verify
  <2> QED
    BY <1>1, <1>2, <2>1, CommandedChain
<1>12. ASSUME NEW m \in METs, SetMET(m) PROVE PacketFound'
  <2>1. UNCHANGED <<toneSignalLatch, prevTime1, prevTime2, calm>> /\ Commanded
    BY <1>12 DEF SetMET, Commanded, verify
  <2> QED
    BY <1>1, <1>2, <2>1, CommandedChain
<1> QED
  BY <1>4, <1>5, <1>6, <1>7, <1>8, <1>9, <1>10, <1>11, <1>12 DEF Next

\* Tone and packet are matched once both are found.
LEMMA FoundIsMatched ==
  ASSUME IInv, PacketFound, Following, calm >= 3, phase <= MaxElapsed
  PROVE  Matched
<1>1. /\ InTime /\ phase \in 0 .. Second - 1 /\ calm \in 0 .. 4
      /\ toneSignalLatch \in Readings /\ clock \in Readings /\ prevTime2 \in Readings
      /\ Age(toneSignalLatch) \in Nat /\ Age(prevTime2) \in Nat /\ Age(clock) = 0
      /\ MaxElapsed \in 0 .. Second - 1 /\ Second \in Nat \ {0}
  BY States
<1>2. prevTime1 # toneSignalLatch /\ phase + 1 <= Age(prevTime2)
  BY <1>1 DEF PacketFound, Idle
<1>3. prevTime2 # clock
  BY <1>1, <1>2
<1>4. Age(toneSignalLatch) <= MaxElapsed
  BY <1>1 DEF InTime
<1> QED
  BY <1>2, <1>3, <1>4 DEF Matched, Age

LEMMA UpdateFoundInv ==
  ASSUME IInv, OneToneLate, Found, Next
  PROVE  UpdateFound'
<1>1. /\ TypeOK /\ OneAtATime /\ InTime /\ phase \in 0 .. Second - 1 /\ calm \in 0 .. 4
      /\ toneSignalLatch \in Readings /\ clock \in Readings /\ latch \in Readings
      /\ Age(toneSignalLatch) \in Nat /\ Age(latch) \in Nat /\ Age(clock) = 0
      /\ Second \in Nat \ {0} /\ ToneDelay \in 0 .. Second - 1
  BY States
<1>2. ToneFound /\ PacketFound /\ UpdateFound
  BY DEF Found
<1>3. ASSUME UNCHANGED <<latch, fly, forced2Fly, clock, phase>>, calm' = calm,
             Pending' <=> Pending, Following' <=> Following
      PROVE  UpdateFound'
  BY <1>2, <1>3 DEF UpdateFound, Idle, Age
<1>4. ASSUME calm' = 0
      PROVE  UpdateFound'
  BY <1>4 DEF UpdateFound
<1>5. CASE Tick
  <2>1. UNCHANGED <<latch, fly, forced2Fly>>
    BY <1>5 DEF Tick, reference, kept
  <2>2. Age(latch)' = Since(latch, clock')
    BY <2>1 DEF Age
  <2>3. Age(latch) < Second + Second => Age(latch)' = Age(latch) + 1
    BY <1>1, <1>5, <2>2, TickAges DEF OneToneLate
  <2>4. CASE /\ phase' = phase + 1 /\ calm' = calm
             /\ Pending' <=> Pending
             /\ Following' <=> Following
    BY <1>1, <1>2, <2>1, <2>3, <2>4 DEF UpdateFound, Idle
  <2>5. CASE /\ phase' = 0 /\ phase = Second - 1
             /\ ~Pending /\ ~Following /\ Pending' /\ ~Following'
             /\ calm' = IF calm < CalmEnough THEN calm + 1 ELSE calm
    <3>1. calm' >= 4 => calm >= 3
      BY <1>1, <2>5 DEF CalmEnough
    <3> QED
      BY <1>1, <1>2, <2>1, <2>3, <2>5, <3>1 DEF UpdateFound, Idle
  <2> QED
    BY <1>1, <1>5, <2>4, <2>5, TickChain
<1>6. CASE Local1HzTask
  <2>1. UNCHANGED <<latch, fly, forced2Fly, clock, phase>>
    BY <1>6 DEF Local1HzTask, reference, kept
  <2> QED
    BY <1>1, <1>3, <1>4, <1>6, <2>1, Local1HzChain
<1>7. CASE Tone1HzTask
  <2>1. UNCHANGED <<latch, fly, forced2Fly, clock, phase>>
    BY <1>7 DEF Tone1HzTask, reference, kept
  <2> QED
    BY <1>1, <1>3, <1>4, <1>7, <2>1, Tone1HzChain
<1>8. CASE OneHzCmd
  <2>1. UNCHANGED <<forced2Fly, clock, phase, calm>> /\ StateMachine
    BY <1>8 DEF OneHzCmd
  <2>2. Pending /\ ~Pending' /\ (Following' <=> ToneIsGood)
    BY <1>1, <1>8, OneHzChain
  <2>3. calm >= 2 => Following'
    BY <1>2, <2>2, FoundIsGood
  <2>4. ASSUME calm >= 4, ~forced2Fly
        PROVE  ~fly'
    <3>1. ~fly /\ Age(latch) <= phase + Second /\ phase <= ToneDelay
      BY <1>1, <1>2, <2>2, <2>4 DEF UpdateFound, Idle, InTime
    <3>2. Second + Second <= StartFly * Second /\ StartFly * Second \in Nat /\ StartFly \in Nat
      BY TwoSeconds, Products, Constants DEF OneToneLate
    <3>3. TimeSinceTone = Age(latch)
      BY DEF TimeSinceTone, Age
    <3>4. TimeSinceTone \in Nat /\ ~(TimeSinceTone >= StartFly * Second)
      BY <1>1, <3>1, <3>2, <3>3
    <3>5. ~(WholeSeconds(TimeSinceTone) >= StartFly)
      BY <3>2, <3>4, WholeAtLeast
    <3> QED
      BY <2>1, <3>1, <3>5 DEF StateMachine
  <2> QED
    BY <1>1, <2>1, <2>2, <2>3, <2>4 DEF UpdateFound, Idle
<1>9. CASE ToneSendCmd
  <2>1. UNCHANGED <<latch, fly, forced2Fly, clock, phase>>
    BY <1>9 DEF ToneSendCmd, reference, kept
  <2> QED
    BY <1>1, <1>3, <1>4, <1>9, <2>1, ToneSendChain
<1>10. CASE ToneDataCmd
  <2>1. /\ UNCHANGED <<toneSignalLatch, forced2Fly, clock, phase>>
        /\ calm' = IF phase <= MaxElapsed THEN calm ELSE 0
    BY <1>10 DEF ToneDataCmd
  <2>2. Following /\ ~Pending' /\ ~Following'
    BY <1>1, <1>10, ToneDataChain
  <2>3. ASSUME calm' >= 3, ~forced2Fly
        PROVE  ~fly' /\ Age(latch)' <= phase'
    <3>1. phase <= MaxElapsed /\ calm >= 3
      BY <1>1, <2>1, <2>3
    <3>2. Matched
      BY <1>2, <2>2, <3>1, FoundIsMatched
    <3>3. ~fly' /\ latch' = toneSignalLatch
      BY <1>10, <2>3, <3>2 DEF ToneDataCmd, ToneUpdate
    <3>4. Age(latch)' = Age(toneSignalLatch)
      BY <2>1, <3>3 DEF Age
    <3> QED
      BY <1>1, <2>1, <2>2, <3>3, <3>4 DEF InTime
  <2> QED
    BY <1>1, <2>1, <2>2, <2>3 DEF UpdateFound, Idle
<1>11. CASE SetStateFlywheel \/ SetStateOther \/ ProcessorReset
  BY <1>4, <1>11 DEF SetStateFlywheel, SetStateOther, ProcessorReset
<1>12. CASE SendHkCmd
  <2>1. UNCHANGED <<latch, fly, forced2Fly, calm>> /\ Commanded
    BY <1>12 DEF SendHkCmd, reference, kept
  <2> QED
    BY <1>1, <1>3, <2>1, CommandedChain
<1>13. ASSUME NEW m \in METs, SetMET(m) PROVE UpdateFound'
  <2>1. UNCHANGED <<fly, forced2Fly, calm>> /\ latch' = clock /\ Commanded
    BY <1>13 DEF SetMET
  <2>2. clock' = clock /\ phase' = phase /\ (Pending' <=> Pending) /\ (Following' <=> Following)
    BY <1>1, <2>1, CommandedChain
  <2>3. Age(latch)' = 0
    BY <1>1, <2>1, <2>2 DEF Age
  <2> QED
    BY <1>1, <1>2, <2>1, <2>2, <2>3 DEF UpdateFound, Idle
<1> QED
  BY <1>5, <1>6, <1>7, <1>8, <1>9, <1>10, <1>11, <1>12, <1>13 DEF Next

\* When the 1 Hz message is handled within the jitter a tone is allowed, and one
\* tone may be late before the server flies, the flywheel is left: some seconds
\* without a loss, a late packet, a command or a reset suffice, wherever the
\* local clock rolls over (CFE_TIME_ToneVerify, CFE_TIME_ToneUpdate).
THEOREM TheToneIsFoundAgain == OneToneLate => (Spec => []Recovers)
<1> SUFFICES ASSUME OneToneLate PROVE Spec => []Recovers
  OBVIOUS
<1> DEFINE Inv == IInv /\ Found
<1>1. Init => Inv
  <2>1. Init => Found
    BY DEF Init, Found, ToneFound, PacketFound, UpdateFound
  <2> QED
    BY <2>1, InitInv
<1>2. Inv /\ [Next]_vars => Inv'
  <2>1. ASSUME Inv, Next
        PROVE  Inv'
    BY <2>1, NextInv, ToneFoundInv, PacketFoundInv, UpdateFoundInv DEF Found
  <2>2. ASSUME Inv, UNCHANGED vars
        PROVE  Inv'
    <3>1. UNCHANGED <<latch, fly, toneSignalLatch, forced2Fly, prevTime1, prevTime2, localSem,
                      toneSem, pipe, clock, phase, calm>>
      BY <2>2 DEF vars, reference, kept, verify, sems
    <3>2. Found'
      BY <2>2, <3>1 DEF Found, ToneFound, PacketFound, UpdateFound, Idle, Pending, Following, Age
    <3> QED
      BY <2>2, <3>2, StutterInv
  <2> QED
    BY <2>1, <2>2
<1>3. Inv => Recovers
  BY States DEF Found, UpdateFound, Recovers, CalmEnough
<1> HIDE DEF Inv
<1> QED
  BY <1>1, <1>2, <1>3, PTL DEF Spec

-----------------------------------------------------------------------------
(* The MET goes back little                                                *)

\* At most one tone is missed before the server flies, the flight is latched
\* later than it begins, and before the local clock has gone round.
FliesSoon ==
  /\ ToneDelay < ToneLimit
  /\ StartFly <= 2 /\ StartFly < LatchFly
  /\ (LatchFly + 2 + MaxDisturbances) * Second <= MaxLocal

LEMMA FewSeconds ==
  /\ StartFly \in Nat /\ LatchFly \in Nat /\ MaxDisturbances \in Nat /\ MaxLocal \in Nat
  /\ Second \in Nat \ {0} /\ ToneDelay \in 0 .. Second - 1 /\ ToneLimit \in 1 .. Second - 1
  /\ StartFly <= 2 => StartFly * Second <= Second + Second
  /\ StartFly * Second \in Nat /\ LatchFly * Second \in Nat
<1>1. StartFly \in Nat /\ LatchFly \in Nat /\ Second \in Nat
  BY Constants
<1>2. 2 * Second = Second + Second
  BY <1>1
<1>3. StartFly <= 2 => StartFly * Second <= 2 * Second
  BY <1>1, Products
<1> QED
  BY <1>1, <1>2, <1>3, Products, Constants

\* The length of a flight, in units.
Flight == Longest * Second

LEMMA FlightType ==
  ASSUME TypeOK
  PROVE  Longest \in Nat /\ Flight \in Nat
<1>1. Longest \in Nat
  BY Constants DEF TypeOK, Longest
<1> QED
  BY <1>1, Products DEF Flight

LEMMA FlightBound ==
  ASSUME TypeOK, FliesSoon
  PROVE  Flight + Second + (IF Pending THEN 0 ELSE Second) <= MaxLocal
<1>1. /\ Longest \in Nat /\ LatchFly \in Nat /\ MaxDisturbances \in Nat /\ Second \in Nat
      /\ StartFly \in Nat /\ MaxLocal \in Nat /\ disturbed \in 0 .. MaxDisturbances
      /\ fly \in BOOLEAN /\ StartFly <= LatchFly
  BY FlightType, Constants DEF TypeOK
<1>2. Longest + (IF Pending THEN 1 ELSE 2) <= LatchFly + 2 + MaxDisturbances
  BY <1>1 DEF Longest
<1>3. (LatchFly + 2 + MaxDisturbances) * Second <= MaxLocal
  BY DEF FliesSoon
<1>4. LatchFly + 2 + MaxDisturbances \in Nat
  BY <1>1
<1>5. (LatchFly + 2 + MaxDisturbances) * Second \in Nat
  BY <1>4, Products
<1>6. /\ (Longest + 1) * Second = Flight + Second
      /\ (Longest + 2) * Second = Flight + Second + Second
      /\ Flight \in Nat /\ Longest + 1 \in Nat /\ Longest + 2 \in Nat
  BY <1>1, FlightType DEF Flight
<1>7. CASE Pending
  <2>1. (Longest + 1) * Second <= (LatchFly + 2 + MaxDisturbances) * Second
    BY <1>2, <1>4, <1>6, <1>7, Products
  <2>2. Flight + Second <= MaxLocal
    <3> DEFINE most == (LatchFly + 2 + MaxDisturbances) * Second
    <3>1. most \in Nat /\ most <= MaxLocal /\ (Longest + 1) * Second <= most
      BY <1>3, <1>5, <2>1
    <3>2. Flight + Second <= most
      BY <1>6, <3>1
    <3> HIDE DEF most
    <3> QED
      BY <1>1, <1>6, <3>1, <3>2
  <2>3. Flight + Second + 0 <= MaxLocal
    BY <1>1, <1>6, <2>2
  <2> QED
    BY <1>7, <2>3
<1>8. CASE ~Pending
  <2>1. (Longest + 2) * Second <= (LatchFly + 2 + MaxDisturbances) * Second
    BY <1>2, <1>4, <1>6, <1>8, Products
  <2>2. Flight + Second + Second <= MaxLocal
    <3> DEFINE most == (LatchFly + 2 + MaxDisturbances) * Second
    <3>1. most \in Nat /\ most <= MaxLocal /\ (Longest + 2) * Second <= most
      BY <1>3, <1>5, <2>1
    <3>2. Flight + Second + Second <= most
      BY <1>6, <3>1
    <3> HIDE DEF most
    <3> QED
      BY <1>1, <1>6, <3>1, <3>2
  <2> QED
    BY <1>8, <2>2
<1> QED
  BY <1>7, <1>8

\* The step of time never makes the age of the latched time start again.
LEMMA NoRollTick ==
  ASSUME IInv, FliesSoon, NoRoll, Tick
  PROVE  Since(latch, clock') = Age(latch) + 1
<1>1. /\ TypeOK /\ OneAtATime /\ latch \in Readings /\ Age(latch) \in Nat
      /\ phase \in 0 .. Second - 1 /\ Second \in Nat \ {0}
  BY States
<1>2. Age(latch) <= Flight + phase /\ Flight \in Nat /\ MaxLocal \in Nat
  BY <1>1, FlightType, Constants DEF NoRoll, Flight
<1>3. Flight + Second + (IF Pending THEN 0 ELSE Second) <= MaxLocal
  BY <1>1, FlightBound
<1>4. Age(latch) # MaxLocal - 1
  <2>1. CASE Pending
    <3>1. phase < ToneDelay /\ ToneDelay \in 0 .. Second - 1
      BY <1>1, <2>1, TickChain, Constants
    <3> QED
      BY <1>1, <1>2, <1>3, <2>1, <3>1
  <2>2. CASE ~Pending
    BY <1>1, <1>2, <1>3, <2>2
  <2> QED
    BY <2>1, <2>2
<1> QED
  BY <1>1, <1>4, Ages

LEMMA NoRollInv ==
  ASSUME IInv, FliesSoon, NoRoll, Next
  PROVE  NoRoll'
<1>1. /\ TypeOK /\ OneAtATime /\ InTime /\ latch \in Readings /\ clock \in Readings
      /\ toneSignalLatch \in Readings /\ Age(latch) \in Nat /\ Age(clock) = 0
      /\ Age(toneSignalLatch) \in Nat
      /\ phase \in 0 .. Second - 1 /\ Second \in Nat \ {0} /\ fly \in BOOLEAN
      /\ disturbed \in Nat
  BY States DEF TypeOK
<1>2. /\ Longest \in Nat /\ Flight \in Nat /\ Age(latch) <= Flight + phase
  BY <1>1, FlightType DEF NoRoll, Flight
<1>3. /\ Longest' \in Nat /\ Flight' \in Nat /\ phase' \in Nat
  <2>1. TypeOK'
    BY <1>1, TypeInv
  <2>2. \A n \in Nat : n * Second \in Nat
    BY Products
  <2>3. disturbed' \in 0 .. MaxDisturbances /\ phase' \in 0 .. Second - 1
    BY <2>1 DEF TypeOK
  <2>4. disturbed' \in Nat /\ phase' \in Nat
    BY <1>1, <2>3, FewSeconds
  <2>5. (IF fly' THEN LatchFly ELSE StartFly) \in Nat /\ (IF Pending' THEN 1 ELSE 0) \in Nat
    BY FewSeconds
  <2>6. Longest' \in Nat
    BY <2>4, <2>5 DEF Longest
  <2>7. Flight' = Longest' * Second
    BY DEF Flight
  <2> QED
    BY <2>2, <2>4, <2>6, <2>7
<1>4. ASSUME Age(latch)' <= Flight' + phase'
      PROVE  NoRoll'
  BY <1>4 DEF NoRoll, Flight
<1>5. ASSUME UNCHANGED <<latch, clock, phase>>, Longest' >= Longest
      PROVE  NoRoll'
  <2>1. Longest * Second <= Longest' * Second
    BY <1>2, <1>3, <1>5, Products
  <2>2. Flight <= Flight'
    BY <2>1 DEF Flight
  <2>3. Age(latch)' = Age(latch)
    BY <1>5 DEF Age
  <2>4. Age(latch)' <= Flight' + phase'
    BY <1>1, <1>2, <1>3, <1>5, <2>2, <2>3
  <2> QED
    BY <1>4, <2>4
<1>6. ASSUME Age(latch)' = 0
      PROVE  NoRoll'
  <2>1. \A f, p \in Nat : 0 <= f + p
    OBVIOUS
  <2>2. 0 <= Flight' + phase'
    BY <1>3, <2>1
  <2>3. Age(latch)' <= Flight' + phase'
    BY <1>6, <2>2
  <2> QED
    BY <1>4, <2>3
<1>7. CASE Tick
  <2>1. UNCHANGED <<latch, fly, disturbed>>
    BY <1>7 DEF Tick, reference
  <2>2. Age(latch)' = Age(latch) + 1
    BY <1>7, <2>1, NoRollTick DEF Age
  <2>3. CASE phase' = phase + 1 /\ (Pending' <=> Pending)
    <3>1. Longest' = Longest
      BY <2>1, <2>3 DEF Longest
    <3>2. Flight' = Flight
      BY <3>1 DEF Flight
    <3> QED
      BY <1>1, <1>2, <1>4, <2>2, <2>3, <3>2
  <2>4. CASE phase' = 0 /\ phase = Second - 1 /\ ~Pending /\ Pending'
    <3>1. Longest' = Longest + 1
      BY <1>1, <2>1, <2>4, FewSeconds DEF Longest
    <3>2. Flight' = Flight + Second
      <4>1. (Longest + 1) * Second = Longest * Second + Second
        BY <1>1, <1>2
      <4>2. Flight' = (Longest + 1) * Second
        BY <3>1 DEF Flight
      <4> QED
        BY <4>1, <4>2 DEF Flight
    <3>3. Age(latch)' <= Flight' + phase'
      BY <1>1, <1>2, <2>2, <2>4, <3>2
    <3> QED
      BY <1>4, <3>3
  <2> QED
    BY <1>1, <1>7, <2>3, <2>4, TickChain
<1>8. CASE Local1HzTask
  <2>1. UNCHANGED <<latch, fly, clock, phase>>
    BY <1>8 DEF Local1HzTask, reference
  <2>2. Longest' >= Longest
    BY <1>1, <1>8, <2>1, Local1HzChain, FewSeconds DEF Longest
  <2> QED
    BY <1>5, <2>1, <2>2
<1>9. CASE Tone1HzTask
  <2>1. UNCHANGED <<latch, fly, clock, phase>>
    BY <1>9 DEF Tone1HzTask, reference
  <2>2. Longest' >= Longest
    BY <1>1, <1>9, <2>1, Tone1HzChain, FewSeconds DEF Longest
  <2> QED
    BY <1>5, <2>1, <2>2
<1>10. CASE OneHzCmd
  <2>1. UNCHANGED <<clock, phase, disturbed>> /\ StateMachine /\ Pending /\ ~Pending'
    BY <1>1, <1>10, OneHzChain DEF OneHzCmd, used
  <2>2. TimeSinceTone = Age(latch)
    BY DEF TimeSinceTone, Age
  <2>3. ASSUME Age(latch)' = Age(latch), NEW n \in Nat, Age(latch) < n * Second, n <= Longest'
        PROVE  NoRoll'
    <3>1. n * Second <= Longest' * Second /\ n * Second \in Nat
      BY <1>3, <2>3, Products
    <3>2. n * Second <= Flight'
      BY <3>1 DEF Flight
    <3> QED
      BY <1>1, <1>3, <1>4, <2>3, <3>1, <3>2
  <2>4. CASE fly /\ WholeSeconds(TimeSinceTone) >= LatchFly
    <3>1. latch' = clock
      BY <2>1, <2>4 DEF StateMachine
    <3>2. Age(latch)' = 0
      BY <1>1, <2>1, <3>1 DEF Age
    <3> QED
      BY <1>6, <3>2
  <2>5. CASE ~(fly /\ WholeSeconds(TimeSinceTone) >= LatchFly)
    <3>1. latch' = latch /\ fly' = (fly \/ WholeSeconds(TimeSinceTone) >= StartFly)
      BY <2>1, <2>5 DEF StateMachine
    <3>2. Age(latch)' = Age(latch)
      BY <2>1, <3>1 DEF Age
    <3>3. /\ WholeSeconds(Age(latch)) >= LatchFly <=> Age(latch) >= LatchFly * Second
          /\ WholeSeconds(Age(latch)) >= StartFly <=> Age(latch) >= StartFly * Second
          /\ LatchFly * Second \in Nat /\ StartFly * Second \in Nat
      BY <1>1, WholeAtLeast, FewSeconds
    <3>4. CASE fly
      <4>1. Age(latch) < LatchFly * Second
        BY <1>1, <2>2, <2>5, <3>3, <3>4
      <4>2. fly'
        BY <3>1, <3>4
      <4>3. Longest' = LatchFly + disturbed + 0
        BY <2>1, <4>2 DEF Longest
      <4>4. LatchFly <= Longest' /\ LatchFly \in Nat
        BY <1>1, <4>3, FewSeconds
      <4> QED
        BY <2>3, <3>2, <4>1, <4>4
    <3>5. CASE ~fly /\ WholeSeconds(TimeSinceTone) >= StartFly
      <4>1. fly'
        BY <3>1, <3>5
      <4>2. Longest' = LatchFly + disturbed + 0
        BY <2>1, <4>1 DEF Longest
      <4>3. Longest = StartFly + disturbed + 1
        BY <2>1, <3>5 DEF Longest
      <4>4. Longest' >= Longest
        BY <1>1, <4>2, <4>3, FewSeconds DEF FliesSoon
      <4> QED
        BY <1>5, <2>1, <3>1, <4>4
    <3>6. CASE ~fly /\ ~(WholeSeconds(TimeSinceTone) >= StartFly)
      <4>1. Age(latch) < StartFly * Second
        BY <1>1, <2>2, <3>3, <3>6
      <4>2. ~fly'
        BY <3>1, <3>6
      <4>3. Longest' = StartFly + disturbed + 0
        BY <2>1, <4>2 DEF Longest
      <4>4. StartFly <= Longest' /\ StartFly \in Nat
        BY <1>1, <4>3, FewSeconds
      <4> QED
        BY <2>3, <3>2, <4>1, <4>4
    <3> QED
      BY <3>4, <3>5, <3>6
  <2> QED
    BY <2>4, <2>5
<1>11. CASE ToneSendCmd
  <2>1. UNCHANGED <<latch, fly, clock, phase>>
    BY <1>11 DEF ToneSendCmd, reference
  <2>2. Longest' >= Longest
    BY <1>1, <1>11, <2>1, ToneSendChain, FewSeconds DEF Longest
  <2> QED
    BY <1>5, <2>1, <2>2
<1>12. CASE ToneDataCmd
  <2>1. UNCHANGED <<clock, phase, disturbed>> /\ ~Pending /\ ~Pending' /\ Following
    BY <1>1, <1>12, ToneDataChain DEF ToneDataCmd, used
  <2>2. CASE latch' = toneSignalLatch
    <3>1. Age(latch)' = Age(toneSignalLatch)
      BY <2>1, <2>2 DEF Age
    <3>2. Age(latch)' <= Flight' + phase'
      BY <1>1, <1>3, <2>1, <3>1 DEF InTime
    <3> QED
      BY <1>4, <3>2
  <2>3. CASE UNCHANGED reference
    <3>1. latch' = latch /\ fly' = fly
      BY <2>3 DEF reference
    <3>2. Longest' = Longest
      BY <2>1, <3>1 DEF Longest
    <3> QED
      BY <1>2, <1>5, <2>1, <3>1, <3>2
  <2> QED
    BY <1>12, <2>2, <2>3 DEF ToneDataCmd, ToneUpdate
<1>13. CASE SetStateFlywheel
  <2>1. latch' = latch /\ fly' = TRUE /\ Commanded
    BY <1>13 DEF SetStateFlywheel
  <2>2. clock' = clock /\ phase' = phase /\ disturbed' = disturbed + 1 /\ (Pending' <=> Pending)
    BY <1>1, <2>1, CommandedChain
  <2>3. Longest' >= Longest
    BY <1>1, <2>1, <2>2, FewSeconds DEF Longest, FliesSoon
  <2> QED
    BY <1>5, <2>1, <2>2, <2>3
<1>14. CASE SetStateOther \/ SendHkCmd
  <2>1. latch' = latch /\ fly' = fly /\ Commanded
    BY <1>14 DEF SetStateOther, SendHkCmd, reference
  <2>2. clock' = clock /\ phase' = phase /\ disturbed' = disturbed + 1 /\ (Pending' <=> Pending)
    BY <1>1, <2>1, CommandedChain
  <2>3. Longest' >= Longest
    BY <1>1, <2>1, <2>2, FewSeconds DEF Longest
  <2> QED
    BY <1>5, <2>1, <2>2, <2>3
<1>15. CASE ProcessorReset
  <2>1. latch' = clock /\ clock' = clock
    BY <1>15 DEF ProcessorReset, Boot
  <2>2. Age(latch)' = 0
    BY <1>1, <2>1 DEF Age
  <2> QED
    BY <1>6, <2>2
<1>16. ASSUME NEW m \in METs, SetMET(m) PROVE NoRoll'
  <2>1. latch' = clock /\ clock' = clock
    BY <1>16 DEF SetMET, Commanded
  <2>2. Age(latch)' = 0
    BY <1>1, <2>1 DEF Age
  <2> QED
    BY <1>6, <2>2
<1> QED
  BY <1>7, <1>8, <1>9, <1>10, <1>11, <1>12, <1>13, <1>14, <1>15, <1>16 DEF Next

LEMMA ToneSpacedInv ==
  ASSUME IInv, ToneSpaced, Next
  PROVE  ToneSpaced'
<1>1. /\ TypeOK /\ OneAtATime /\ InTime /\ phase \in 0 .. Second - 1
      /\ toneSignalLatch \in Readings /\ Age(toneSignalLatch) \in Nat /\ Age(clock) = 0
      /\ Second \in Nat \ {0} /\ ToneDelay \in 0 .. Second - 1 /\ MaxLocal \in Nat
      /\ Second < MaxLocal
  BY States, Ranges
<1>2. ASSUME UNCHANGED <<toneSignalLatch, clock, phase>>, Following' => Following
      PROVE  ToneSpaced'
  BY <1>2 DEF ToneSpaced, Age
<1>3. ASSUME ~Following'
      PROVE  ToneSpaced'
  BY <1>3 DEF ToneSpaced
<1>4. CASE Tick
  <2>1. Age(toneSignalLatch)' = Since(toneSignalLatch, clock')
    BY <1>4 DEF Tick, kept, Age
  <2>2. CASE phase' = phase + 1 /\ (Following' <=> Following)
    <3>1. Following => Age(toneSignalLatch) <= phase
      BY <1>1 DEF InTime
    <3>2. Following => Age(toneSignalLatch)' = Age(toneSignalLatch) + 1
      BY <1>1, <1>4, <2>1, <3>1, Ages
    <3> QED
      BY <1>1, <2>2, <3>2 DEF ToneSpaced
  <2> QED
    BY <1>1, <1>3, <1>4, <2>2, TickChain
<1>5. CASE Local1HzTask
  BY <1>1, <1>3, <1>5, Local1HzChain
<1>6. CASE Tone1HzTask
  BY <1>1, <1>2, <1>6, Tone1HzChain DEF Tone1HzTask, kept
<1>7. CASE OneHzCmd
  <2>1. toneSignalLatch' = clock /\ clock' = clock /\ phase' = phase
    BY <1>7 DEF OneHzCmd
  <2>2. Age(toneSignalLatch)' = 0 /\ phase <= ToneDelay
    BY <1>1, <1>7, <2>1, OneHzChain DEF Age, InTime
  <2> QED
    BY <1>1, <2>1, <2>2 DEF ToneSpaced
<1>8. CASE ToneSendCmd
  BY <1>1, <1>2, <1>8, ToneSendChain DEF ToneSendCmd, kept
<1>9. CASE ToneDataCmd
  BY <1>1, <1>3, <1>9, ToneDataChain
<1>10. CASE SetStateFlywheel \/ SetStateOther \/ SendHkCmd
  <2>1. toneSignalLatch' = toneSignalLatch /\ Commanded
    BY <1>10 DEF SetStateFlywheel, SetStateOther, SendHkCmd, kept
  <2> QED
    BY <1>1, <1>2, <2>1, CommandedChain
<1>11. CASE ProcessorReset
  BY <1>3, <1>11, ResetChain
<1>12. ASSUME NEW m \in METs, SetMET(m) PROVE ToneSpaced'
  <2>1. toneSignalLatch' = toneSignalLatch /\ Commanded
    BY <1>12 DEF SetMET
  <2> QED
    BY <1>1, <1>2, <2>1, CommandedChain
<1> QED
  BY <1>4, <1>5, <1>6, <1>7, <1>8, <1>9, <1>10, <1>11, <1>12 DEF Next

\* A server that does not fly had its update less than two seconds ago.
LEMMA NotFlying ==
  ASSUME IInv, FliesSoon, StateMachine, ~fly'
  PROVE  ~fly /\ Age(latch) < Second + Second /\ UNCHANGED <<met, latch>>
<1>1. Age(latch) \in Nat /\ fly \in BOOLEAN
  BY States
<1>2. ~fly /\ ~(WholeSeconds(TimeSinceTone) >= StartFly) /\ UNCHANGED <<met, latch>>
  BY DEF StateMachine
<1>3. TimeSinceTone = Age(latch)
  BY DEF TimeSinceTone, Age
<1>4. /\ StartFly \in Nat /\ StartFly * Second <= Second + Second /\ StartFly * Second \in Nat
      /\ Second \in Nat
  BY FewSeconds DEF FliesSoon
<1>5. ~(Age(latch) >= StartFly * Second)
  BY <1>1, <1>2, <1>3, <1>4, WholeAtLeast
<1>6. Age(latch) < StartFly * Second
  BY <1>1, <1>4, <1>5
<1>7. Age(latch) < Second + Second
  <2> DEFINE most == StartFly * Second
  <2>1. most \in Nat /\ most <= Second + Second /\ Age(latch) < most
    BY <1>4, <1>6
  <2> HIDE DEF most
  <2> QED
    BY <1>1, <1>4, <2>1
<1> QED
  BY <1>2, <1>7

\* What one tone does to the count.
LEMMA CountTone ==
  ASSUME TypeOK, OneHzCmd
  PROVE  Count \in Nat /\ Count' = IF ToneIsGood THEN Count + Second ELSE Count
<1>1. virtualMET \in Nat /\ Second \in Nat
  BY Constants DEF TypeOK
<1>2. Count \in Nat
  BY <1>1, Products DEF Count
<1>3. CASE ToneIsGood
  <2>1. virtualMET' = virtualMET + 1
    BY <1>3 DEF OneHzCmd
  <2>2. (virtualMET + 1) * Second = virtualMET * Second + Second
    BY <1>1
  <2>3. Count' = (virtualMET + 1) * Second
    BY <2>1 DEF Count
  <2> QED
    BY <1>2, <1>3, <2>2, <2>3 DEF Count
<1>4. CASE ~ToneIsGood
  BY <1>2, <1>4 DEF OneHzCmd, Count
<1> QED
  BY <1>2, <1>3, <1>4

LEMMA SetCountedInv ==
  ASSUME IInv, FliesSoon, NoRoll, SetCounted, Next
  PROVE  SetCounted'
<1>1. /\ TypeOK /\ OneAtATime /\ InTime /\ latch \in Readings /\ toneSignalLatch \in Readings
      /\ clock \in Readings /\ Age(latch) \in Nat /\ Age(toneSignalLatch) \in Nat
      /\ Age(clock) = 0 /\ phase \in 0 .. Second - 1 /\ Second \in Nat \ {0}
      /\ MaxLocal \in Nat /\ Second < MaxLocal
      /\ 2 * Second = Second + Second
  BY States, Ranges
<1>2. met \in Nat /\ Count \in Nat /\ fly \in BOOLEAN /\ isSet \in BOOLEAN
  BY <1>1, Products DEF TypeOK, Count
<1>3. ASSUME UNCHANGED <<met, latch, toneSignalLatch, virtualMET, clock>>,
             ~fly' => ~fly, isSet' => isSet, Following' => Following
      PROVE  SetCounted'
  BY <1>3 DEF SetCounted, SinceUpdate, Count, Age
<1>4. ASSUME fly' \/ ~isSet'
      PROVE  SetCounted'
  BY <1>4 DEF SetCounted
<1>5. CASE Tick
  <2>1. UNCHANGED <<met, latch, fly, isSet, toneSignalLatch, virtualMET>>
    BY <1>5 DEF Tick, reference, kept
  <2>2. Count' = Count
    BY <2>1 DEF Count
  <2>3. ASSUME Following'
        PROVE  Following /\ SinceUpdate' = SinceUpdate
    <3>1. Following /\ Age(toneSignalLatch) <= phase
      BY <1>1, <1>5, <2>3, TickChain DEF InTime
    <3>2. Age(toneSignalLatch)' = Age(toneSignalLatch) + 1
      BY <1>1, <1>5, <2>1, <3>1, Ages DEF Age
    <3>3. Age(latch)' = Age(latch) + 1
      BY <1>5, <2>1, NoRollTick DEF Age
    <3> QED
      BY <1>1, <3>1, <3>2, <3>3 DEF SinceUpdate
  <2> QED
    BY <2>1, <2>2, <2>3 DEF SetCounted
<1>6. CASE Local1HzTask
  BY <1>1, <1>3, <1>6, Local1HzChain DEF Local1HzTask, reference, kept
<1>7. CASE Tone1HzTask
  BY <1>1, <1>3, <1>7, Tone1HzChain DEF Tone1HzTask, reference, kept
<1>8. CASE OneHzCmd
  <2> SUFFICES ASSUME ~fly', isSet'
               PROVE  SetCounted'
    BY <1>4
  <2>1. /\ StateMachine /\ toneSignalLatch' = clock /\ clock' = clock /\ isSet' = isSet
        /\ Following' <=> ToneIsGood
    BY <1>1, <1>8, OneHzChain DEF OneHzCmd
  <2>2. ~fly /\ Age(latch) < Second + Second /\ met' = met /\ latch' = latch
    BY <2>1, NotFlying
  <2>3. met < Count + Second
    BY <2>1, <2>2 DEF SetCounted
  <2>4. Count' = IF ToneIsGood THEN Count + Second ELSE Count
    BY <1>1, <1>8, CountTone
  <2>5. SinceUpdate' = Age(latch)
    <3>1. Age(latch)' = Age(latch) /\ Age(toneSignalLatch)' = 0
      BY <1>1, <2>1, <2>2 DEF Age
    <3> QED
      BY <1>1, <3>1 DEF SinceUpdate
  <2>6. met' < Count' + Second
    BY <1>1, <1>2, <2>2, <2>3, <2>4
  <2>7. Following' => met' + SinceUpdate' < Count' + 2 * Second
    BY <1>1, <1>2, <2>1, <2>2, <2>3, <2>4, <2>5
  <2> QED
    BY <2>6, <2>7 DEF SetCounted
<1>9. CASE ToneSendCmd
  BY <1>1, <1>3, <1>9, ToneSendChain DEF ToneSendCmd, reference, kept
<1>10. CASE ToneDataCmd
  <2>1. CASE isSet' = FALSE
    BY <1>4, <2>1
  <2>2. CASE UNCHANGED <<reference, virtualMET, isSet>>
    <3>1. ~Following'
      BY <1>1, <1>10, ToneDataChain
    <3> QED
      BY <1>3, <1>10, <2>2, <3>1 DEF ToneDataCmd, reference
  <2> QED
    BY <1>10, <2>1, <2>2 DEF ToneDataCmd
<1>11. CASE SetStateFlywheel
  BY <1>4, <1>11 DEF SetStateFlywheel
<1>12. CASE SetStateOther \/ SendHkCmd
  <2>1. UNCHANGED <<met, latch, fly, toneSignalLatch, virtualMET, isSet>> /\ Commanded
    BY <1>12 DEF SetStateOther, SendHkCmd, reference, kept
  <2> QED
    BY <1>1, <1>3, <2>1, CommandedChain
<1>13. CASE ProcessorReset
  BY <1>4, <1>13 DEF ProcessorReset
<1>14. ASSUME NEW m \in METs, SetMET(m) PROVE SetCounted'
  <2>1. /\ met' = m /\ virtualMET' = WholeSeconds(m) /\ latch' = clock /\ clock' = clock
        /\ toneSignalLatch' = toneSignalLatch
    BY <1>14 DEF SetMET, Commanded
  <2>2. /\ m \in Nat /\ WholeSeconds(m) * Second \in Nat
        /\ m < WholeSeconds(m) * Second + Second
    BY Whole, Products, Constants
  <2>3. Count' = WholeSeconds(m) * Second
    BY <2>1 DEF Count
  <2>4. SinceUpdate' = 0 - Age(toneSignalLatch)
    <3>1. Age(latch)' = 0 /\ Age(toneSignalLatch)' = Age(toneSignalLatch)
      BY <1>1, <2>1 DEF Age
    <3> QED
      BY <3>1 DEF SinceUpdate
  <2>5. Count' \in Nat /\ m \in Nat /\ m < Count' + Second
    BY <2>2, <2>3
  <2>6. m + SinceUpdate' < Count' + 2 * Second
    <3>1. Second \in Nat /\ Age(toneSignalLatch) \in Nat /\ 2 * Second = Second + Second
      BY <1>1
    <3>2. \A a, c, s \in Nat : m < c + s => m + (0 - a) < c + (s + s)
      BY <2>5
    <3>3. m + (0 - Age(toneSignalLatch)) < Count' + (Second + Second)
      BY <2>5, <3>1, <3>2
    <3> QED
      BY <2>4, <3>1, <3>3
  <2> QED
    BY <2>1, <2>5, <2>6 DEF SetCounted
<1> QED
  BY <1>5, <1>6, <1>7, <1>8, <1>9, <1>10, <1>11, <1>12, <1>13, <1>14 DEF Next

\* The three ways the count stands to the MET at the tone.
Exact   == Count = met /\ toneSignalLatch = latch
Counted == met + Second <= Count /\ met + SinceUpdate < Count + ToneLimit
Missed  == ~Following /\ Age(latch) >= (IF Pending THEN 2 * Second ELSE Second + phase)
Spacing == phase + (IF Pending THEN Second ELSE 0) - ToneDelay <= Age(toneSignalLatch)

LEMMA TonesCountedIs ==
  /\ TonesCounted <=>
       (~fly /\ ~isSet => SinceUpdate >= 0 /\ Spacing /\ (Exact \/ Counted \/ Missed))
  /\ TonesCounted' <=>
       (~fly' /\ ~isSet' => SinceUpdate' >= 0 /\ Spacing' /\ (Exact' \/ Counted' \/ Missed'))
BY DEF TonesCounted, Spacing, Exact, Counted, Missed

\* One more tone: a good one is counted, after one that is not good no update
\* comes before the server flies.
LEMMA ToneCounted ==
  ASSUME IInv, FliesSoon, TonesCounted, OneHzCmd, ~fly', ~isSet'
  PROVE  SinceUpdate' >= 0 /\ Spacing' /\ (Counted' \/ Missed')
<1>1. /\ TypeOK /\ OneAtATime /\ InTime /\ latch \in Readings /\ toneSignalLatch \in Readings
      /\ clock \in Readings /\ Age(latch) \in Nat /\ Age(toneSignalLatch) \in Nat
      /\ Age(clock) = 0 /\ phase \in 0 .. Second - 1 /\ Second \in Nat \ {0}
      /\ ToneDelay \in 0 .. Second - 1 /\ ToneLimit \in 1 .. Second - 1
      /\ 2 * Second = Second + Second
  BY States
<1>2. /\ StateMachine /\ toneSignalLatch' = clock /\ clock' = clock /\ isSet' = isSet
      /\ phase' = phase /\ Pending /\ ~Pending'
      /\ Following' <=> ToneIsGood
  BY <1>1, OneHzChain DEF OneHzCmd
<1>3. ~fly /\ Age(latch) < Second + Second /\ met' = met /\ latch' = latch
  BY <1>2, NotFlying
<1>4. /\ Count \in Nat /\ Count' = IF ToneIsGood THEN Count + Second ELSE Count
      /\ met \in Nat
  BY <1>1, CountTone DEF TypeOK
<1>5. Age(latch)' = Age(latch) /\ Age(toneSignalLatch)' = 0
  BY <1>1, <1>2, <1>3 DEF Age
<1>6. SinceUpdate' = Age(latch) /\ SinceUpdate' >= 0
  BY <1>1, <1>5 DEF SinceUpdate
<1>7. phase <= ToneDelay /\ ToneDelay < ToneLimit
  BY <1>1, <1>2 DEF InTime, FliesSoon
<1>8. Spacing'
  BY <1>1, <1>2, <1>5, <1>7 DEF Spacing
<1>9. /\ SinceUpdate = Age(latch) - Age(toneSignalLatch) /\ SinceUpdate >= 0
      /\ phase + Second - ToneDelay <= Age(toneSignalLatch)
      /\ Exact \/ Counted \/ Missed
  BY <1>2, <1>3, TonesCountedIs DEF SinceUpdate, Spacing
<1>10. ~Missed
  BY <1>1, <1>2, <1>3 DEF Missed
<1>11. CASE ToneIsGood
  <2>1. Age(toneSignalLatch) < Second + ToneLimit /\ Count' = Count + Second
    BY <1>4, <1>11 DEF ToneIsGood, Age
  <2>2. CASE Exact
    <3>1. Count = met /\ Age(latch) = Age(toneSignalLatch)
      BY <2>2 DEF Exact
    <3>2. met' + Second <= Count' /\ met' + SinceUpdate' < Count' + ToneLimit
      BY <1>1, <1>3, <1>4, <1>6, <2>1, <3>1
    <3> QED
      BY <1>6, <1>8, <3>2 DEF Counted
  <2>3. CASE Counted
    <3>1. met + Second <= Count
      BY <2>3 DEF Counted
    <3>2. met' + Second <= Count' /\ met' + SinceUpdate' < Count' + ToneLimit
      BY <1>1, <1>3, <1>4, <1>6, <2>1, <3>1
    <3> QED
      BY <1>6, <1>8, <3>2 DEF Counted
  <2> QED
    BY <1>9, <1>10, <2>2, <2>3
<1>12. CASE ~ToneIsGood
  <2>1. Second + ToneLimit <= Age(toneSignalLatch)
    <3>1. ~(/\ Second - ToneLimit < Age(toneSignalLatch)
            /\ Age(toneSignalLatch) < Second + ToneLimit)
      BY <1>12 DEF ToneIsGood, Age
    <3> QED
      BY <1>1, <1>7, <1>9, <3>1
  <2>2. Age(latch)' >= Second + phase'
    BY <1>1, <1>2, <1>5, <1>7, <1>9, <2>1
  <2>3. Missed'
    BY <1>2, <1>12, <2>2 DEF Missed
  <2> QED
    BY <1>6, <1>8, <2>3
<1> QED
  BY <1>11, <1>12

LEMMA TonesCountedInv ==
  ASSUME IInv, FliesSoon, NoRoll, ToneSpaced, TonesCounted, Next
  PROVE  TonesCounted'
<1>1. /\ TypeOK /\ OneAtATime /\ InTime /\ latch \in Readings /\ toneSignalLatch \in Readings
      /\ clock \in Readings /\ Age(latch) \in Nat /\ Age(toneSignalLatch) \in Nat
      /\ Age(clock) = 0 /\ phase \in 0 .. Second - 1 /\ Second \in Nat \ {0}
      /\ ToneDelay \in 0 .. Second - 1 /\ MaxLocal \in Nat /\ fly \in BOOLEAN
      /\ 2 * Second = Second + Second
  BY States, Ranges
<1>2. ASSUME fly' \/ isSet'
      PROVE  TonesCounted'
  BY <1>2, TonesCountedIs
<1>3. ASSUME UNCHANGED <<met, latch, toneSignalLatch, virtualMET, clock, phase>>,
             ~fly' => ~fly, ~isSet' => ~isSet,
             Pending' => Pending, Following' => Following, Following => ~Pending'
      PROVE  TonesCounted'
  <2> SUFFICES ASSUME ~fly', ~isSet'
               PROVE  SinceUpdate' >= 0 /\ Spacing' /\ (Exact' \/ Counted' \/ Missed')
    BY TonesCountedIs
  <2>1. SinceUpdate >= 0 /\ Spacing /\ (Exact \/ Counted \/ Missed)
    BY <1>3, TonesCountedIs
  <2>2. /\ Age(latch)' = Age(latch) /\ Age(toneSignalLatch)' = Age(toneSignalLatch)
        /\ Count' = Count
    BY <1>3 DEF Age, Count
  <2>3. SinceUpdate' = SinceUpdate
    BY <2>2 DEF SinceUpdate
  <2>4. Spacing'
    BY <1>1, <1>3, <2>1, <2>2 DEF Spacing
  <2>5. Exact => Exact'
    BY <1>3, <2>2 DEF Exact
  <2>6. Counted => Counted'
    BY <1>3, <2>2, <2>3 DEF Counted
  <2>7. Missed => Missed'
    BY <1>1, <1>3, <2>2 DEF Missed
  <2> QED
    BY <2>1, <2>3, <2>4, <2>5, <2>6, <2>7
<1>4. CASE Tick
  <2> SUFFICES ASSUME ~fly', ~isSet'
               PROVE  SinceUpdate' >= 0 /\ Spacing' /\ (Exact' \/ Counted' \/ Missed')
    BY TonesCountedIs
  <2>1. UNCHANGED <<met, latch, fly, isSet, toneSignalLatch, virtualMET>>
    BY <1>4 DEF Tick, reference, kept
  <2>2. SinceUpdate >= 0 /\ Spacing /\ (Exact \/ Counted \/ Missed)
    BY <2>1, TonesCountedIs
  <2>3. Age(latch)' = Age(latch) + 1
    BY <1>4, <2>1, NoRollTick DEF Age
  <2>4. Age(toneSignalLatch)' = Age(toneSignalLatch) + 1
    <3>1. Age(latch)' \in 0 .. MaxLocal - 1
      <4>1. TypeOK'
        BY <1>1, TypeInv
      <4>2. clock' \in Readings /\ latch' \in Readings
        BY <4>1 DEF TypeOK, Readings
      <4>3. Since(latch', clock') \in Readings
        BY <4>2, SinceType
      <4> QED
        BY <4>3 DEF Age, Readings
    <3>2. Age(toneSignalLatch) # MaxLocal - 1
      BY <1>1, <2>2, <2>3, <3>1 DEF SinceUpdate
    <3> QED
      BY <1>1, <1>4, <2>1, <3>2, Ages DEF Age
  <2>5. SinceUpdate' = SinceUpdate
    BY <1>1, <2>3, <2>4 DEF SinceUpdate
  <2>6. Count' = Count
    BY <2>1 DEF Count
  <2>7. Exact => Exact'
    BY <2>1, <2>6 DEF Exact
  <2>8. Counted => Counted'
    BY <2>1, <2>5, <2>6 DEF Counted
  <2>9. CASE /\ phase' = phase + 1
             /\ Pending' <=> Pending
             /\ Following' <=> Following
    <3>1. Spacing'
      BY <1>1, <2>2, <2>4, <2>9 DEF Spacing
    <3>2. Missed => Missed'
      BY <1>1, <2>3, <2>9 DEF Missed
    <3> QED
      BY <2>2, <2>5, <2>7, <2>8, <3>1, <3>2
  <2>10. CASE /\ phase' = 0 /\ phase = Second - 1
              /\ ~Pending /\ ~Following /\ Pending' /\ ~Following'
    <3>1. Spacing'
      BY <1>1, <2>2, <2>4, <2>10 DEF Spacing
    <3>2. Missed => Missed'
      BY <1>1, <2>3, <2>10 DEF Missed
    <3> QED
      BY <2>2, <2>5, <2>7, <2>8, <3>1, <3>2
  <2> QED
    BY <1>1, <1>4, <2>9, <2>10, TickChain
<1>5. CASE Local1HzTask
  <2>1. UNCHANGED <<met, latch, toneSignalLatch, virtualMET, clock, phase, fly, isSet>>
    BY <1>5 DEF Local1HzTask, reference, kept
  <2>2. Pending /\ ~Following /\ ~Following'
    BY <1>1, <1>5, Local1HzChain
  <2> QED
    BY <1>3, <2>1, <2>2
<1>6. CASE Tone1HzTask
  <2>1. UNCHANGED <<met, latch, toneSignalLatch, virtualMET, clock, phase, fly, isSet>>
    BY <1>6 DEF Tone1HzTask, reference, kept
  <2>2. Following /\ ~Pending /\ ~Pending'
    BY <1>1, <1>6, Tone1HzChain
  <2> QED
    BY <1>3, <2>1, <2>2
<1>7. CASE OneHzCmd
  BY <1>7, ToneCounted, TonesCountedIs
<1>8. CASE ToneSendCmd
  <2>1. UNCHANGED <<met, latch, toneSignalLatch, virtualMET, clock, phase, fly, isSet>>
    BY <1>8 DEF ToneSendCmd, reference, kept
  <2>2. Following /\ ~Pending /\ ~Pending'
    BY <1>1, <1>8, ToneSendChain
  <2> QED
    BY <1>3, <2>1, <2>2
<1>9. CASE ToneDataCmd
  <2>1. /\ Following /\ ~Pending /\ ~Pending' /\ ~Following'
        /\ UNCHANGED <<toneSignalLatch, clock, phase>>
    BY <1>1, <1>9, ToneDataChain DEF ToneDataCmd
  <2>2. CASE ToneUpdate
    <3>1. /\ latch' = toneSignalLatch /\ met' = UpdatedMET * Second
          /\ virtualMET' = UpdatedMET
      BY <2>2 DEF ToneUpdate
    <3>2. Exact'
      BY <2>1, <3>1 DEF Exact, Count
    <3>3. Age(latch)' = Age(toneSignalLatch) /\ Age(toneSignalLatch)' = Age(toneSignalLatch)
      BY <2>1, <3>1 DEF Age
    <3>4. SinceUpdate' >= 0
      BY <1>1, <3>3 DEF SinceUpdate
    <3>5. phase - ToneDelay <= Age(toneSignalLatch)
      BY <2>1 DEF ToneSpaced
    <3>6. Spacing'
      BY <1>1, <2>1, <3>3, <3>5 DEF Spacing
    <3> QED
      BY <3>2, <3>4, <3>6, TonesCountedIs
  <2>3. CASE UNCHANGED <<reference, virtualMET, isSet>>
    BY <1>3, <2>1, <2>3 DEF reference
  <2> QED
    BY <1>9, <2>2, <2>3 DEF ToneDataCmd
<1>10. CASE SetStateFlywheel \/ ProcessorReset
  BY <1>2, <1>10 DEF SetStateFlywheel, ProcessorReset, Boot
<1>11. CASE SetStateOther \/ SendHkCmd
  <2>1. UNCHANGED <<met, latch, fly, toneSignalLatch, virtualMET, isSet>> /\ Commanded
    BY <1>11 DEF SetStateOther, SendHkCmd, reference, kept
  <2>2. /\ clock' = clock /\ phase' = phase
        /\ Pending' <=> Pending
        /\ Following' <=> Following
    BY <1>1, <2>1, CommandedChain
  <2>3. Following => ~Pending
    BY <1>1 DEF OneAtATime, Pending, Following
  <2> QED
    BY <1>3, <2>1, <2>2, <2>3
<1>12. ASSUME NEW m \in METs, SetMET(m) PROVE TonesCounted'
  BY <1>2, <1>12 DEF SetMET
<1> QED
  BY <1>4, <1>5, <1>6, <1>7, <1>8, <1>9, <1>10, <1>11, <1>12 DEF Next

\* How far an update may turn the MET back, case by case.
LEMMA UpdateSlips ==
  ASSUME IInv, Kept, ToneDataCmd
  PROVE  CurrentMET' >= CurrentMET \/ CurrentMET' > CurrentMET - Slip
<1>1. /\ TypeOK /\ OneAtATime /\ latch \in Readings /\ toneSignalLatch \in Readings
      /\ Age(latch) \in Nat /\ Age(toneSignalLatch) \in Nat /\ Second \in Nat \ {0}
      /\ ToneLimit \in 1 .. Second - 1 /\ fly \in BOOLEAN /\ 2 * Second = Second + Second
  BY States
<1>2. met \in Nat /\ Count \in Nat /\ CurrentMET \in Nat /\ isSet \in BOOLEAN
  BY <1>1, Products, CurrentType DEF TypeOK, Count
<1>3. Following /\ clock' = clock /\ CurrentMET = met + Age(latch)
  BY <1>1, ToneDataChain DEF ToneDataCmd, CurrentMET, TimeSinceTone, Age
<1>4. CASE UNCHANGED reference
  BY <1>2, <1>3, <1>4 DEF reference, CurrentMET, TimeSinceTone
<1>5. CASE ToneUpdate
  <2> DEFINE U == UpdatedMET * Second
  <2>1. CurrentMET' = U + Age(toneSignalLatch)
    BY <1>3, <1>5 DEF ToneUpdate, CurrentMET, TimeSinceTone, Age
  <2>2. U \in Nat
    BY <1>1, UpdatedType, Products
  <2>3. CASE fly
    <3>1. U = WholeSeconds(CurrentMET) * Second
      BY <2>3 DEF UpdatedMET
    <3>2. CurrentMET < U + Second
      BY <1>2, <3>1, Whole
    <3> HIDE DEF U
    <3>3. CurrentMET' > CurrentMET - Second
      BY <1>1, <1>2, <2>1, <2>2, <3>2
    <3>4. Slip \in {Second, 2 * Second}
      BY <1>2, <2>3 DEF Slip
    <3>5. CurrentMET' > CurrentMET - 2 * Second
      BY <1>1, <1>2, <2>1, <2>2, <3>2
    <3> QED
      BY <3>3, <3>4, <3>5
  <2>4. CASE ~fly
    <3>1. U = Count
      BY <2>4 DEF UpdatedMET, Count
    <3> HIDE DEF U
    <3>2. CASE isSet
      <4>1. met + (Age(latch) - Age(toneSignalLatch)) < Count + 2 * Second
        BY <1>3, <2>4, <3>2 DEF Kept, SetCounted, SinceUpdate
      <4>2. Slip = 2 * Second
        BY <3>2 DEF Slip
      <4>3. CurrentMET' > CurrentMET - 2 * Second
        BY <1>1, <1>2, <1>3, <2>1, <3>1, <4>1
      <4> QED
        BY <4>2, <4>3
    <3>3. CASE ~isSet
      <4>1. Exact \/ Counted
        BY <1>3, <2>4, <3>3, TonesCountedIs DEF Kept, Missed
      <4>2. Slip = ToneLimit
        BY <2>4, <3>3 DEF Slip
      <4>3. CASE Exact
        BY <1>1, <1>2, <1>3, <2>1, <3>1, <4>3 DEF Exact
      <4>4. CASE Counted
        <5>1. met + (Age(latch) - Age(toneSignalLatch)) < Count + ToneLimit
          BY <4>4 DEF Counted, SinceUpdate
        <5>2. CurrentMET' > CurrentMET - ToneLimit
          BY <1>1, <1>2, <1>3, <2>1, <3>1, <5>1
        <5> QED
          BY <4>2, <5>2
      <4> QED
        BY <4>1, <4>3, <4>4
    <3> QED
      BY <1>2, <3>2, <3>3
  <2> QED
    BY <1>1, <2>3, <2>4
<1> QED
  BY <1>4, <1>5 DEF ToneDataCmd

\* No message and no passing of time turns the MET back, and an update only by
\* the slip of its case.
LEMMA StepSlips ==
  ASSUME IInv, FliesSoon, Kept, Next
  PROVE  \/ ProcessorReset \/ \E m \in METs : SetMET(m)
         \/ CurrentMET' >= CurrentMET
         \/ ToneDataCmd /\ CurrentMET' > CurrentMET - Slip
<1>1. TypeOK /\ CurrentMET \in Nat /\ latch \in Readings /\ Age(latch) \in Nat
  BY States, CurrentType
<1>2. ASSUME UNCHANGED <<met, latch, clock>>
      PROVE  CurrentMET' >= CurrentMET
  <2>1. CurrentMET' = CurrentMET
    BY <1>2 DEF CurrentMET, TimeSinceTone
  <2> QED
    BY <1>1, <2>1
<1>3. CASE Tick
  <2>1. met' = met /\ latch' = latch /\ met \in Nat
    BY <1>1, <1>3 DEF Tick, reference, TypeOK
  <2>2. CurrentMET = met + Age(latch) /\ CurrentMET' = met + Since(latch, clock')
    BY <2>1 DEF CurrentMET, TimeSinceTone, Age
  <2>3. Since(latch, clock') = Age(latch) + 1
    BY <1>3, NoRollTick DEF Kept
  <2> QED
    BY <1>1, <2>1, <2>2, <2>3
<1>4. CASE Local1HzTask \/ Tone1HzTask \/ ToneSendCmd
  BY <1>2, <1>4 DEF Local1HzTask, Tone1HzTask, ToneSendCmd, reference
<1>5. CASE OneHzCmd
  <2>1. CurrentMET' = CurrentMET
    BY <1>1, <1>5, StateMachineKeeps DEF OneHzCmd
  <2> QED
    BY <1>1, <2>1
<1>6. CASE ToneDataCmd
  BY <1>6, UpdateSlips
<1>7. CASE SetStateFlywheel \/ SetStateOther \/ SendHkCmd
  BY <1>2, <1>7 DEF SetStateFlywheel, SetStateOther, SendHkCmd, Commanded, reference
<1> QED
  BY <1>3, <1>4, <1>5, <1>6, <1>7 DEF Next

\* When the 1 Hz message is handled within the jitter a tone is allowed, at most
\* one tone can be missed before the server flies, and it latches a flight before
\* the local clock has gone round: the MET an application reads goes back by less
\* than the slip of the case (CFE_TIME_ToneUpdate, CFE_TIME_Local1HzStateMachine).
THEOREM TheMETGoesBackLittle == FliesSoon => (Spec => GoesBackLittle)
<1> SUFFICES ASSUME FliesSoon PROVE Spec => GoesBackLittle
  OBVIOUS
<1> DEFINE Inv == IInv /\ Kept
           Step == \/ ProcessorReset \/ \E m \in METs : SetMET(m)
                   \/ CurrentMET' >= CurrentMET
                   \/ ToneDataCmd /\ CurrentMET' > CurrentMET - Slip
<1>1. Init => Inv
  <2> SUFFICES ASSUME Init PROVE Kept
    BY InitInv
  <2>1. TypeOK
    BY InitInv DEF IInv
  <2>2. Age(latch) = 0 /\ phase = 0 /\ fly /\ ~Following
    <3>1. latch = clock /\ phase = 0 /\ fly /\ pipe = << >> /\ ~toneSem
      BY DEF Init
    <3>2. Age(latch) = 0
      BY <2>1, <3>1, Ages
    <3> QED
      BY <3>1, <3>2 DEF Following
  <2>3. Age(latch) <= Longest * Second + phase
    <3>1. Flight \in Nat
      BY <2>1, FlightType
    <3>2. Age(latch) <= Flight + phase
      BY <2>2, <3>1
    <3> QED
      BY <3>2 DEF Flight
  <2> QED
    BY <2>2, <2>3 DEF Kept, NoRoll, ToneSpaced, TonesCounted, SetCounted
<1>2. Inv /\ [Next]_vars => Inv'
  <2>1. ASSUME Inv, Next
        PROVE  Inv'
    BY <2>1, NextInv, NoRollInv, ToneSpacedInv, TonesCountedInv, SetCountedInv DEF Kept
  <2>2. ASSUME Inv, UNCHANGED vars
        PROVE  Inv'
    <3>1. UNCHANGED <<met, latch, fly, virtualMET, toneSignalLatch, localSem, toneSem, pipe,
                      clock, phase, disturbed, isSet>>
      BY <2>2 DEF vars, reference, kept, sems, used
    <3>2. NoRoll' /\ ToneSpaced'
      BY <2>2, <3>1 DEF Kept, NoRoll, ToneSpaced, Longest, Pending, Following, Age
    <3>3. TonesCounted' /\ SetCounted'
      BY <2>2, <3>1 DEF Kept, TonesCounted, SetCounted, SinceUpdate, Count, Pending, Following, Age
    <3> QED
      BY <2>2, <3>2, <3>3, StutterInv DEF Kept
  <2> QED
    BY <2>1, <2>2
<1>3. Inv /\ [Next]_vars => [Step]_vars
  BY StepSlips
<1>4. GoesBackLittle <=> [][Step]_vars
  BY DEF GoesBackLittle
<1> HIDE DEF Inv, Step
<1> QED
  BY <1>1, <1>2, <1>3, <1>4, PTL DEF Spec

=============================================================================
