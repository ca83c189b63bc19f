--------------------------- MODULE TBLImageProofs ---------------------------
(***************************************************************************)
(* Proofs about Table Services and the images it keeps, on top of the      *)
(* invariant of TBLProofs, in layers, each with the condition that it      *)
(* needs:                                                                  *)
(*   LInv   what a reader has locked         (LoadsAside)                  *)
(*   CInv   what the store holds             (and LoadsOnly)               *)
(*   VInv   what was validated               (and ManagedOnly)             *)
(*   HInv   who holds a shared buffer        (NoneDropped)                 *)
(***************************************************************************)
EXTENDS TBLProofs

-----------------------------------------------------------------------------
(* What a reader has locked                                                *)

\* Tables are double-buffered or dump-only, and the ground does not load files into
\* buffers that applications work on.
LoadsAside == Names \subseteq Double \cup DumpOnly /\ "load" \notin Commands

\* The active buffer of a table stands, and a load in progress is into the buffer that
\* stands beside it.
TableOK(s) ==
  /\ reg[s].owner # None => reg[s].name # None
  /\ reg[s].id # 0 /\ reg[s].active # NoBuf => buf[PlaceIn(reg, reg[s].active)].id = reg[s].active
  /\ reg[s].next # NoBuf => /\ reg[s].id # 0 /\ reg[s].name \in Double
                            /\ reg[s].next \in {reg[s].active, NextIn(reg, s)}
                            /\ buf[PlaceIn(reg, reg[s].next)].id = reg[s].next
Moving == {"write", "check", "copy", "activate"}
LoadOK(b) ==
  LET s == hnd[job[b].h].slot IN
    /\ at[b] \in {"write", "check"} => reg[s].next \in {NoBuf, NextIn(reg, s)}
    /\ at[b] = "activate" => /\ reg[s].name \in Double /\ buf[job[b].to].id # NoBuf
                             /\ buf[job[b].to].id \in {reg[s].active, NextIn(reg, s)}
                             /\ reg[s].next \in {NoBuf, buf[job[b].to].id}
    /\ at[b] # "copy"
\* What is locked was active and still has the identifier it had, which is not the next.
HoldOK(h) ==
  hnd[h].locked =>
    /\ hnd[h].used /\ hnd[h].app # None /\ hnd[h].buf # NoBuf /\ hnd[h].addr \in Own(hnd[h].slot)
    /\ buf[hnd[h].addr].id = hnd[h].buf /\ reg[hnd[h].slot].active # NoBuf
    /\ hnd[h].buf[2] <= reg[hnd[h].slot].active[2]
    /\ buf[hnd[h].addr].data = seen[h]
LInv ==
  /\ gnd.cmd \notin {"load", "read"}
  /\ \A s \in Slots : TableOK(s)
  /\ \A b \in Apps : LoadOK(b)
  /\ \A h \in Hs : HoldOK(h)

\* Where a load in progress of a table stands.
LEMMA OwnNext ==
  ASSUME IInv, NEW s \in Slots, TableOK(s)
  PROVE  /\ reg[s].active # NoBuf => PlaceIn(reg, reg[s].active) \in Own(s) /\ reg[s].active[2] \in Nat
         /\ reg[s].next # NoBuf => reg[s].next[1] = s /\ PlaceIn(reg, reg[s].next) \in Own(s)
<1>1. /\ reg[s].active \in BufIds /\ reg[s].next \in BufIds /\ s # -1
      /\ reg[s].active # NoBuf => reg[s].active[1] = s
  <2>1. reg[s].active \in BufIds /\ reg[s].next \in BufIds
    BY Types DEF RegType
  <2>2. s # -1
    BY Constants DEF Slots
  <2>3. reg[s].active # NoBuf => reg[s].active[1] = s
    BY DEF IInv, IdsOK
  <2> QED
    BY <2>1, <2>2, <2>3
<1>2. reg[s].next # NoBuf => reg[s].next[1] = s
  <2>1. NextIn(reg, s)[1] = s
    BY NextType, Types
  <2>2. reg[s].next # NoBuf => reg[s].next = reg[s].active \/ reg[s].next = NextIn(reg, s)
    BY DEF TableOK
  <2> QED
    BY <1>1, <2>1, <2>2
<1>3. reg[s].active # NoBuf => reg[s].active[2] \in Nat
  BY <1>1, IdForms, Constants
<1> QED
  BY <1>1, <1>2, <1>3, PlaceType

LEMMA TableFrame ==
  ASSUME IInv, NEW s \in Slots, TableOK(s),
         reg'[s].id = reg[s].id, reg'[s].name = reg[s].name, reg'[s].active = reg[s].active,
         reg'[s].owner \in {reg[s].owner, None},
         reg'[s].next \in {reg[s].next, NoBuf}, \A p \in Own(s) : buf'[p].id = buf[p].id
  PROVE  TableOK(s)'
<1>1. NextIn(reg', s) = NextIn(reg, s)
  BY DEF NextIn
<1>2. \A id \in BufIds : id[1] = s => PlaceIn(reg', id) = PlaceIn(reg, id)
  BY PlaceSame
<1>3. reg[s].active \in BufIds /\ reg[s].next \in BufIds /\ (reg[s].active # NoBuf => reg[s].active[1] = s)
  BY Types DEF RegType, IInv, IdsOK
<1>4. reg'[s].active # NoBuf => PlaceIn(reg', reg'[s].active) = PlaceIn(reg, reg[s].active)
                                /\ PlaceIn(reg, reg[s].active) \in Own(s)
  BY <1>2, <1>3, OwnNext
<1>5. reg'[s].next # NoBuf => PlaceIn(reg', reg'[s].next) = PlaceIn(reg, reg[s].next)
                              /\ PlaceIn(reg, reg[s].next) \in Own(s) /\ reg'[s].next = reg[s].next
  BY <1>2, <1>3, OwnNext
<1> QED
  BY <1>1, <1>4, <1>5 DEF TableOK

LEMMA LoadFrame ==
  ASSUME IInv, NEW b \in Apps, LoadOK(b), at'[b] = at[b], job'[b] = job[b],
         at[b] \in Moving =>
           LET s == hnd[job[b].h].slot IN
             /\ hnd'[job[b].h].slot = s /\ reg'[s].name = reg[s].name /\ reg'[s].active = reg[s].active
             /\ reg'[s].next \in {reg[s].next, NoBuf} /\ \A p \in Own(s) : buf'[p].id = buf[p].id
  PROVE  LoadOK(b)'
<1>1. CASE at[b] \notin Moving
  BY <1>1 DEF LoadOK, Moving
<1>2. CASE at[b] \in Moving
  <2>1. PICK s \in Slots : s = hnd[job[b].h].slot
    BY <1>2, JobFacts, MineFacts DEF Moving
  <2>2. at[b] = "activate" => job[b].to \in Own(s)
    BY <2>1 DEF IInv, JobsOK, JobOK
  <2>3. NextIn(reg', s) = NextIn(reg, s)
    BY <1>2, <2>1 DEF NextIn
  <2> QED
    BY <1>2, <2>1, <2>2, <2>3 DEF LoadOK
<1> QED
  BY <1>1, <1>2

LEMMA HoldFrame ==
  ASSUME NEW h \in Hs, HoldOK(h), hnd'[h].used <=> hnd[h].used, hnd'[h].app = hnd[h].app,
         hnd'[h].slot = hnd[h].slot, hnd'[h].locked => hnd[h].locked,
         hnd'[h].buf = hnd[h].buf, hnd[h].locked => hnd'[h].addr = hnd[h].addr \/ ~hnd'[h].locked,
         hnd'[h].locked => /\ reg'[hnd[h].slot].active = reg[hnd[h].slot].active
                           /\ buf'[hnd[h].addr].id = buf[hnd[h].addr].id
                           /\ buf'[hnd[h].addr].data = buf[hnd[h].addr].data /\ seen'[h] = seen[h]
  PROVE  HoldOK(h)'
BY DEF HoldOK

\* The steps that leave tables, descriptors and the contents of own buffers as they are.
RegSame ==
  \A s \in Slots : /\ reg'[s].id = reg[s].id /\ reg'[s].name = reg[s].name /\ reg'[s].owner = reg[s].owner
                   /\ reg'[s].active = reg[s].active /\ reg'[s].next \in {reg[s].next, NoBuf}
OwnSame ==
  \A s \in Slots : \A p \in Own(s) : buf'[p].id = buf[p].id /\ buf'[p].data = buf[p].data
OwnKept == \A s \in Slots : \A p \in Own(s) : buf'[p] = buf[p]
HndSame ==
  /\ seen' = seen
  /\ \A h \in Hs : /\ hnd'[h].used <=> hnd[h].used
                   /\ hnd'[h].app = hnd[h].app /\ hnd'[h].slot = hnd[h].slot
                   /\ hnd'[h].locked <=> hnd[h].locked
                   /\ hnd'[h].buf = hnd[h].buf /\ hnd'[h].addr = hnd[h].addr

LEMMA LQuiet ==
  ASSUME IInv, LInv, RegSame, OwnSame, HndSame, gnd'.cmd \notin {"load", "read"},
         \A b \in Apps : LoadOK(b)' \/ (at'[b] = at[b] /\ job'[b] = job[b])
  PROVE  LInv'
<1>1. ASSUME NEW s \in Slots
      PROVE  TableOK(s)'
  BY TableFrame DEF LInv, RegSame, OwnSame
<1>2. ASSUME NEW b \in Apps, at'[b] = at[b], job'[b] = job[b]
      PROVE  LoadOK(b)'
  <2>1. at[b] \in Moving => job[b].h \in Hs /\ hnd[job[b].h].slot \in Slots
    BY JobFacts, MineFacts DEF Moving
  <2> QED
    BY <1>2, <2>1, LoadFrame DEF LInv, RegSame, OwnSame, HndSame
<1>3. ASSUME NEW h \in Hs
      PROVE  HoldOK(h)'
  <2>0. HoldOK(h)
    BY DEF LInv
  <2>1. hnd[h].slot \in Slots
    BY Types DEF HndType
  <2>2. hnd[h].locked => hnd[h].addr \in Own(hnd[h].slot)
    BY <2>0 DEF HoldOK
  <2>3. reg'[hnd[h].slot].active = reg[hnd[h].slot].active
    BY <2>1 DEF RegSame
  <2>4. hnd[h].locked => buf'[hnd[h].addr].id = buf[hnd[h].addr].id
                         /\ buf'[hnd[h].addr].data = buf[hnd[h].addr].data
    BY <2>1, <2>2 DEF OwnSame
  <2> QED
    BY <2>0, <2>1, <2>3, <2>4, HoldFrame DEF HndSame
<1> QED
  BY <1>1, <1>2, <1>3 DEF LInv

\* The other calls stay where they are.
OthersStay(a) == \A b \in Apps : b # a => at'[b] = at[b] /\ job'[b] = job[b]

LEMMA OthersMove ==
  ASSUME IInv, NEW a \in Apps, NEW l, at' = [at EXCEPT ![a] = l] \/ at' = at,
         NEW j, job' = [job EXCEPT ![a] = j] \/ job' = job
  PROVE  OthersStay(a) /\ (at' = [at EXCEPT ![a] = l] => at'[a] = l)
BY Types DEF OthersStay

LEMMA RegQuietSame == ASSUME RegQuiet PROVE RegSame
BY DEF RegQuiet, RegSame
LEMMA OwnUnchanged == ASSUME buf' = buf PROVE OwnKept
BY DEF OwnKept
LEMMA OwnKeptSame == ASSUME OwnKept PROVE OwnSame
BY DEF OwnKept, OwnSame
LEMMA HndUnchanged == ASSUME UNCHANGED <<hnd, seen>> PROVE HndSame
BY DEF HndSame

\* A step of a call, and of a command, that only moves the call or the command on.
Quiet(a)    == RegSame /\ OwnKept /\ HndSame /\ OthersStay(a) /\ gnd' = gnd
QuietGround == RegSame /\ OwnKept /\ UNCHANGED <<hnd, seen, cds, at, job>> /\ gnd'.cmd \notin {"load", "read"}

LEMMA LCall ==
  ASSUME IInv, LInv, NEW a \in Apps, RegSame, OwnSame, HndSame, OthersStay(a), gnd' = gnd, at'[a] \notin Moving
  PROVE  LInv'
<1>1. ASSUME NEW b \in Apps
      PROVE  LoadOK(b)' \/ (at'[b] = at[b] /\ job'[b] = job[b])
  BY DEF OthersStay, LoadOK, Moving
<1>2. gnd'.cmd \notin {"load", "read"}
  BY DEF LInv
<1> QED
  BY <1>1, <1>2, LQuiet

LEMMA QuietL ==
  ASSUME IInv, LInv, NEW a \in Apps, Quiet(a), at'[a] \notin Moving
  PROVE  LInv'
BY LCall, OwnKeptSame DEF Quiet

LEMMA AddressStatusKeeps ==
  ASSUME IInv, LInv, NEW a \in Apps, AddressStatus(a)
  PROVE  Quiet(a) /\ at'[a] \notin Moving
<1>1. RegSame /\ OwnKept
  BY QuietSame, RegQuietSame, OwnUnchanged DEF AddressStatus, storeVars
<1>2. HndSame
  <2>1. job[a].h \in Hs /\ hnd[job[a].h] \in HndType
    BY JobFacts, Types DEF AddressStatus
  <2>2. hnd' = [hnd EXCEPT ![job[a].h] = [hnd[job[a].h] EXCEPT !.updated = FALSE]] /\ seen' = seen
    BY DEF AddressStatus
  <2> QED
    BY <2>1, <2>2, Types DEF HndSame, HndType
<1>3. OthersStay(a) /\ at'[a] \notin Moving
  BY OthersMove DEF AddressStatus, Return, Goto, Moving
<1> QED
  BY <1>1, <1>2, <1>3 DEF AddressStatus, Quiet

LEMMA NotifyKeeps ==
  ASSUME IInv, LInv, NEW a \in Apps, Notify(a)
  PROVE  Quiet(a) /\ at'[a] \notin Moving
<1>1. RegSame /\ OwnKept
  BY QuietSame, RegQuietSame, OwnUnchanged DEF Notify, storeVars
<1>2. HndSame
  <2>1. \A h \in Hs : hnd[h] \in HndType /\ hnd'[h] \in {hnd[h], [hnd[h] EXCEPT !.updated = TRUE]}
    BY Types DEF Notify
  <2> QED
    BY <2>1, HndTold DEF HndSame, Notify
<1>3. OthersStay(a) /\ at'[a] \notin Moving
  BY OthersMove, Types DEF Notify, Goto, Moving
<1> QED
  BY <1>1, <1>2, <1>3 DEF Notify, Quiet

\* The steps of a call that write neither tables nor descriptors.
LEMMA PlainKeeps ==
  ASSUME IInv, LInv, NEW a \in Apps,
         \/ \E h \in Mine(a) : Manage(a, h) \/ Update(a, h)
         \/ Exit(a) \/ PickActive(a) \/ Save(a) \/ CleanUpEnd(a)
  PROVE  Quiet(a) /\ at'[a] \notin Moving
<1>1. UNCHANGED <<reg, hnd, buf, seen, gnd>>
  BY DEF Manage, Update, Exit, PickActive, Save, CleanUpEnd, userVars, storeVars, taskVars
<1>2. RegSame /\ OwnKept /\ HndSame
  BY <1>1, QuietSame, RegQuietSame, OwnUnchanged, HndUnchanged
<1>3. OthersStay(a) /\ at'[a] \notin Moving
  <2>1. ASSUME NEW h \in Mine(a), Manage(a, h) \/ Update(a, h)
        PROVE  OthersStay(a) /\ at'[a] \notin Moving
    <3>1. PICK l \in {"validate", "update", "dump", "reserve"} : at' = [at EXCEPT ![a] = l]
      BY <2>1 DEF Manage, Update, Goto
    <3>2. job' = [job EXCEPT ![a] = [job[a] EXCEPT !.h = h]]
      BY <2>1, Types DEF Manage, Update
    <3> QED
      BY <3>1, <3>2, OthersMove DEF Moving
  <2>2. CASE Exit(a) \/ PickActive(a) \/ CleanUpEnd(a)
    BY <2>2, OthersMove, Types DEF Exit, PickActive, CleanUpEnd, Goto, Moving
  <2>3. CASE Save(a)
    BY <2>3, OthersMove, Types DEF Save, Return, Goto, Moving
  <2> QED
    BY <2>1, <2>2, <2>3
<1> QED
  BY <1>1, <1>2, <1>3 DEF Quiet

LEMMA DiscardedSame ==
  ASSUME LInv, NEW s \in Slots
  PROVE  Discarded(s) = buf
BY DEF LInv, TableOK, Discarded, IsDouble

LEMMA DiscardKeeps ==
  ASSUME IInv, LInv, NEW a \in Apps, Discard(a)
  PROVE  Quiet(a) /\ at'[a] \notin Moving
<1>1. PICK s \in Slots : s = HSlot(a)
  BY JobFacts DEF Discard
<1>2. reg' = [reg EXCEPT ![s].next = NoBuf] /\ buf' = Discarded(s)
  BY <1>1 DEF Discard
<1>3. RegSame /\ OwnKept /\ HndSame
  BY <1>2, DiscardedSame, QuietNext, RegQuietSame, OwnUnchanged, HndUnchanged DEF Discard, userVars
<1>4. OthersStay(a) /\ at'[a] \notin Moving
  BY OthersMove DEF Discard, Return, Goto, Moving
<1> QED
  BY <1>3, <1>4 DEF Discard, Quiet

\* A load in progress of a table is in one of its own buffers.
LEMMA OwnLoad ==
  ASSUME IInv, LInv, NEW s \in Slots, InProgress(s) # NoBuf
  PROVE  /\ InProgress(s) \in Own(s) /\ IsPrivate(reg[s].next, s) /\ reg[s].name \in Double /\ reg[s].id # 0
         /\ buf[InProgress(s)].id = reg[s].next /\ reg[s].next # NoBuf /\ Unstale(s) = reg
         /\ reg[s].next \in {reg[s].active, NextIn(reg, s)}
         /\ InProgress(s) = PlaceIn(reg, reg[s].next)
<1>1. TableOK(s)
  BY DEF LInv
<1> QED
  BY <1>1, LoadFacts, OwnNext DEF IsPrivate, TableOK

\* A reservation is of the buffer that the load is in.
LEMMA ReserveKeeps ==
  ASSUME IInv, LInv, NEW a \in Apps, Reserve(a)
  PROVE  /\ Quiet(a) /\ cds' = cds
         /\ \/ at'[a] = "idle"
            \/ /\ at'[a] = "activate" /\ job'[a].h = job[a].h
               /\ InProgress(HSlot(a)) # NoBuf /\ job'[a].to = InProgress(HSlot(a))
               /\ reg' = reg /\ buf' = buf
<1>1. PICK s \in Slots : s = HSlot(a)
  BY JobFacts DEF Reserve
<1> DEFINE p == InProgress(s)
<1>2. reg' = Unstale(s) /\ UNCHANGED <<hnd, seen, gnd, cds>>
  BY <1>1 DEF Reserve, userVars
<1>3. p # NoBuf => IsPrivate(reg[s].next, s) /\ Unstale(s) = reg
  BY OwnLoad
<1>4. \/ p = NoBuf /\ Return(a) /\ buf' = buf
      \/ p # NoBuf /\ Goto(a, "activate") /\ job' = [job EXCEPT ![a].to = p] /\ buf' = buf
  BY <1>1, <1>3 DEF Reserve
<1>5. RegSame /\ OwnKept /\ HndSame
  BY <1>2, <1>4, UnstaleQuiet, RegQuietSame, OwnUnchanged, HndUnchanged
<1>6. CASE p = NoBuf
  BY <1>2, <1>4, <1>5, <1>6, OthersMove DEF Return, Goto, Quiet
<1>7. CASE p # NoBuf
  <2>1. job[a] \in JobType /\ job' = [job EXCEPT ![a] = [job[a] EXCEPT !.to = p]]
    BY <1>4, <1>7, Types
  <2>2. job'[a].to = p /\ job'[a].h = job[a].h
    BY <2>1, Types DEF JobType
  <2>3. OthersStay(a) /\ at'[a] = "activate"
    BY <1>4, <1>7, <2>1, OthersMove DEF Goto
  <2> QED
    BY <1>1, <1>2, <1>3, <1>4, <1>5, <1>7, <2>2, <2>3 DEF Quiet
<1> QED
  BY <1>6, <1>7

LEMMA ReserveL ==
  ASSUME IInv, LInv, NEW a \in Apps, Reserve(a)
  PROVE  LInv'
<1>1. PICK s \in Slots : s = HSlot(a) /\ s = hnd[job[a].h].slot /\ job[a].h \in Hs
  BY JobFacts DEF Reserve
<1>2. Quiet(a)
  BY ReserveKeeps
<1>3. CASE at'[a] = "idle"
  BY <1>2, <1>3, QuietL DEF Moving
<1>4. CASE at'[a] # "idle"
  <2>1. /\ at'[a] = "activate" /\ job'[a].h = job[a].h /\ InProgress(s) # NoBuf
        /\ job'[a].to = InProgress(s) /\ reg' = reg /\ buf' = buf
    BY <1>1, <1>4, ReserveKeeps
  <2>2. hnd'[job[a].h].slot = s
    BY <1>1, <1>2 DEF Quiet, HndSame
  <2>3. LoadOK(a)'
    BY <2>1, <2>2, OwnLoad DEF LoadOK, NextIn
  <2>4. \A b \in Apps : LoadOK(b)' \/ (at'[b] = at[b] /\ job'[b] = job[b])
    BY <1>2, <2>3 DEF Quiet, OthersStay
  <2> QED
    BY <1>2, <2>4, LQuiet, OwnKeptSame DEF LInv, Quiet
<1> QED
  BY <1>3, <1>4

LEMMA ValidateKeeps ==
  ASSUME IInv, LInv, NEW a \in Apps, NEW h \in Mine(a), Validate(a, h)
  PROVE  Quiet(a) /\ at'[a] \notin Moving
<1>1. PICK s \in Slots : s = hnd[h].slot
  BY MineFacts
<1>2. RegSame
  <2>1. Unstale(s) \in [Slots -> RegType] /\ reg \in [Slots -> RegType]
    BY UnstaleFacts, Types
  <2>2. \/ reg' = [Unstale(s) EXCEPT ![s] = [Unstale(s)[s] EXCEPT !.vInact = 0]]
        \/ reg' = [reg EXCEPT ![s] = [[reg[s] EXCEPT !.vInact = 0] EXCEPT !.vAct = 0]]
    BY <1>1, <2>1 DEF Validate
  <2>3. ASSUME reg' = [Unstale(s) EXCEPT ![s] = [Unstale(s)[s] EXCEPT !.vInact = 0]]
        PROVE  RegSame
    <3>1. \A r \in Slots : /\ reg'[r].id = Unstale(s)[r].id /\ reg'[r].name = Unstale(s)[r].name
                           /\ reg'[r].owner = Unstale(s)[r].owner /\ reg'[r].active = Unstale(s)[r].active
                           /\ reg'[r].next = Unstale(s)[r].next
      BY <2>1, <2>3 DEF RegType
    <3> QED
      BY <3>1, UnstaleFacts DEF RegSame
  <2>4. ASSUME reg' = [reg EXCEPT ![s] = [[reg[s] EXCEPT !.vInact = 0] EXCEPT !.vAct = 0]]
        PROVE  RegSame
    BY <2>1, <2>4 DEF RegSame, RegType
  <2> QED
    BY <2>2, <2>3, <2>4
<1>3. OwnKept /\ HndSame /\ gnd' = gnd
  BY OwnUnchanged, HndUnchanged DEF Validate, userVars, storeVars
<1>4. OthersStay(a) /\ at'[a] \notin Moving
  BY Types DEF Validate, Goto, Moving, OthersStay
<1> QED
  BY <1>2, <1>3, <1>4 DEF Quiet

LEMMA ValidateFunctionKeeps ==
  ASSUME IInv, NEW a \in Apps, ValidateFunction(a)
  PROVE  /\ UNCHANGED <<reg, hnd, seen, cds, gnd>> /\ OthersStay(a) /\ at'[a] = "idle"
         /\ \A q \in Places : /\ buf'[q].id = buf[q].id /\ buf'[q].data = buf[q].data
                              /\ buf'[q].valid => \/ buf[q].valid
                                                  \/ q = job[a].to /\ Passes(HSlot(a), buf[q].data)
<1>1. \A q \in Places : /\ buf'[q].id = buf[q].id /\ buf'[q].data = buf[q].data
                        /\ buf'[q].valid => \/ buf[q].valid
                                            \/ q = job[a].to /\ Passes(HSlot(a), buf[q].data)
  <2>1. PICK p : p = job[a].to
    OBVIOUS
  <2>2. buf' = buf \/ (Passes(HSlot(a), buf[p].data) /\ buf' = [buf EXCEPT ![p].valid = TRUE])
    BY <2>1 DEF ValidateFunction
  <2>3. buf \in [Places -> BufType]
    BY Types
  <2> QED
    BY <2>1, <2>2, <2>3 DEF BufType
<1> QED
  BY <1>1, OthersMove DEF ValidateFunction, Goto, userVars

LEMMA ValidateFunctionL ==
  ASSUME IInv, LInv, NEW a \in Apps, ValidateFunction(a)
  PROVE  LInv'
<1>1. OwnSame
  BY OwnPlaces, ValidateFunctionKeeps DEF OwnSame
<1> QED
  BY <1>1, ValidateFunctionKeeps, QuietSame, RegQuietSame, HndUnchanged, LCall DEF Moving

LEMMA DumpToBufferKeeps ==
  ASSUME IInv, LInv, NEW a \in Apps, NEW h \in Mine(a), DumpToBuffer(a, h)
  PROVE  Quiet(a) /\ at'[a] \notin Moving
<1> DEFINE s == hnd[h].slot
           d == reg[s].dump
<1>1. s \in Slots /\ reg \in [Slots -> RegType]
  BY MineFacts, Types
<1>2. d \in 0 .. LastDump
  BY <1>1 DEF RegType
<1>3. RegSame
  <2>1. reg' = reg \/ reg' = [reg EXCEPT ![s].dump = 0]
    BY DEF DumpToBuffer
  <2> HIDE DEF s
  <2> QED
    BY <1>1, <2>1 DEF RegSame, RegType
<1>4. OwnKept
  <2>1. buf' = buf \/ (d # 0 /\ buf' = [buf EXCEPT ![dmp[d].buf].data = buf[Place(dmp[d].source)].data])
    BY DEF DumpToBuffer, Snapshot, Live
  <2>2. d # 0 => dmp[d].buf \in Shared
    BY <1>1, DumpRefs
  <2>3. \A t \in Slots : \A q \in Own(t) : q \in Places /\ q \notin Shared
    BY OwnPlaces
  <2>4. buf \in [Places -> BufType]
    BY Types
  <2> HIDE DEF d
  <2> QED
    BY <2>1, <2>2, <2>3, <2>4 DEF OwnKept
<1>5. HndSame /\ gnd' = gnd
  BY HndUnchanged DEF DumpToBuffer, userVars
<1>6. OthersStay(a) /\ at'[a] \notin Moving
  BY OthersMove DEF DumpToBuffer, Goto, Moving
<1> QED
  BY <1>3, <1>4, <1>5, <1>6 DEF Quiet

-----------------------------------------------------------------------------
(* The commands of the ground, which only change loads in progress         *)

LEMMA LCommand ==
  ASSUME IInv, LInv, QuietGround
  PROVE  LInv'
BY LQuiet, HndUnchanged, OwnKeptSame DEF QuietGround

LEMMA IdleCommand == NoCmd.cmd \notin {"load", "read"}
BY NoCommand, Constants DEF CmdSteps

LEMMA FindTableKeeps ==
  ASSUME IInv, LInv, NEW c \in {"abort", "validate"}, NEW n \in Names, FindTable(c, n)
  PROVE  QuietGround
<1>1. gnd'.cmd = c
  BY DEF FindTable, NoCmd
<1> QED
  BY <1>1, QuietSame, RegQuietSame, OwnUnchanged DEF FindTable, userVars, storeVars, QuietGround

LEMMA AbortLoadCmdKeeps ==
  ASSUME IInv, LInv, AbortLoadCmd
  PROVE  QuietGround
<1>1. PICK s \in Slots : s = gnd.slot
  BY Types DEF CmdType
<1>2. UNCHANGED <<reg, buf>> \/ (buf' = Discarded(s) /\ reg' = [reg EXCEPT ![s].next = NoBuf])
  BY <1>1 DEF AbortLoadCmd
<1>3. RegSame /\ OwnKept
  BY <1>2, DiscardedSame, QuietSame, QuietNext, RegQuietSame, OwnUnchanged
<1> QED
  BY <1>3, IdleCommand DEF AbortLoadCmd, userVars, QuietGround, storeVars

LEMMA ValidateCmdKeeps ==
  ASSUME IInv, LInv, NEW active \in BOOLEAN, ValidateCmd(active)
  PROVE  QuietGround
<1> DEFINE s == gnd.slot
           r == IF active THEN reg ELSE Unstale(s)
<1>1. s \in Slots
  BY Types DEF CmdType
<1>2. r \in [Slots -> RegType] /\ \A t \in Slots :
        /\ r[t].id = reg[t].id /\ r[t].name = reg[t].name /\ r[t].owner = reg[t].owner
        /\ r[t].active = reg[t].active /\ r[t].next \in {reg[t].next, NoBuf}
  BY <1>1, UnstaleFacts, Types
<1>3. reg' = r \/ \E v \in 1 .. MaxValidations :
                    reg' = [r EXCEPT ![s].vAct = v] \/ reg' = [r EXCEPT ![s].vInact = v]
  <2>1. DOMAIN val = 1 .. MaxValidations
    BY Types
  <2> QED
    BY <2>1 DEF ValidateCmd
<1>4. RegSame
  <2> HIDE DEF s, r
  <2>1. CASE reg' = r
    BY <1>2, <2>1 DEF RegSame
  <2>2. ASSUME NEW v, reg' = [r EXCEPT ![s].vAct = v] \/ reg' = [r EXCEPT ![s].vInact = v]
        PROVE  RegSame
    <3>1. \A t \in Slots : /\ reg'[t].id = r[t].id /\ reg'[t].name = r[t].name /\ reg'[t].owner = r[t].owner
                           /\ reg'[t].active = r[t].active /\ reg'[t].next = r[t].next
      BY <1>1, <1>2, <2>2 DEF RegType
    <3> QED
      BY <1>2, <3>1 DEF RegSame
  <2> QED
    BY <1>3, <2>1, <2>2
<1>5. OwnKept
  BY OwnUnchanged DEF ValidateCmd, storeVars
<1> QED
  BY <1>4, <1>5, IdleCommand DEF ValidateCmd, userVars, QuietGround, storeVars

LEMMA SendHkCmdKeeps ==
  ASSUME IInv, LInv, SendHkCmd
  PROVE  QuietGround
<1>1. OwnKept
  <2>1. \A d \in 1 .. LastDump : dmp[d].buf \in Shared \cup {NoBuf}
    BY DEF IInv, DumpsOK
  <2>2. \A s \in Slots : \A p \in Own(s) : p \in Places /\ p \notin Shared /\ p # NoBuf
    BY OwnPlaces
  <2>3. \A s \in Slots : \A p \in Own(s) : ~\E d \in DOMAIN dmp : dmp[d].buf = p
    BY <2>1, <2>2, Types
  <2>4. \A s \in Slots : \A p \in Own(s) : buf'[p] = buf[p]
    BY <2>2, <2>3 DEF SendHkCmd
  <2> QED
    BY <2>4 DEF OwnKept
<1> QED
  BY <1>1, QuietSame, RegQuietSame DEF SendHkCmd, userVars, taskVars, LInv, QuietGround, storeVars

LEMMA DumpCmdKeeps ==
  ASSUME IInv, LInv, NEW n \in Names, NEW active \in BOOLEAN, DumpCmd(n, active)
  PROVE  QuietGround
<1>1. PICK s \in Slots, d \in DOMAIN dmp :
        /\ gnd' = [NoCmd EXCEPT !.cmd = "prepare", !.slot = s, !.dump = d]
        /\ reg' = IF active THEN reg ELSE Unstale(s)
  BY DEF DumpCmd, Named
<1>2. gnd'.cmd = "prepare"
  BY <1>1 DEF NoCmd
<1>3. RegSame
  BY <1>1, UnstaleQuiet, QuietSame, RegQuietSame
<1> QED
  BY <1>2, <1>3, OwnUnchanged DEF DumpCmd, userVars, storeVars, QuietGround

LEMMA PrepareDumpKeeps ==
  ASSUME IInv, LInv, PrepareDump
  PROVE  QuietGround
<1> DEFINE p == Place(<<-1, NextShared>>)
<1>1. RegSame
  <2>1. gnd.slot \in Slots
    BY Types DEF CmdType
  <2>2. reg' = reg \/ \E s \in Slots : \E d : reg' = [reg EXCEPT ![s].dump = d]
    BY <2>1 DEF PrepareDump
  <2>3. reg \in [Slots -> RegType]
    BY Types
  <2> QED
    BY <2>2, <2>3 DEF RegSame, RegType
<1>2. FreeShared # {} => p \in Shared
  <2>1. ASSUME FreeShared # {}
        PROVE  <<-1, NextShared>> \in BufIds /\ <<-1, NextShared>> # NoBuf /\ <<-1, NextShared>>[1] = -1
    BY <2>1, PrepareRoom, SharedIds DEF PrepareDump
  <2> QED
    BY <2>1, PlaceType, PlaceNow
<1>3. OwnKept
  <2>1. \A s \in Slots : \A q \in Own(s) : q \in Places /\ q \notin Shared
    BY OwnPlaces
  <2>2. FreeShared = {} => buf' = buf
    BY DEF PrepareDump
  <2>3. \A q \in Places : FreeShared # {} /\ q # p => buf'[q] = buf[q]
    BY Types DEF PrepareDump
  <2> HIDE DEF p
  <2> QED
    BY <1>2, <2>1, <2>2, <2>3 DEF OwnKept
<1> QED
  BY <1>1, <1>3, IdleCommand DEF PrepareDump, userVars, QuietGround, storeVars

-----------------------------------------------------------------------------
(* Buffers and descriptors that change: loads, readers, registration       *)

\* No descriptor holds the buffer of the next image.
LEMMA NextFree ==
  ASSUME IInv, LInv, NEW s \in Slots, NEW p \in Own(s), buf[p].id = NextIn(reg, s), NEW h \in Hs, hnd[h].locked
  PROVE  hnd[h].addr # p
<1> SUFFICES ASSUME hnd[h].addr = p
             PROVE  FALSE
  OBVIOUS
<1>1. HoldOK(h)
  BY DEF LInv
<1>2. hnd[h].slot \in Slots /\ p[1] = s /\ p[1] = hnd[h].slot
  BY <1>1, OwnPlaces, Types DEF HoldOK, HndType
<1>3. hnd[h].buf = NextIn(reg, s) /\ reg[s].active # NoBuf /\ hnd[h].buf[2] <= reg[s].active[2]
  BY <1>1, <1>2 DEF HoldOK
<1>4. reg[s].active[2] \in Nat
  BY <1>3, OwnNext DEF LInv
<1> QED
  BY <1>3, <1>4 DEF NextIn

\* A step of a load that writes to the working buffer, if there still is one.
Works(a, s) ==
  /\ at[a] \in {"write", "check"} /\ s = HSlot(a) /\ reg[s].owner = a /\ reg[s].id # 0
  /\ reg' = Unstale(s) /\ UNCHANGED <<hnd, seen, cds, gnd, job>> /\ OthersStay(a)
  /\ at'[a] \in {"check", "discard", "fault", "reserve"}
  /\ \A p \in Places : buf'[p].id = buf[p].id /\ (p # InProgress(s) => buf'[p] = buf[p])
  /\ at'[a] = "reserve" => InProgress(s) # NoBuf /\ Passes(s, buf'[InProgress(s)].data)

LEMMA LoadWrites ==
  ASSUME IInv, NEW a \in Apps, LoadWrite(a)
  PROVE  \E s \in Slots : Works(a, s)
<1>1. PICK s \in Slots : s = HSlot(a) /\ reg[s].owner = a /\ reg[s].id # 0
  BY JobFacts DEF LoadWrite, OwnerSteps
<1> DEFINE p == InProgress(s)
           d == job[a].data
<1>2. reg' = Unstale(s) /\ UNCHANGED <<hnd, seen, cds, gnd, job>> /\ at[a] = "write"
  BY <1>1 DEF LoadWrite, userVars
<1>3. \/ buf' = buf
      \/ buf' = [buf EXCEPT ![p].data = d]
      \/ buf' = [buf EXCEPT ![p].data = d, ![p].valid = reg[s].name \notin Checked]
  BY <1>1 DEF LoadWrite
<1>4. OthersStay(a) /\ at'[a] \in {"check", "discard", "fault"}
  BY <1>2, Types DEF LoadWrite, Goto, OthersStay
<1>5. \A q \in Places : buf'[q].id = buf[q].id /\ (q # p => buf'[q] = buf[q])
  <2>1. buf \in [Places -> BufType]
    BY Types
  <2> HIDE DEF p, d
  <2> QED
    BY <1>3, <2>1 DEF BufType
<1> QED
  BY <1>1, <1>2, <1>4, <1>5 DEF Works

LEMMA LoadChecks ==
  ASSUME IInv, NEW a \in Apps, LoadCheck(a)
  PROVE  \E s \in Slots : Works(a, s)
<1>1. PICK s \in Slots : s = HSlot(a) /\ reg[s].owner = a /\ reg[s].id # 0
  BY JobFacts DEF LoadCheck, OwnerSteps
<1> DEFINE p == InProgress(s)
<1>2. reg' = Unstale(s) /\ UNCHANGED <<hnd, seen, cds, gnd, job>> /\ at[a] = "check"
  BY <1>1 DEF LoadCheck, userVars
<1>3. \/ p = NoBuf /\ Goto(a, "discard") /\ buf' = buf
      \/ p # NoBuf /\ Passes(s, buf[p].data) /\ Goto(a, "reserve") /\ buf' = [buf EXCEPT ![p].valid = TRUE]
      \/ Goto(a, "discard") /\ buf' = [buf EXCEPT ![p].valid = FALSE, ![p].data = Blank]
  BY <1>1 DEF LoadCheck
<1>4. OthersStay(a) /\ at'[a] \in {"discard", "reserve"}
  BY <1>2, <1>3, Types DEF Goto, OthersStay
<1>5. buf \in [Places -> BufType] /\ (p # NoBuf => p \in Places)
  BY LoadFacts, Types
<1>6. \A q \in Places : buf'[q].id = buf[q].id /\ (q # p => buf'[q] = buf[q])
  <2> HIDE DEF p
  <2> QED
    BY <1>3, <1>5 DEF BufType
<1>7. at'[a] = "reserve" => p # NoBuf /\ Passes(s, buf'[p].data)
  <2>1. at'[a] = "reserve" => /\ p # NoBuf /\ Passes(s, buf[p].data)
                              /\ buf' = [buf EXCEPT ![p].valid = TRUE]
    BY <1>3, Types DEF Goto
  <2> HIDE DEF p
  <2>2. at'[a] = "reserve" => buf'[p].data = buf[p].data
    BY <1>5, <2>1 DEF BufType
  <2> QED
    BY <2>1, <2>2
<1> QED
  BY <1>1, <1>2, <1>4, <1>6, <1>7 DEF Works

LEMMA WorkL ==
  ASSUME IInv, LInv, NEW a \in Apps, NEW s \in Slots, Works(a, s)
  PROVE  LInv'
<1>0. /\ reg' = Unstale(s) /\ UNCHANGED <<hnd, seen, gnd, job>> /\ OthersStay(a)
      /\ at'[a] \in {"check", "discard", "fault", "reserve"}
      /\ \A p \in Places : buf'[p].id = buf[p].id /\ (p # InProgress(s) => buf'[p] = buf[p])
  BY DEF Works
<1>1. s = hnd[job[a].h].slot /\ reg[s].next \in {NoBuf, NextIn(reg, s)}
  BY JobFacts DEF LInv, LoadOK, Works
<1>2. RegSame
  BY <1>0, UnstaleQuiet, RegQuietSame
<1>3. ASSUME NEW t \in Slots
      PROVE  TableOK(t)'
  BY <1>0, <1>2, OwnPlaces, TableFrame DEF LInv, RegSame
<1>4. ASSUME NEW b \in Apps
      PROVE  LoadOK(b)'
  <2>1. CASE b # a
    <3>1. at'[b] = at[b] /\ job'[b] = job[b]
      BY <1>0, <2>1 DEF OthersStay
    <3>2. at[b] \in Moving => job[b].h \in Hs /\ hnd[job[b].h].slot \in Slots
      BY JobFacts, MineFacts DEF Moving
    <3>3. \A t \in Slots : \A p \in Own(t) : buf'[p].id = buf[p].id
      BY <1>0, OwnPlaces
    <3> QED
      BY <1>0, <1>2, <3>1, <3>2, <3>3, LoadFrame DEF LInv, RegSame
  <2>2. CASE b = a
    <3>1. hnd'[job'[a].h].slot = s /\ NextIn(reg', s) = NextIn(reg, s)
      BY <1>0, <1>1, <1>2 DEF RegSame, NextIn
    <3>2. reg'[s].next \in {NoBuf, NextIn(reg', s)}
      BY <1>1, <1>2, <3>1 DEF RegSame
    <3>3. at'[a] \notin {"activate", "copy"}
      BY <1>0
    <3> QED
      BY <2>2, <3>1, <3>2, <3>3 DEF LoadOK
  <2> QED
    BY <2>1, <2>2
<1>5. ASSUME NEW h \in Hs
      PROVE  HoldOK(h)'
  <2>1. HoldOK(h) /\ hnd[h].slot \in Slots
    BY Types DEF LInv, HndType
  <2>2. hnd[h].locked => hnd[h].addr \in Places
    BY <2>1, OwnPlaces DEF HoldOK
  <2>3. hnd[h].locked => hnd[h].addr # InProgress(s)
    <3>1. CASE InProgress(s) = NoBuf
      BY <2>2, <3>1, NoBufId
    <3>2. CASE InProgress(s) # NoBuf
      BY <1>1, <3>2, OwnLoad, NextFree
    <3> QED
      BY <3>1, <3>2
  <2> QED
    BY <1>0, <1>2, <2>1, <2>2, <2>3, HoldFrame DEF RegSame
<1>6. gnd'.cmd \notin {"load", "read"}
  BY <1>0 DEF LInv
<1> QED
  BY <1>3, <1>4, <1>5, <1>6 DEF LInv

LEMMA HoldL ==
  ASSUME IInv, LInv, NEW a \in Apps, OthersStay(a), at'[a] \notin Moving, reg' = reg, gnd' = gnd,
         \A p \in Places : buf'[p].id = buf[p].id, \A h \in Hs : hnd'[h].slot = hnd[h].slot,
         \A h \in Hs : HoldOK(h)'
  PROVE  LInv'
<1>1. \A t \in Slots : \A p \in Own(t) : buf'[p].id = buf[p].id
  BY OwnPlaces
<1>2. ASSUME NEW t \in Slots
      PROVE  TableOK(t)'
  BY <1>1, TableFrame DEF LInv
<1>3. ASSUME NEW b \in Apps
      PROVE  LoadOK(b)'
  <2>1. CASE b = a
    BY <2>1 DEF LoadOK, Moving
  <2>2. CASE b # a
    <3>1. at'[b] = at[b] /\ job'[b] = job[b]
      BY <2>2 DEF OthersStay
    <3>2. at[b] \in Moving => job[b].h \in Hs /\ hnd[job[b].h].slot \in Slots
      BY JobFacts, MineFacts DEF Moving
    <3> QED
      BY <1>1, <3>1, <3>2, LoadFrame DEF LInv
  <2> QED
    BY <2>1, <2>2
<1> QED
  BY <1>2, <1>3 DEF LInv

LEMMA GetAddressL ==
  ASSUME IInv, LInv, NEW a \in Apps, NEW h \in Mine(a), GetAddress(a, h)
  PROVE  LInv'
<1> DEFINE s == hnd[h].slot
           p == Place(reg[s].active)
           x == [hnd[h] EXCEPT !.locked = TRUE, !.buf = buf[p].id, !.addr = p]
<1>1. h \in Hs /\ hnd[h].used /\ hnd[h].app = a /\ a # None /\ s \in Slots /\ reg[s].id # 0
  BY MineFacts
<1>2. reg[s].active # NoBuf /\ p \in Own(s) /\ p \in Places /\ buf[p].id = reg[s].active /\ reg[s].active[2] \in Nat
  <2>1. reg[s].active # NoBuf
    BY DEF GetAddress
  <2>2. PlaceIn(reg, reg[s].active) \in Own(s) /\ reg[s].active[2] \in Nat
    BY <1>1, <2>1, OwnNext DEF LInv
  <2>3. buf[PlaceIn(reg, reg[s].active)].id = reg[s].active
    BY <1>1, <2>1 DEF LInv, TableOK
  <2>4. p = PlaceIn(reg, reg[s].active)
    BY PlaceNow
  <2>5. Own(s) \subseteq Places
    BY <1>1, OwnPlaces
  <2> HIDE DEF p
  <2> QED
    BY <2>1, <2>2, <2>3, <2>4, <2>5
<1>3. hnd' = [hnd EXCEPT ![h] = x] /\ seen' = [seen EXCEPT ![h] = buf[p].data] /\ UNCHANGED <<reg, buf, gnd>>
  BY DEF GetAddress, storeVars
<1>4. x.used /\ x.app = a /\ x.slot = s /\ x.locked /\ x.buf = reg[s].active /\ x.addr = p
  <2>1. hnd[h] \in HndType
    BY <1>1, Types
  <2> HIDE DEF p
  <2> QED
    BY <1>1, <1>2, <2>1 DEF HndType
<1>5. hnd \in [Hs -> HndType] /\ seen \in [Hs -> Data]
  BY Types
<1>6. HoldOK(h)'
  <2> HIDE DEF x, s, p
  <2>1. hnd'[h] = x /\ seen'[h] = buf[p].data
    BY <1>1, <1>3, <1>5
  <2> QED
    BY <1>1, <1>2, <1>3, <1>4, <2>1 DEF HoldOK
<1>7. ASSUME NEW g \in Hs, g # h
      PROVE  HoldOK(g)'
  BY <1>3, <1>5, <1>7 DEF HoldOK, LInv
<1>8. \A g \in Hs : hnd'[g].slot = hnd[g].slot
  <2> HIDE DEF x
  <2> QED
    BY <1>1, <1>3, <1>4, <1>5
<1>9. OthersStay(a) /\ at'[a] \notin Moving
  BY Types DEF GetAddress, Goto, OthersStay, Moving
<1> QED
  BY <1>3, <1>6, <1>7, <1>8, <1>9, HoldL

LEMMA ReleaseAddressL ==
  ASSUME IInv, LInv, NEW a \in Apps, NEW h \in Mine(a), ReleaseAddress(a, h)
  PROVE  LInv'
<1>1. h \in Hs
  BY MineFacts
<1>2. hnd \in [Hs -> HndType] /\ seen \in [Hs -> Data]
  BY Types
<1>3. hnd' = [hnd EXCEPT ![h] = [hnd[h] EXCEPT !.locked = FALSE, !.addr = NoBuf]]
      /\ seen' = [seen EXCEPT ![h] = Blank] /\ UNCHANGED <<reg, buf, gnd, at, job>> /\ at[a] = "idle"
  BY DEF ReleaseAddress, storeVars, taskVars, Begin
<1>4. ~hnd'[h].locked /\ hnd'[h].slot = hnd[h].slot
  BY <1>1, <1>2, <1>3 DEF HndType
<1>5. \A g \in Hs : g # h => hnd'[g] = hnd[g] /\ seen'[g] = seen[g]
  BY <1>2, <1>3
<1>6. ASSUME NEW g \in Hs
      PROVE  HoldOK(g)'
  <2>1. CASE g = h
    BY <1>4, <2>1 DEF HoldOK
  <2>2. CASE g # h
    BY <1>3, <1>5, <2>2 DEF HoldOK, LInv
  <2> QED
    BY <2>1, <2>2
<1> QED
  BY <1>3, <1>4, <1>5, <1>6, HoldL DEF OthersStay, Moving

LEMMA ModifiedL ==
  ASSUME IInv, LInv, NEW a \in Apps, NEW h \in Mine(a), NEW d \in Images, Modified(a, h, d)
  PROVE  LInv'
<1> DEFINE p == hnd[h].addr
<1>1. h \in Hs /\ hnd[h].locked
  BY MineFacts DEF Modified
<1>2. buf \in [Places -> BufType] /\ hnd \in [Hs -> HndType]
  BY Types
<1>3. buf' = [buf EXCEPT ![p].data = d]
      /\ seen' = [g \in Hs |-> IF hnd[g].addr = p /\ hnd[g].locked THEN d ELSE seen[g]]
      /\ UNCHANGED <<reg, gnd>>
  BY DEF Modified
<1>4. \A q \in Places : buf'[q].id = buf[q].id /\ buf'[q].data = IF q = p THEN d ELSE buf[q].data
  <2> HIDE DEF p
  <2> QED
    BY <1>2, <1>3 DEF BufType
<1>5. \A g \in Hs : /\ hnd'[g].used <=> hnd[g].used
                    /\ hnd'[g].app = hnd[g].app /\ hnd'[g].slot = hnd[g].slot
                    /\ hnd'[g].locked <=> hnd[g].locked
                    /\ hnd'[g].buf = hnd[g].buf /\ hnd'[g].addr = hnd[g].addr
  <2>1. \A g \in Hs : hnd[g] \in HndType /\ hnd'[g] \in {hnd[g], [hnd[g] EXCEPT !.updated = TRUE]}
    BY <1>2 DEF Modified
  <2> TAKE g \in Hs
  <2>2. hnd[g] \in HndType /\ hnd'[g] \in {hnd[g], [hnd[g] EXCEPT !.updated = TRUE]}
    BY <2>1
  <2> QED
    BY <2>2, HndTold
<1>6. ASSUME NEW g \in Hs
      PROVE  HoldOK(g)'
  <2>1. HoldOK(g) /\ hnd[g].slot \in Slots
    BY <1>2 DEF LInv, HndType
  <2>2. hnd[g].locked => hnd[g].addr \in Places
    BY <2>1, OwnPlaces DEF HoldOK
  <2>3. hnd[g].locked => seen'[g] = buf'[hnd[g].addr].data /\ buf'[hnd[g].addr].id = buf[hnd[g].addr].id
    <3> HIDE DEF p
    <3> QED
      BY <1>3, <1>4, <2>1, <2>2 DEF HoldOK
  <2> QED
    BY <1>3, <1>5, <2>1, <2>3 DEF HoldOK
<1>7. OthersStay(a) /\ at'[a] \notin Moving
  BY Types DEF Modified, Goto, OthersStay, Moving, Begin
<1> QED
  BY <1>3, <1>4, <1>5, <1>6, <1>7, HoldL

\* A buffer of its own becomes the active one of a table: which, under which identifier.
ActivatedAt(a, s, p, i) ==
  /\ at[a] = "activate" /\ s = hnd[job[a].h].slot /\ reg[s].owner = a /\ reg[s].id # 0
  /\ reg[s].name \in Double /\ p = job[a].to /\ p \in Places /\ i = buf[p].id /\ i # NoBuf
  /\ i \in {reg[s].active, NextIn(reg, s)} /\ reg[s].next \in {NoBuf, i} /\ PlaceIn(reg, i) = p
  /\ reg'[s].id = reg[s].id /\ reg'[s].name = reg[s].name /\ reg'[s].owner = reg[s].owner
  /\ reg'[s].next = reg[s].next /\ reg'[s].active = i
  /\ \A t \in Slots : t # s => reg'[t] = reg[t]
  /\ UNCHANGED <<buf, hnd, seen, cds, job, gnd>> /\ OthersStay(a) /\ at'[a] = "notify"

LEMMA Activates ==
  ASSUME IInv, LInv, NEW a \in Apps, Activate(a)
  PROVE  \E s \in Slots, i \in BufIds : \E p \in Own(s) : ActivatedAt(a, s, p, i)
<1>1. PICK s \in Slots : s = HSlot(a) /\ s = hnd[job[a].h].slot /\ reg[s].owner = a /\ reg[s].id # 0
  BY JobFacts DEF Activate, OwnerSteps
<1>2. PICK p \in Own(s) : p = job[a].to /\ p \in Places
  <2>1. job[a].to \in Own(s)
    BY <1>1 DEF Activate, IInv, JobsOK, JobOK
  <2> QED
    BY <2>1, OwnPlaces
<1>3. PICK i \in BufIds : i = buf[p].id
  BY <1>2, Types DEF BufType
<1>4. /\ reg[s].name \in Double /\ i # NoBuf /\ i \in {reg[s].active, NextIn(reg, s)}
      /\ reg[s].next \in {NoBuf, i}
  BY <1>1, <1>2, <1>3 DEF LInv, LoadOK, Activate
<1>5. reg' = [reg EXCEPT ![s] = [[reg[s] EXCEPT !.prev = reg[s].active] EXCEPT !.active = i]]
  BY <1>1, <1>2, <1>3, Types DEF Activate
<1>6. /\ reg'[s].id = reg[s].id /\ reg'[s].name = reg[s].name /\ reg'[s].owner = reg[s].owner
      /\ reg'[s].next = reg[s].next /\ reg'[s].active = i
      /\ \A t \in Slots : t # s => reg'[t] = reg[t]
  BY <1>5, Types DEF RegType
<1>7. UNCHANGED <<buf, hnd, seen, cds, job, gnd>> /\ OthersStay(a) /\ at'[a] = "notify" /\ at[a] = "activate"
  BY Types DEF Activate, Goto, userVars, storeVars, OthersStay
<1>8. PlaceIn(reg, i) = p
  BY <1>2, <1>3, <1>4 DEF IInv, IdsOK
<1> QED
  BY <1>1, <1>2, <1>3, <1>4, <1>6, <1>7, <1>8 DEF ActivatedAt

LEMMA ActivateL ==
  ASSUME IInv, LInv, NEW a \in Apps, Activate(a)
  PROVE  LInv'
<1>1. PICK s \in Slots, i \in BufIds : \E p \in Own(s) : ActivatedAt(a, s, p, i)
  BY Activates
<1>2. PICK p \in Own(s) : ActivatedAt(a, s, p, i)
  BY <1>1
<1>4. /\ reg[s].name \in Double /\ i # NoBuf /\ i \in {reg[s].active, NextIn(reg, s)}
      /\ reg[s].next \in {NoBuf, i} /\ PlaceIn(reg, i) = p /\ i = buf[p].id
      /\ s = hnd[job[a].h].slot /\ reg[s].owner = a /\ reg[s].id # 0
  BY <1>2 DEF ActivatedAt
<1>6. /\ reg'[s].id = reg[s].id /\ reg'[s].name = reg[s].name /\ reg'[s].owner = reg[s].owner
      /\ reg'[s].next = reg[s].next /\ reg'[s].active = i
      /\ \A t \in Slots : t # s => reg'[t] = reg[t]
  BY <1>2 DEF ActivatedAt
<1>7. UNCHANGED <<buf, hnd, seen, job, gnd>> /\ OthersStay(a) /\ at'[a] = "notify"
  BY <1>2 DEF ActivatedAt
<1>8. ASSUME NEW t \in Slots
      PROVE  TableOK(t)'
  <2>1. CASE t = s
    <3>1. PlaceIn(reg', i) = p
      <4>1. i[1] \in {s, -1}
        BY <1>4, NextType, Types DEF IInv, IdsOK
      <4>2. i # NoBuf /\ i[1] # -1 => reg[i[1]].name = reg'[i[1]].name
        BY <1>6, <4>1
      <4>3. PlaceIn(reg', i) = PlaceIn(reg, i)
        BY <4>2, PlaceSame
      <4> QED
        BY <1>4, <4>3
    <3>2. reg[s].owner # None => reg[s].name # None
      BY DEF LInv, TableOK
    <3>3. buf'[PlaceIn(reg', i)].id = i
      BY <1>4, <1>7, <3>1
    <3> QED
      BY <1>4, <1>6, <2>1, <3>2, <3>3 DEF TableOK
  <2>2. CASE t # s
    BY <1>6, <1>7, <2>2, TableFrame DEF LInv
  <2> QED
    BY <2>1, <2>2
<1>9. ASSUME NEW b \in Apps
      PROVE  LoadOK(b)'
  <2>1. CASE b = a
    BY <1>7, <2>1 DEF LoadOK
  <2>2. CASE b # a
    <3>1. at'[b] = at[b] /\ job'[b] = job[b]
      BY <1>7, <2>2 DEF OthersStay
    <3>2. at[b] \in Moving => hnd[job[b].h].slot \in Slots /\ hnd[job[b].h].slot # s
      BY <1>4, <2>2, JobFacts DEF Moving, OwnerSteps
    <3> QED
      BY <1>6, <1>7, <3>1, <3>2, LoadFrame DEF LInv
  <2> QED
    BY <2>1, <2>2
<1>10. ASSUME NEW h \in Hs
       PROVE  HoldOK(h)'
  <2>1. HoldOK(h) /\ hnd[h].slot \in Slots
    BY Types DEF LInv, HndType
  <2>2. CASE hnd[h].slot = s /\ hnd[h].locked
    <3>1. reg[s].active # NoBuf /\ hnd[h].buf[2] <= reg[s].active[2] /\ reg[s].active[2] \in Nat
      BY <2>1, <2>2, OwnNext DEF LInv, HoldOK
    <3>2. hnd[h].buf[2] \in Int
      BY <2>1, <2>2, IdForms, Types, Constants DEF HoldOK, HndType
    <3>3. hnd[h].buf[2] <= i[2]
      <4>1. i[2] = reg[s].active[2] \/ i[2] = reg[s].active[2] + 1
        <5>1. NextIn(reg, s) = <<s, reg[s].active[2] + 1>>
          BY <3>1 DEF NextIn
        <5>2. NextIn(reg, s)[2] = reg[s].active[2] + 1
          BY <5>1
        <5> QED
          BY <1>4, <5>2
      <4> QED
        BY <3>1, <3>2, <4>1
    <3> QED
      BY <1>4, <1>6, <1>7, <2>1, <2>2, <3>3 DEF HoldOK
  <2>3. CASE ~(hnd[h].slot = s /\ hnd[h].locked)
    BY <1>6, <1>7, <2>1, <2>3 DEF HoldOK
  <2> QED
    BY <2>2, <2>3
<1> QED
  BY <1>7, <1>8, <1>9, <1>10 DEF LInv

\* The buffer of the next image stands beside the active one.
LEMMA Beside ==
  ASSUME IInv, NEW s \in Slots, TableOK(s), reg[s].name \in Double, reg[s].active # NoBuf
  PROVE  PlaceIn(reg, NextIn(reg, s)) # PlaceIn(reg, reg[s].active)
<1>1. reg[s].active \in BufIds /\ reg[s].active[1] = s /\ reg[s].active[2] \in Nat /\ s # -1
  <2>1. reg[s].active \in BufIds
    BY Types DEF RegType
  <2>2. reg[s].active[1] = s /\ reg[s].active[2] \in Nat
    BY OwnNext DEF IInv, IdsOK
  <2> QED
    BY <2>1, <2>2, Constants DEF Slots
<1>2. PlaceIn(reg, reg[s].active) = <<s, reg[s].active[2] % 2>>
  BY <1>1 DEF PlaceIn
<1>3. PlaceIn(reg, NextIn(reg, s)) = <<s, (reg[s].active[2] + 1) % 2>>
  <2>1. NextIn(reg, s) = <<s, reg[s].active[2] + 1>>
    BY DEF NextIn
  <2>2. NextIn(reg, s)[1] = s /\ NextIn(reg, s)[2] = reg[s].active[2] + 1 /\ NextIn(reg, s) # NoBuf
    BY <1>1, <2>1 DEF NoBuf
  <2> QED
    BY <1>1, <2>2 DEF PlaceIn
<1>4. reg[s].active[2] % 2 # (reg[s].active[2] + 1) % 2
  BY <1>1
<1> QED
  BY <1>2, <1>3, <1>4

\* A working buffer is claimed for a load: which, under which identifier.
ClaimedAt(a, h, s, p, i) ==
  /\ s = hnd[h].slot /\ reg[s].id # 0 /\ reg[s].owner = a /\ reg[s].next = NoBuf
  /\ reg[s].name \in Double /\ at[a] = "idle"
  /\ i = NextIn(reg, s) /\ i # NoBuf /\ i[1] = s /\ p = PlaceIn(reg, i) /\ p \in Places /\ buf'[p].id = i
  /\ LockedBy(p, s) => buf[p].id \in {i, NoBuf}
  /\ \A t \in Slots : \A q \in Own(t) : /\ q \in Places /\ q[1] = t
                                        /\ t # s => q # p /\ buf'[q] = buf[q]
  /\ \A r \in Places : r # p => buf'[r] = buf[r]
  /\ reg'[s].id = reg[s].id /\ reg'[s].name = reg[s].name /\ reg'[s].owner = reg[s].owner
  /\ reg'[s].next = i /\ reg'[s].active = reg[s].active
  /\ \A t \in Slots : t # s => reg'[t] = reg[t]
  /\ UNCHANGED <<hnd, seen, cds, gnd>> /\ OthersStay(a) /\ at'[a] = "write" /\ job'[a].h = h

LEMMA Claims ==
  ASSUME IInv, LInv, LoadsAside, NEW a \in Apps, NEW h \in Mine(a), NEW d \in Images, Load(a, h, d)
  PROVE  \E s \in Slots, i \in BufIds : \E p \in Own(s) : ClaimedAt(a, h, s, p, i)
<1>1. PICK s \in Slots : s = hnd[h].slot
  BY MineFacts
<1>2. reg[s].id # 0 /\ reg[s].owner = a /\ reg[s].next = NoBuf /\ reg[s].name \in Double /\ at[a] = "idle"
  <2>1. reg[s].owner = a /\ reg[s].next = NoBuf /\ reg[s].name \notin DumpOnly /\ at[a] = "idle"
    BY <1>1 DEF Load, Begin
  <2>2. reg[s].name \in Names
    BY <2>1, Constants, Types DEF LInv, TableOK, RegType
  <2> QED
    BY <1>1, <2>1, <2>2, MineFacts DEF LoadsAside
<1>3. PICK i \in BufIds, p \in Places : WorkingAt(s, i, p)
  BY <1>1, <1>2, WorkingFacts DEF Load
<1>4. /\ i = NextIn(reg, s) /\ p = Exclusive(s) /\ p = PlaceIn(reg, i) /\ buf'[p].id = i /\ i # NoBuf
      /\ \A r \in Places : r # p => buf'[r] = buf[r]
      /\ reg' = [reg EXCEPT ![s] = [reg[s] EXCEPT !.next = i]] /\ NextIn(reg, s)[2] <= LastGen
  BY <1>2, <1>3, Types DEF WorkingAt, IsDouble
<1>5. p \in Own(s) /\ p # NoBuf /\ i[1] = s /\ (LockedBy(p, s) => buf[p].id \in {NextIn(reg, s), NoBuf})
  <2>1. Exclusive(s) # NoBuf /\ NextIn(reg, s)[2] <= LastGen /\ p # NoBuf
    BY <1>3, <1>4, NoBufId
  <2>2. /\ Exclusive(s) \in Own(s) /\ NextIn(reg, s)[1] = s
        /\ LockedBy(Exclusive(s), s) => buf[Exclusive(s)].id \in {NextIn(reg, s), NoBuf}
    BY <2>1, ExclusiveFacts
  <2> QED
    BY <1>4, <2>1, <2>2
<1>11. \A t \in Slots : \A q \in Own(t) : /\ q \in Places /\ q[1] = t
                                          /\ t # s => q # p /\ buf'[q] = buf[q]
  <2>1. p[1] = s /\ \A t \in Slots : \A q \in Own(t) : q \in Places /\ q[1] = t
    BY <1>5, OwnPlaces
  <2> QED
    BY <1>4, <2>1
<1>6. /\ reg'[s].id = reg[s].id /\ reg'[s].name = reg[s].name /\ reg'[s].owner = reg[s].owner
      /\ reg'[s].next = i /\ reg'[s].active = reg[s].active
      /\ \A t \in Slots : t # s => reg'[t] = reg[t]
  BY <1>4, RegNext, Types
<1>7. /\ UNCHANGED <<hnd, seen, cds, gnd>> /\ OthersStay(a) /\ at'[a] = "write" /\ job'[a].h = h
  BY <1>1, MineFacts, Types DEF Load, Goto, userVars, OthersStay, JobType
<1> QED
  BY <1>1, <1>2, <1>4, <1>5, <1>6, <1>7, <1>11 DEF ClaimedAt

LEMMA LoadL ==
  ASSUME IInv, LInv, LoadsAside, NEW a \in Apps, NEW h \in Mine(a), NEW d \in Images, Load(a, h, d)
  PROVE  LInv'
<1>1. PICK s \in Slots, i \in BufIds : \E p \in Own(s) : ClaimedAt(a, h, s, p, i)
  BY Claims
<1>2. PICK p \in Own(s) : ClaimedAt(a, h, s, p, i)
  BY <1>1
<1>3. /\ s = hnd[h].slot /\ reg[s].id # 0 /\ reg[s].owner = a /\ reg[s].name \in Double /\ at[a] = "idle"
      /\ i = NextIn(reg, s) /\ i # NoBuf /\ i[1] = s /\ p = PlaceIn(reg, i) /\ buf'[p].id = i
      /\ p \in Places /\ (LockedBy(p, s) => buf[p].id \in {i, NoBuf})
  BY <1>2 DEF ClaimedAt
<1>4. \A r \in Places : r # p => buf'[r] = buf[r]
  BY <1>2 DEF ClaimedAt
<1>5. \A t \in Slots : \A q \in Own(t) : /\ q \in Places /\ q[1] = t
                                         /\ t # s => q # p /\ buf'[q] = buf[q]
  BY <1>2 DEF ClaimedAt
<1>6. /\ reg'[s].id = reg[s].id /\ reg'[s].name = reg[s].name /\ reg'[s].owner = reg[s].owner
      /\ reg'[s].next = i /\ reg'[s].active = reg[s].active
      /\ \A t \in Slots : t # s => reg'[t] = reg[t]
  BY <1>2 DEF ClaimedAt
<1>7. /\ UNCHANGED <<hnd, seen, gnd>> /\ OthersStay(a) /\ at'[a] = "write" /\ job'[a].h = h
  BY <1>2 DEF ClaimedAt
<1>8. ASSUME NEW t \in Slots
      PROVE  TableOK(t)'
  <2>1. CASE t = s
    <3>1. TableOK(s)
      BY DEF LInv
    <3>2. PlaceIn(reg', i) = p /\ NextIn(reg', s) = i
      <4>1. PlaceIn(reg', i) = PlaceIn(reg, i)
        BY <1>3, <1>6, PlaceSame
      <4>2. NextIn(reg', s) = NextIn(reg, s)
        BY <1>6 DEF NextIn
      <4> QED
        BY <1>3, <4>1, <4>2
    <3>3. reg[s].active # NoBuf =>
            /\ PlaceIn(reg', reg[s].active) = PlaceIn(reg, reg[s].active)
            /\ PlaceIn(reg, reg[s].active) \in Places /\ PlaceIn(reg, reg[s].active) # p
      <4> HAVE reg[s].active # NoBuf
      <4>1. reg[s].active \in BufIds /\ reg[s].active[1] = s
        BY Types DEF RegType, IInv, IdsOK
      <4>2. PlaceIn(reg', reg[s].active) = PlaceIn(reg, reg[s].active)
        BY <1>6, <4>1, PlaceSame
      <4> QED
        BY <1>3, <3>1, <4>1, <4>2, Beside, PlaceType
    <3>4. reg[s].active # NoBuf => buf'[PlaceIn(reg', reg'[s].active)].id = reg'[s].active
      BY <1>3, <1>4, <1>6, <3>1, <3>3 DEF TableOK
    <3>5. buf'[PlaceIn(reg', i)].id = i
      BY <1>3, <3>2
    <3>6. reg[s].owner # None => reg[s].name # None
      BY <3>1 DEF TableOK
    <3> QED
      BY <1>3, <1>6, <2>1, <3>2, <3>4, <3>5, <3>6 DEF TableOK
  <2>2. CASE t # s
    <3>1. \A q \in Own(t) : buf'[q].id = buf[q].id
      BY <1>5, <2>2
    <3> QED
      BY <1>6, <2>2, <3>1, TableFrame DEF LInv
  <2> QED
    BY <2>1, <2>2
<1>9. ASSUME NEW b \in Apps
      PROVE  LoadOK(b)'
  <2>1. CASE b = a
    <3>1. NextIn(reg', s) = i
      BY <1>3, <1>6 DEF NextIn
    <3> QED
      BY <1>3, <1>6, <1>7, <2>1, <3>1 DEF LoadOK
  <2>2. CASE b # a
    <3>1. at'[b] = at[b] /\ job'[b] = job[b]
      BY <1>7, <2>2 DEF OthersStay
    <3>2. at[b] \in Moving => hnd[job[b].h].slot \in Slots /\ hnd[job[b].h].slot # s
      BY <1>3, <2>2, JobFacts DEF Moving, OwnerSteps
    <3>3. at[b] \in Moving => \A q \in Own(hnd[job[b].h].slot) : buf'[q].id = buf[q].id
      BY <1>5, <3>2
    <3> QED
      BY <1>6, <1>7, <3>1, <3>2, <3>3, LoadFrame DEF LInv
  <2> QED
    BY <2>1, <2>2
<1>10. ASSUME NEW g \in Hs
       PROVE  HoldOK(g)'
  <2>1. HoldOK(g) /\ hnd[g].slot \in Slots
    BY Types DEF LInv, HndType
  <2>2. hnd[g].locked => hnd[g].addr # p
    <3> SUFFICES ASSUME hnd[g].locked, hnd[g].addr = p
                 PROVE  FALSE
      OBVIOUS
    <3>1. hnd[g].slot = s /\ hnd[g].used /\ hnd[g].app # None
      BY <1>5, <2>1 DEF HoldOK
    <3>2. buf[p].id = hnd[g].buf /\ hnd[g].buf # NoBuf
      BY <2>1 DEF HoldOK
    <3>3. Place(hnd[g].buf) = p
      BY <1>3, <3>2, PlaceNow DEF IInv, IdsOK
    <3>4. LockedBy(p, s)
      BY <3>1, <3>3 DEF LockedBy, Links
    <3> QED
      BY <1>3, <3>2, <3>4, NextFree
  <2>3. hnd[g].locked => hnd[g].addr \in Places
    BY <2>1, OwnPlaces DEF HoldOK
  <2>4. reg'[hnd[g].slot].active = reg[hnd[g].slot].active
    BY <1>6, <2>1
  <2> QED
    BY <1>4, <1>7, <2>1, <2>2, <2>3, <2>4, HoldFrame
<1> QED
  BY <1>7, <1>8, <1>9, <1>10 DEF LInv

\* A step that takes free records, and descriptors that nobody has.
LEMMA NewL ==
  ASSUME IInv, LInv, UNCHANGED <<at, job, gnd, seen>>,
         \A t \in Slots : reg[t].id # 0 => reg'[t] = reg[t] /\ \A p \in Own(t) : buf'[p] = buf[p],
         \A t \in Slots : reg[t].id = 0 => TableOK(t)',
         \A g \in Hs : hnd[g].used => hnd'[g] = hnd[g],
         \A g \in Hs : ~hnd[g].used => ~hnd'[g].locked
  PROVE  LInv'
<1>1. ASSUME NEW t \in Slots
      PROVE  TableOK(t)'
  BY TableFrame DEF LInv
<1>2. ASSUME NEW b \in Apps
      PROVE  LoadOK(b)'
  <2>1. at[b] \in Moving => /\ job[b].h \in Hs /\ hnd[job[b].h].used
                            /\ hnd[job[b].h].slot \in Slots /\ reg[hnd[job[b].h].slot].id # 0
    BY JobFacts, MineFacts DEF Moving
  <2> QED
    BY <2>1, LoadFrame DEF LInv
<1>3. ASSUME NEW h \in Hs
      PROVE  HoldOK(h)'
  <2>1. CASE hnd[h].used /\ hnd[h].locked
    <3>1. HoldOK(h) /\ hnd[h].slot \in Slots
      BY Types DEF LInv, HndType
    <3>2. reg[hnd[h].slot].id # 0
      BY <2>1, <3>1 DEF HoldOK, IInv, DescriptorsLinked, Used
    <3>3. hnd[h].addr \in Own(hnd[h].slot) /\ hnd'[h] = hnd[h]
      BY <2>1, <3>1 DEF HoldOK
    <3> QED
      BY <2>1, <3>1, <3>2, <3>3 DEF HoldOK
  <2>2. CASE ~(hnd[h].used /\ hnd[h].locked)
    BY <2>2 DEF HoldOK
  <2> QED
    BY <2>1, <2>2
<1> QED
  BY <1>1, <1>2, <1>3 DEF LInv

LEMMA ShareL ==
  ASSUME Inv, LInv, NEW a \in Apps, NEW n \in Names, Share(a, n)
  PROVE  LInv'
<1>1. PICK s \in Slots : s \in Named(n) /\ Connect(a, s, reg[s].id, n \notin DumpOnly /\ reg[s].active # NoBuf)
  BY DEF Share, Named
<1>2. PICK i \in 0 .. LastReg : i = reg[s].id
  BY Types DEF RegType, Inv
<1>3. PICK u \in BOOLEAN : Connect(a, s, i, u)
  BY <1>1, <1>2
<1>4. PICK h \in Hs : ~hnd[h].used /\ ~hnd'[h].locked /\ \A g \in Hs : g # h => hnd'[g] = hnd[g]
  BY <1>3, ConnectFacts
<1>5. UNCHANGED <<reg, buf, at, job, gnd, seen>>
  BY DEF Share, storeVars, taskVars
<1>6. \A t \in Slots : TableOK(t)'
  BY <1>5, TableFrame DEF LInv, Inv
<1>7. \A g \in Hs : (hnd[g].used => hnd'[g] = hnd[g]) /\ (~hnd[g].used => ~hnd'[g].locked)
  <2>1. \A g \in Hs : ~hnd[g].used => ~hnd[g].locked
    BY DEF LInv, HoldOK
  <2> QED
    BY <1>4, <2>1
<1> QED
  BY <1>5, <1>6, <1>7, NewL DEF Inv

LEMMA RegisterFailsL ==
  ASSUME Inv, LInv, NEW a \in Apps, NEW n \in Names, RegisterFails(a, n)
  PROVE  LInv'
<1>1. PICK s \in Slots, k \in 1 .. LastReg : s = NextReg % MaxTables /\ k = NextReg
  BY RegFacts, Constants DEF Inv, RegisterFails
<1>2. reg[s].id = 0
  BY <1>1, RegFacts DEF Inv, RegisterFails
<1>3. reg' = [reg EXCEPT ![s] = NewReg(k)] /\ buf' = ClearOwn(buf, s) /\ UNCHANGED <<at, job, gnd, seen>>
  BY <1>1 DEF RegisterFails, taskVars
<1>4. \A t \in Slots : t # s => reg'[t] = reg[t]
  BY <1>3, Types DEF Inv
<1>5. TableOK(s)'
  BY <1>3, NewRegFacts, Types DEF Inv, TableOK
<1>6. \A t \in Slots : t # s => \A p \in Own(t) : buf'[p] = buf[p]
  <2>1. \A p \in Places : p \notin Own(s) => buf'[p] = buf[p]
    BY <1>3, ClearFacts, Types DEF Inv
  <2>2. \A t \in Slots : \A p \in Own(t) : p \in Places /\ p[1] = t
    BY OwnPlaces
  <2> QED
    BY <2>1, <2>2
<1>7. \A g \in Hs : (hnd[g].used => hnd'[g] = hnd[g]) /\ (~hnd[g].used => ~hnd'[g].locked)
  <2>1. \A g \in Hs : ~hnd[g].used => ~hnd[g].locked
    BY DEF LInv, HoldOK
  <2>2. CASE hnd' = hnd
    BY <2>1, <2>2
  <2>3. CASE Connect(None, 0, 0, FALSE)
    <3>1. 0 \in Slots /\ 0 \in 0 .. LastReg
      BY Constants DEF Slots
    <3>2. PICK c \in Apps \cup {None}, u \in BOOLEAN : c = None /\ u = FALSE /\ Connect(c, 0, 0, u)
      BY <2>3
    <3>3. PICK h \in Hs : ~hnd[h].used /\ ~hnd'[h].locked /\ \A g \in Hs : g # h => hnd'[g] = hnd[g]
      BY <3>1, <3>2, ConnectFacts
    <3> QED
      BY <2>1, <3>3
  <2> QED
    BY <2>2, <2>3 DEF RegisterFails
<1>8. \A t \in Slots : reg[t].id = 0 => TableOK(t)'
  BY <1>2, <1>4, <1>5, <1>6, TableFrame DEF LInv, Inv
<1> QED
  BY <1>2, <1>3, <1>4, <1>6, <1>7, <1>8, NewL DEF Inv

LEMMA RegisterL ==
  ASSUME Inv, LInv, LoadsAside, NEW a \in Apps, NEW n \in Names, Register(a, n)
  PROVE  LInv'
<1>1. PICK s \in Slots : RegisteredAt(a, n, s)
  BY RegisteredFacts DEF Inv
<1>2. /\ reg[s].id = 0 /\ \A t \in Slots : t # s => reg'[t] = reg[t]
      /\ reg'[s].id # 0 /\ reg'[s].name = n /\ reg'[s].owner = a
      /\ reg'[s].active \in {NoBuf, <<s, 1>>} /\ reg'[s].next \in {NoBuf, <<s, 1>>}
      /\ UNCHANGED <<at, job, gnd, seen>> /\ \A p \in Places : p \notin Own(s) => buf'[p] = buf[p]
      /\ reg'[s].id \in 0 .. LastReg
  BY <1>1 DEF RegisteredAt, RegType
<1>3. n # None /\ a # None
  BY Constants
<1>4. PICK u \in BOOLEAN : Connect(a, s, reg'[s].id, u)
  BY <1>1 DEF RegisteredAt
<1>5. PICK h \in Hs : ~hnd[h].used /\ ~hnd'[h].locked /\ \A g \in Hs : g # h => hnd'[g] = hnd[g]
  BY <1>2, <1>4, ConnectFacts
<1>6. TableOK(s)'
  <2>1. 1 \in 1 .. LastGen
    BY Constants
  <2>2. <<s, 1>> # NoBuf /\ <<s, 1>>[1] = s /\ <<s, 1>>[2] = 1 /\ s # -1 /\ <<s, 1>> \in BufIds
    BY <2>1, OwnIds
  <2>3. PlaceIn(reg', <<s, 1>>) = FirstPlace(n, s)
    BY <1>2, <2>2 DEF PlaceIn, FirstPlace
  <2>4. reg'[s].active # NoBuf \/ reg'[s].next # NoBuf => buf'[FirstPlace(n, s)].id = <<s, 1>>
    BY <1>1 DEF RegisteredAt, RegisteredAs
  <2>5. reg'[s].next # NoBuf => n \in Double
    <3>1. reg'[s].next # NoBuf => n \in Critical
      BY <1>1 DEF RegisteredAt, RegisteredAs
    <3> QED
      BY <3>1, Constants DEF LoadsAside
  <2>6. reg'[s].active = NoBuf => NextIn(reg', s) = <<s, 1>>
    BY DEF NextIn
  <2> QED
    BY <1>2, <1>3, <2>3, <2>4, <2>5, <2>6 DEF TableOK
<1>7. \A t \in Slots : t # s => \A p \in Own(t) : buf'[p] = buf[p]
  <2>1. \A t \in Slots : \A p \in Own(t) : p \in Places /\ p[1] = t
    BY OwnPlaces
  <2> QED
    BY <1>2, <2>1
<1>8. \A t \in Slots : reg[t].id = 0 => TableOK(t)'
  BY <1>2, <1>6, <1>7, TableFrame DEF LInv, Inv
<1>9. \A g \in Hs : (hnd[g].used => hnd'[g] = hnd[g]) /\ (~hnd[g].used => ~hnd'[g].locked)
  <2>1. \A g \in Hs : ~hnd[g].used => ~hnd[g].locked
    BY DEF LInv, HoldOK
  <2> QED
    BY <1>5, <2>1
<1> QED
  BY <1>2, <1>7, <1>8, <1>9, NewL DEF Inv

LEMMA ReleaseL ==
  ASSUME IInv, LInv, NEW a \in Apps, NEW h \in Mine(a), ReleaseAccDesc(a, h), at[a] \in {"idle", "cleanup"},
         at' = at
  PROVE  LInv'
<1>1. PICK s \in Slots : ReleasedAt(a, h, s)
  BY ReleaseFacts
<1>2. /\ s = hnd[h].slot /\ \A t \in Slots : t # s => reg'[t] = reg[t]
      /\ reg'[s].name = reg[s].name /\ reg'[s].active = reg[s].active
      /\ hnd'[h] = NoHnd /\ \A g \in Hs : g # h => hnd'[g] = hnd[g] /\ seen'[g] = seen[g]
      /\ UNCHANGED <<job, gnd>>
  BY <1>1 DEF ReleasedAt
<1>3. Freed(s, h) \/ Left(a, s, h)
  BY <1>1 DEF ReleasedAt
<1>4. h \in Hs /\ hnd[h].app = a
  BY MineFacts
<1>5. ASSUME NEW g \in Hs, g # h, g \in Links(s)
      PROVE  reg'[s].id = reg[s].id /\ reg'[s].next = reg[s].next /\ buf' = buf
  BY <1>3, <1>5 DEF Freed, Left
<1>6. \A p \in Places : p \notin Own(s) => buf'[p].id = buf[p].id /\ buf'[p].data = buf[p].data
  <2>1. CASE Left(a, s, h)
    BY <2>1 DEF Left
  <2>2. CASE Freed(s, h)
    BY <2>2, DiscardedSame, ClearFacts, Types DEF Freed
  <2> QED
    BY <1>3, <2>1, <2>2
<1>7. \A t \in Slots : t # s => \A p \in Own(t) : buf'[p].id = buf[p].id /\ buf'[p].data = buf[p].data
  <2>1. \A t \in Slots : \A p \in Own(t) : p \in Places /\ p[1] = t
    BY OwnPlaces
  <2> QED
    BY <1>6, <2>1
<1>8. ASSUME NEW t \in Slots
      PROVE  TableOK(t)'
  <2>1. CASE t # s
    BY <1>2, <1>7, <2>1, TableFrame DEF LInv
  <2>2. CASE t = s /\ Left(a, s, h)
    BY <1>2, <2>2, TableFrame DEF LInv, Left
  <2>3. CASE t = s /\ Freed(s, h)
    BY <2>3 DEF TableOK, Freed
  <2> QED
    BY <1>3, <2>1, <2>2, <2>3
<1>9. ASSUME NEW b \in Apps
      PROVE  LoadOK(b)'
  <2>1. at[b] \in Moving => /\ job[b].h \in Hs /\ hnd[job[b].h].used /\ hnd[job[b].h].app = b
                            /\ hnd[job[b].h].slot \in Slots /\ job[b].h # h /\ b # None
    BY <1>4, JobFacts, MineFacts DEF Moving
  <2>2. at[b] \in Moving /\ hnd[job[b].h].slot = s => job[b].h \in Links(s)
    BY <2>1 DEF Links
  <2>3. at'[b] = at[b] /\ job'[b] = job[b] /\ LoadOK(b)
    BY <1>2 DEF LInv
  <2>4. CASE at[b] \in Moving
    <3>1. PICK t \in Slots : t = hnd[job[b].h].slot
      BY <2>1, <2>4
    <3>2. hnd'[job[b].h].slot = t /\ (t = s => job[b].h \in Links(s))
      BY <1>2, <2>1, <2>2, <2>4, <3>1
    <3>3. /\ reg'[t].name = reg[t].name /\ reg'[t].active = reg[t].active /\ reg'[t].next = reg[t].next
          /\ \A p \in Own(t) : buf'[p].id = buf[p].id
      <4>1. CASE t = s
        BY <1>2, <1>5, <2>1, <2>4, <3>2, <4>1
      <4>2. CASE t # s
        BY <1>2, <1>7, <4>2
      <4> QED
        BY <4>1, <4>2
    <3> QED
      BY <2>3, <3>1, <3>2, <3>3, LoadFrame
  <2>5. CASE at[b] \notin Moving
    BY <2>3, <2>5, LoadFrame
  <2> QED
    BY <2>4, <2>5
<1>10. ASSUME NEW g \in Hs
       PROVE  HoldOK(g)'
  <2>1. CASE g = h
    BY <1>2, <2>1 DEF HoldOK, NoHnd
  <2>2. CASE g # h /\ hnd[g].locked
    <3>1. HoldOK(g) /\ hnd[g].slot \in Slots
      BY Types DEF LInv, HndType
    <3>2. g \in Links(hnd[g].slot) /\ hnd[g].addr \in Own(hnd[g].slot)
      BY <2>2, <3>1 DEF HoldOK, Links
    <3>3. /\ reg'[hnd[g].slot].active = reg[hnd[g].slot].active
          /\ buf'[hnd[g].addr].id = buf[hnd[g].addr].id /\ buf'[hnd[g].addr].data = buf[hnd[g].addr].data
      BY <1>2, <1>5, <1>7, <2>2, <3>1, <3>2
    <3> QED
      BY <1>2, <2>2, <3>1, <3>3, HoldFrame
  <2>3. CASE g # h /\ ~hnd[g].locked
    BY <1>2, <2>3 DEF HoldOK
  <2> QED
    BY <2>1, <2>2, <2>3
<1> QED
  BY <1>2, <1>8, <1>9, <1>10 DEF LInv

\* With LoadsAside, commands of the ground leave all own buffers alone.
LEMMA QuietCommands ==
  ASSUME IInv, LInv, LoadsAside, Command \/ Carry \/ SendHkCmd
  PROVE  QuietGround
<1>1. CASE Command
  <2>1. PICK n \in Names, b \in BOOLEAN : \/ FindTable("load", n) \/ FindTable("abort", n)
                                          \/ FindTable("validate", n) \/ DumpCmd(n, b)
    BY <1>1 DEF Command
  <2>2. ~FindTable("load", n)
    BY DEF LoadsAside, FindTable
  <2> QED
    BY <2>1, <2>2, FindTableKeeps, DumpCmdKeeps
<1>2. CASE Carry
  <2>1. ~LoadCmd /\ \A d \in Images : ~ReadFile(d)
    BY DEF LInv, LoadCmd, ReadFile
  <2> QED
    BY <1>2, <2>1, AbortLoadCmdKeeps, ValidateCmdKeeps, PrepareDumpKeeps DEF Carry
<1>3. CASE SendHkCmd
  BY <1>3, SendHkCmdKeeps
<1> QED
  BY <1>1, <1>2, <1>3

LEMMA LNext ==
  ASSUME Inv, LInv, LoadsAside, [Next]_vars
  PROVE  LInv'
<1> USE DEF Inv
<1>1. CASE UNCHANGED vars
  BY <1>1, LCommand, QuietSame, RegQuietSame, OwnUnchanged DEF vars, LInv, QuietGround
<1>2. ASSUME NEW a \in Apps, Start(a)
      PROVE  LInv'
  <2>1. CASE \E n \in Names : Register(a, n) \/ RegisterFails(a, n) \/ Share(a, n)
    BY <2>1, RegisterL, RegisterFailsL, ShareL
  <2>2. CASE \E h \in Mine(a) : Unregister(a, h) \/ GetAddress(a, h) \/ ReleaseAddress(a, h)
    BY <2>2, ReleaseL, GetAddressL, ReleaseAddressL DEF Unregister, Begin
  <2>3. CASE \E h \in Mine(a) : Manage(a, h) \/ Update(a, h) \/ Validate(a, h) \/ DumpToBuffer(a, h)
    BY <2>3, PlainKeeps, ValidateKeeps, DumpToBufferKeeps, QuietL
  <2>4. CASE \E h \in Mine(a) : \E d \in Images : Load(a, h, d) \/ Modified(a, h, d)
    BY <2>4, LoadL, ModifiedL
  <2>5. CASE Exit(a)
    BY <2>5, PlainKeeps, QuietL
  <2> QED
    BY <1>2, <2>1, <2>2, <2>3, <2>4, <2>5 DEF Start
<1>3. ASSUME NEW a \in Apps, Continue(a)
      PROVE  LInv'
  <2>1. CASE AddressStatus(a) \/ LoadWrite(a) \/ LoadCheck(a) \/ Reserve(a) \/ Activate(a) \/ Notify(a)
    BY <2>1, AddressStatusKeeps, NotifyKeeps, LoadWrites, LoadChecks, WorkL, ReserveL, ActivateL, QuietL
  <2>2. CASE Copy(a)
    BY <2>2 DEF Copy, LInv, LoadOK
  <2>3. CASE PickActive(a) \/ Save(a) \/ CleanUpEnd(a)
    BY <2>3, PlainKeeps, QuietL
  <2>4. CASE Discard(a) \/ ValidateFunction(a)
    BY <2>4, DiscardKeeps, ValidateFunctionL, QuietL
  <2>5. CASE \E h \in Mine(a) : CleanUpHandle(a, h)
    BY <2>5, ReleaseL DEF CleanUpHandle
  <2>6. CASE \E h \in Mine(a) : Update(a, h) \/ Validate(a, h) \/ DumpToBuffer(a, h)
    BY <2>6, PlainKeeps, ValidateKeeps, DumpToBufferKeeps, QuietL
  <2> QED
    BY <1>3, <2>1, <2>2, <2>3, <2>4, <2>5, <2>6 DEF Continue
<1>4. CASE Command \/ Carry \/ SendHkCmd
  BY <1>4, QuietCommands, LCommand
<1> QED
  BY <1>1, <1>2, <1>3, <1>4 DEF Next

LEMMA LStart ==
  ASSUME Init
  PROVE  LInv
<1>1. reg = [s \in Slots |-> NoReg] /\ hnd = [h \in Hs |-> NoHnd] /\ at = [a \in Apps |-> "idle"] /\ gnd = NoCmd
  BY DEF Init
<1> QED
  BY <1>1, IdleCommand DEF LInv, TableOK, LoadOK, HoldOK, NoReg, NoHnd

LEMMA LInvariance ==
  ASSUME LoadsAside
  PROVE  Spec => [](Inv /\ LInv)
<1>1. Init => LInv
  BY LStart
<1>2. Inv /\ LInv /\ [Next]_vars => LInv'
  BY LNext
<1> QED
  BY <1>1, <1>2, Invariance, PTL DEF Spec

\* What an application reads at an address it has locked stays as it was when it got the
\* address (CFE_TBL_TxnGetTableAddress, CFE_TBL_GetInactiveBufferExclusive), where tables
\* are double-buffered and the ground loads no file; tbl_locked shows that a
\* single-buffered table breaks it.
THEOREM LockedKept ==
  ASSUME LoadsAside
  PROVE  Spec => []LockedUnchanged
<1>1. LInv => LockedUnchanged
  BY DEF LInv, HoldOK, LockedUnchanged
<1> QED
  BY <1>1, LInvariance, PTL

-----------------------------------------------------------------------------
(* What the critical data store holds of a critical table                  *)

SaveSteps == {"copy", "activate", "notify", "pick", "save", "pickModified", "saveModified"}
\* One record for each name, and a save takes the buffer that is active.
NamesOnce ==
  \A r, s \in Slots : reg[r].id # 0 /\ reg[s].id # 0 /\ reg[r].name = reg[s].name /\ reg[s].name # None => r = s
SaveOK(b) ==
  /\ at[b] \notin {"pickModified", "saveModified"}
  /\ at[b] = "save" => job[b].from = PlaceIn(reg, reg[hnd[job[b].h].slot].active)
CInv == NamesOnce /\ (\A b \in Apps : SaveOK(b)) /\ CriticalSaved

LEMMA SavingNow ==
  ASSUME NEW s
  PROVE  Saving(s) <=> \E b \in Apps : at[b] \in SaveSteps /\ hnd[job[b].h].slot = s
BY DEF Saving, SaveSteps, HSlot

LEMMA SavingNext ==
  ASSUME NEW s
  PROVE  Saving(s)' <=> \E b \in Apps : at'[b] \in SaveSteps /\ hnd'[job'[b].h].slot = s
BY DEF Saving, SaveSteps, HSlot

\* What an active image has to do with the store: nothing, or it is the one saved.
SavedAt(s) ==
  reg[s].id # 0 /\ reg[s].name \in Critical /\ reg[s].active # NoBuf /\ ~Saving(s) =>
    cds[reg[s].name].loaded /\ cds[reg[s].name].data = buf[PlaceIn(reg, reg[s].active)].data

LEMMA SavedParts ==
  CriticalSaved <=> \A s \in Slots : SavedAt(s)
BY PlaceNow DEF CriticalSaved, SavedAt, Used

LEMMA SavedNext ==
  ASSUME \A s \in Slots : SavedAt(s)'
  PROVE  CriticalSaved'
BY DEF CriticalSaved, SavedAt, Used, Place, PlaceIn, IsDouble

LEMMA SavedFrame ==
  ASSUME IInv, LInv, CInv, NEW s \in Slots, reg[s].id # 0, reg'[s].name = reg[s].name,
         reg'[s].active = reg[s].active,
         reg[s].active # NoBuf => buf'[PlaceIn(reg, reg[s].active)].data = buf[PlaceIn(reg, reg[s].active)].data,
         reg[s].name \in Critical => /\ cds'[reg[s].name].loaded = cds[reg[s].name].loaded
                                     /\ cds'[reg[s].name].data = cds[reg[s].name].data
                                     /\ Saving(s) => Saving(s)'
  PROVE  SavedAt(s)'
<1>1. SavedAt(s)
  BY SavedParts DEF CInv
<1>2. reg[s].active # NoBuf => PlaceIn(reg', reg[s].active) = PlaceIn(reg, reg[s].active)
  <2>1. reg[s].active \in BufIds
    BY Types DEF RegType
  <2>2. reg[s].active # NoBuf => reg[s].active[1] = s
    BY DEF IInv, IdsOK
  <2> QED
    BY <2>1, <2>2, PlaceSame
<1> QED
  BY <1>1, <1>2 DEF SavedAt

\* A step that neither changes the active image of a table nor saves one.
ActiveSame ==
  \A s \in Slots : /\ reg'[s].id = reg[s].id /\ reg'[s].name = reg[s].name /\ reg'[s].active = reg[s].active
                   /\ reg[s].active # NoBuf =>
                        buf'[PlaceIn(reg, reg[s].active)].data = buf[PlaceIn(reg, reg[s].active)].data
SlotsSame == \A h \in Hs : hnd[h].used => hnd'[h].slot = hnd[h].slot
Saves(b) ==
  /\ SaveOK(b)'
  /\ at[b] \in SaveSteps => \/ at'[b] \in SaveSteps /\ job'[b].h = job[b].h
                            \/ reg[HSlot(b)].name \notin Critical

LEMMA SaveFrame ==
  ASSUME IInv, CInv, NEW b \in Apps, at'[b] = at[b], job'[b] = job[b],
         at[b] \in SaveSteps =>
           LET s == hnd[job[b].h].slot IN
             hnd'[job[b].h].slot = s /\ reg'[s].name = reg[s].name /\ reg'[s].active = reg[s].active
  PROVE  SaveOK(b)'
<1>1. CASE at[b] # "save"
  BY <1>1 DEF CInv, SaveOK
<1>2. CASE at[b] = "save"
  <2>1. PICK s \in Slots : s = hnd[job[b].h].slot
    BY <1>2, JobFacts, MineFacts
  <2>2. hnd'[job[b].h].slot = s /\ reg'[s].name = reg[s].name /\ reg'[s].active = reg[s].active
    BY <1>2, <2>1 DEF SaveSteps
  <2>3. PlaceIn(reg', reg[s].active) = PlaceIn(reg, reg[s].active)
    <3>1. reg[s].active \in BufIds
      BY Types DEF RegType
    <3>2. reg[s].active # NoBuf => reg[s].active[1] = s
      BY DEF IInv, IdsOK
    <3> QED
      BY <2>2, <3>1, <3>2, PlaceSame
  <2> QED
    BY <1>2, <2>1, <2>2, <2>3 DEF CInv, SaveOK
<1> QED
  BY <1>1, <1>2

LEMMA CStep ==
  ASSUME IInv, LInv, CInv, ActiveSame, SlotsSame, cds' = cds,
         \A b \in Apps : Saves(b) \/ (at'[b] = at[b] /\ job'[b] = job[b])
  PROVE  CInv'
<1>1. NamesOnce'
  BY DEF CInv, NamesOnce, ActiveSame
<1>2. ASSUME NEW b \in Apps
      PROVE  at[b] \in SaveSteps => /\ job[b].h \in Hs /\ hnd[job[b].h].used /\ hnd[job[b].h].slot \in Slots
                                    /\ hnd'[job[b].h].slot = hnd[job[b].h].slot
  <2>1. at[b] \in SaveSteps => job[b].h \in Hs /\ hnd[job[b].h].used /\ hnd[job[b].h].slot \in Slots
    BY JobFacts, MineFacts DEF SaveSteps
  <2> QED
    BY <2>1 DEF SlotsSame
<1>3. ASSUME NEW b \in Apps
      PROVE  SaveOK(b)'
  <2>1. CASE Saves(b)
    BY <2>1 DEF Saves
  <2>2. CASE at'[b] = at[b] /\ job'[b] = job[b]
    BY <1>2, <2>2, SaveFrame DEF ActiveSame
  <2> QED
    BY <2>1, <2>2
<1>4. ASSUME NEW s \in Slots
      PROVE  SavedAt(s)'
  <2>1. reg[s].name \in Critical /\ Saving(s) => Saving(s)'
    <3> HAVE reg[s].name \in Critical /\ Saving(s)
    <3>1. PICK b \in Apps : at[b] \in SaveSteps /\ hnd[job[b].h].slot = s
      BY SavingNow
    <3>2. hnd'[job[b].h].slot = s
      BY <1>2, <3>1
    <3>3. at'[b] \in SaveSteps /\ job'[b].h = job[b].h
      BY <3>1 DEF Saves, HSlot
    <3> QED
      BY <3>2, <3>3, SavingNext
  <2>2. CASE reg[s].id # 0
    BY <2>1, <2>2, SavedFrame DEF ActiveSame
  <2>3. CASE reg[s].id = 0
    BY <2>3 DEF SavedAt, ActiveSame
  <2> QED
    BY <2>2, <2>3
<1> QED
  BY <1>1, <1>3, <1>4, SavedNext DEF CInv

LEMMA OwnApart ==
  ASSUME NEW s \in Slots, NEW t \in Slots, s # t, NEW p \in Own(s), NEW q \in Own(t)
  PROVE  p # q
BY DEF Own

LEMMA ActivePlace ==
  ASSUME IInv, NEW s \in Slots, reg[s].active # NoBuf
  PROVE  PlaceIn(reg, reg[s].active) \in Own(s) /\ PlaceIn(reg, reg[s].active) \in Places
<1>1. reg[s].active \in BufIds /\ reg[s].active[1] = s /\ s # -1
  <2>1. reg[s].active \in BufIds
    BY Types DEF RegType
  <2>2. reg[s].active[1] = s
    BY DEF IInv, IdsOK
  <2> QED
    BY <2>1, <2>2, Constants DEF Slots
<1> QED
  BY <1>1, PlaceType

LEMMA ActiveKept ==
  ASSUME IInv, \A s \in Slots : reg'[s].id = reg[s].id /\ reg'[s].name = reg[s].name
                                /\ reg'[s].active = reg[s].active,
         \A s \in Slots : \A p \in Own(s) : buf'[p].data = buf[p].data
  PROVE  ActiveSame
BY ActivePlace DEF ActiveSame

LEMMA QuietC ==
  ASSUME IInv, LInv, CInv, NEW a \in Apps, Quiet(a), cds' = cds, Saves(a)
  PROVE  CInv'
<1>1. ActiveSame
  BY ActiveKept DEF Quiet, RegSame, OwnKept
<1>2. SlotsSame
  BY DEF Quiet, HndSame, SlotsSame
<1>3. \A b \in Apps : Saves(b) \/ (at'[b] = at[b] /\ job'[b] = job[b])
  BY DEF Quiet, OthersStay
<1> QED
  BY <1>1, <1>2, <1>3, CStep

LEMMA GroundC ==
  ASSUME IInv, LInv, CInv, QuietGround
  PROVE  CInv'
<1>1. ActiveSame
  BY ActiveKept DEF QuietGround, RegSame, OwnKept
<1> QED
  BY <1>1, CStep DEF QuietGround, SlotsSame

\* A call that is at none of the steps of a save, before or after.
LEMMA NotSaving ==
  ASSUME NEW a \in Apps, at[a] \notin SaveSteps, at'[a] \notin {"save", "pickModified", "saveModified"}
  PROVE  Saves(a)
BY DEF Saves, SaveOK

LEMMA QuietSteps ==
  ASSUME IInv, LInv, CInv, NEW a \in Apps,
         \/ AddressStatus(a) \/ Exit(a) \/ CleanUpEnd(a) \/ Discard(a) \/ Reserve(a)
         \/ \E h \in Mine(a) : Manage(a, h) \/ Update(a, h) \/ Validate(a, h) \/ DumpToBuffer(a, h)
  PROVE  CInv'
<1>1. Quiet(a)
  BY AddressStatusKeeps, PlainKeeps, DiscardKeeps, ReserveKeeps, ValidateKeeps, DumpToBufferKeeps
<1>2. cds' = cds
  BY DEF AddressStatus, Exit, CleanUpEnd, Discard, Reserve, Manage, Update, Validate, DumpToBuffer, storeVars
<1>3. at[a] \in {"idle", "cleanup", "address", "discard", "reserve", "update", "validate", "dump"}
  BY DEF AddressStatus, Exit, CleanUpEnd, Discard, Reserve, Manage, Update, Validate, DumpToBuffer, Begin
<1>4. at'[a] \notin {"save", "pickModified", "saveModified"}
  <2>1. \E l \in {"idle", "cleanup", "activate", "copy", "validate", "update", "dump", "reserve", "function"} :
           Goto(a, l)
    <3>1. CASE AddressStatus(a) \/ Exit(a) \/ CleanUpEnd(a) \/ Discard(a) \/ Reserve(a)
      BY <3>1 DEF AddressStatus, Exit, CleanUpEnd, Discard, Reserve, Return
    <3>2. CASE \E h \in Mine(a) : Manage(a, h) \/ Update(a, h) \/ Validate(a, h) \/ DumpToBuffer(a, h)
      BY <3>2 DEF Manage, Update, Validate, DumpToBuffer
    <3> QED
      BY <3>1, <3>2
  <2> QED
    BY <2>1, Types DEF Goto
<1> QED
  BY <1>1, <1>2, <1>3, <1>4, NotSaving, QuietC DEF SaveSteps

LEMMA NotifyC ==
  ASSUME IInv, LInv, CInv, NEW a \in Apps, Notify(a)
  PROVE  CInv'
<1>1. cds' = cds /\ job' = job /\ at'[a] = IF reg[HSlot(a)].name \in Critical THEN "pick" ELSE "discard"
  BY Types DEF Notify, Goto, storeVars
<1>2. Saves(a)
  BY <1>1 DEF Saves, SaveOK, SaveSteps
<1> QED
  BY <1>1, <1>2, NotifyKeeps, QuietC

LEMMA PickActiveC ==
  ASSUME IInv, LInv, CInv, NEW a \in Apps, PickActive(a)
  PROVE  CInv'
<1>1. PICK s \in Slots : s = HSlot(a) /\ s = hnd[job[a].h].slot
  BY JobFacts DEF PickActive
<1>2. at[a] = "pick" /\ UNCHANGED <<reg, hnd, cds>> /\ at'[a] = "save"
  BY Types DEF PickActive, Goto, CInv, SaveOK, userVars, storeVars
<1>3. job'[a].from = PlaceIn(reg, reg[s].active) /\ job'[a].h = job[a].h
  <2>1. PICK p : p = PlaceIn(reg, reg[s].active)
    OBVIOUS
  <2>2. job' = [job EXCEPT ![a].from = p]
    BY <1>1, <2>1, PlaceNow DEF PickActive
  <2> QED
    BY <2>1, <2>2, Types DEF JobType
<1>4. Saves(a)
  BY <1>1, <1>2, <1>3 DEF Saves, SaveOK, SaveSteps
<1> QED
  BY <1>2, <1>4, PlainKeeps, QuietC

LEMMA SaveC ==
  ASSUME IInv, LInv, CInv, NEW a \in Apps, Save(a)
  PROVE  CInv'
<1>1. PICK s \in Slots : s = HSlot(a) /\ s = hnd[job[a].h].slot /\ reg[s].id # 0
  BY JobFacts DEF Save
<1>2. at[a] = "save" /\ UNCHANGED <<reg, hnd, buf, job>> /\ at' = [at EXCEPT ![a] = "discard"]
  BY DEF Save, Goto, CInv, SaveOK, userVars
<1>3. at'[a] = "discard" /\ \A b \in Apps : b # a => at'[b] = at[b]
  BY <1>2, Types
<1> DEFINE n == reg[s].name
           p == PlaceIn(reg, reg[s].active)
<1>4. PICK u \in BOOLEAN :
        /\ u = (reg[s].active # NoBuf)
        /\ cds' = IF p = NoBuf THEN cds ELSE [cds EXCEPT ![n].data = buf[p].data, ![n].loaded = u]
  <2>1. cds' = IF p = NoBuf THEN cds
               ELSE [cds EXCEPT ![n].data = buf[p].data, ![n].loaded = reg[s].active # NoBuf]
    BY <1>1, <1>2 DEF Save, CInv, SaveOK
  <2> QED
    BY <2>1
<1>5. \A m \in Critical : m # n => cds'[m] = cds[m]
  <2>1. PICK x : x = buf[p].data
    OBVIOUS
  <2> HIDE DEF n, p
  <2>2. cds' = cds \/ cds' = [cds EXCEPT ![n].data = x, ![n].loaded = u]
    BY <1>4, <2>1
  <2>3. cds \in [Critical -> CdsType]
    BY Types
  <2> QED
    BY <2>2, <2>3
<1>6. n \in Critical /\ reg[s].active # NoBuf => cds'[n].loaded /\ cds'[n].data = buf[p].data
  <2>1. reg[s].active # NoBuf => p \in Places /\ p # NoBuf
    BY ActivePlace, NoBufId
  <2> HIDE DEF n, p
  <2> QED
    BY <1>4, <2>1, Types DEF CdsType
<1>7. NamesOnce'
  BY <1>2 DEF CInv, NamesOnce
<1>8. ASSUME NEW b \in Apps
      PROVE  SaveOK(b)'
  BY <1>2, <1>3 DEF CInv, SaveOK
<1>9. ASSUME NEW t \in Slots
      PROVE  SavedAt(t)'
  <2>1. CASE t = s
    BY <1>2, <1>6, <2>1 DEF SavedAt
  <2>2. CASE t # s /\ reg[t].id # 0
    <3>1. reg[t].name \in Critical => reg[t].name # n
      BY <1>1, <2>2, Constants DEF CInv, NamesOnce
    <3>2. Saving(t) => Saving(t)'
      <4> HAVE Saving(t)
      <4>1. PICK b \in Apps : at[b] \in SaveSteps /\ hnd[job[b].h].slot = t
        BY SavingNow
      <4> QED
        BY <1>1, <1>2, <1>3, <2>2, <4>1, SavingNext
    <3> QED
      BY <1>2, <1>5, <2>2, <3>1, <3>2, SavedFrame
  <2>3. CASE reg[t].id = 0
    BY <1>2, <2>3 DEF SavedAt
  <2> QED
    BY <2>1, <2>2, <2>3
<1> QED
  BY <1>7, <1>8, <1>9, SavedNext DEF CInv

\* The steps of readers, and of validation functions.
LEMMA ReadersC ==
  ASSUME IInv, LInv, CInv, NEW a \in Apps,
         \/ ValidateFunction(a)
         \/ \E h \in Mine(a) : GetAddress(a, h) \/ ReleaseAddress(a, h)
  PROVE  CInv'
<1>1. ActiveSame /\ cds' = cds
  <2>1. CASE ValidateFunction(a)
    BY <2>1, ValidateFunctionKeeps, OwnPlaces, ActiveKept
  <2>2. CASE \E h \in Mine(a) : GetAddress(a, h) \/ ReleaseAddress(a, h)
    BY <2>2, ActiveKept DEF GetAddress, ReleaseAddress, storeVars
  <2> QED
    BY <2>1, <2>2
<1>2. SlotsSame
  <2>1. CASE ValidateFunction(a)
    BY <2>1, ValidateFunctionKeeps DEF SlotsSame
  <2>2. ASSUME NEW h \in Mine(a), GetAddress(a, h) \/ ReleaseAddress(a, h)
        PROVE  SlotsSame
    <3> DEFINE p == Place(reg[hnd[h].slot].active)
               x == [hnd[h] EXCEPT !.locked = TRUE, !.buf = buf[p].id, !.addr = p]
               y == [hnd[h] EXCEPT !.locked = FALSE, !.addr = NoBuf]
    <3>1. hnd' = [hnd EXCEPT ![h] = x] \/ hnd' = [hnd EXCEPT ![h] = y]
      BY <2>2 DEF GetAddress, ReleaseAddress
    <3>2. hnd \in [Hs -> HndType] /\ h \in Hs
      BY MineFacts, Types
    <3>3. x.slot = hnd[h].slot /\ y.slot = hnd[h].slot
      BY <3>2 DEF HndType
    <3> HIDE DEF x, y
    <3> QED
      BY <3>1, <3>2, <3>3 DEF SlotsSame
  <2> QED
    BY <2>1, <2>2
<1>3. OthersStay(a) /\ at[a] \notin SaveSteps /\ at'[a] \notin {"save", "pickModified", "saveModified"}
  BY Types DEF ValidateFunction, GetAddress, ReleaseAddress, Begin, Goto, taskVars, OthersStay, SaveSteps
<1> QED
  BY <1>1, <1>2, <1>3, NotSaving, CStep DEF OthersStay

LEMMA WorkC ==
  ASSUME IInv, LInv, CInv, NEW a \in Apps, NEW s \in Slots, Works(a, s)
  PROVE  CInv'
<1>1. RegSame
  BY UnstaleQuiet, RegQuietSame DEF Works
<1>2. ASSUME NEW t \in Slots, reg[t].active # NoBuf
      PROVE  PlaceIn(reg, reg[t].active) \in Places /\ PlaceIn(reg, reg[t].active) # InProgress(s)
  <2>1. PlaceIn(reg, reg[t].active) \in Own(t) /\ PlaceIn(reg, reg[t].active) \in Places
    BY <1>2, ActivePlace
  <2>2. CASE InProgress(s) = NoBuf
    BY <2>1, <2>2, NoBufId
  <2>3. CASE InProgress(s) # NoBuf
    <3>1. /\ InProgress(s) \in Own(s) /\ reg[s].name \in Double
          /\ InProgress(s) = PlaceIn(reg, reg[s].next) /\ reg[s].next # NoBuf
      BY <2>3, OwnLoad
    <3>2. reg[s].next = NextIn(reg, s)
      <4>1. s = hnd[job[a].h].slot /\ at[a] \in {"write", "check"}
        BY JobFacts DEF Works
      <4> QED
        BY <3>1, <4>1 DEF LInv, LoadOK
    <3>3. TableOK(s)
      BY DEF LInv
    <3>4. t = s => PlaceIn(reg, reg[t].active) # InProgress(s)
      BY <1>2, <3>1, <3>2, <3>3, Beside
    <3> QED
      BY <2>1, <3>1, <3>4, OwnApart
  <2> QED
    BY <2>1, <2>2, <2>3
<1>3. ActiveSame
  BY <1>1, <1>2 DEF Works, RegSame, ActiveSame
<1>4. Saves(a)
  BY NotSaving DEF Works, SaveSteps
<1>5. SlotsSame /\ cds' = cds /\ OthersStay(a)
  BY DEF Works, SlotsSame
<1> QED
  BY <1>3, <1>4, <1>5, CStep DEF OthersStay

LEMMA LoadC ==
  ASSUME IInv, LInv, CInv, LoadsAside, NEW a \in Apps, NEW h \in Mine(a), NEW d \in Images, Load(a, h, d)
  PROVE  CInv'
<1>1. PICK s \in Slots, i \in BufIds : \E p \in Own(s) : ClaimedAt(a, h, s, p, i)
  BY Claims
<1>2. PICK p \in Own(s) : ClaimedAt(a, h, s, p, i)
  BY <1>1
<1>3. \A t \in Slots : reg'[t].id = reg[t].id /\ reg'[t].name = reg[t].name /\ reg'[t].active = reg[t].active
  BY <1>2 DEF ClaimedAt
<1>4. ASSUME NEW t \in Slots, reg[t].active # NoBuf
      PROVE  PlaceIn(reg, reg[t].active) \in Places /\ PlaceIn(reg, reg[t].active) # p
  <2>1. PlaceIn(reg, reg[t].active) \in Own(t) /\ PlaceIn(reg, reg[t].active) \in Places
    BY <1>4, ActivePlace
  <2>2. t = s => PlaceIn(reg, reg[t].active) # p
    <3>1. TableOK(s) /\ reg[s].name \in Double /\ p = PlaceIn(reg, NextIn(reg, s))
      BY <1>2 DEF ClaimedAt, LInv
    <3> QED
      BY <1>4, <3>1, Beside
  <2> QED
    BY <2>1, <2>2, OwnApart
<1>5. \A r \in Places : r # p => buf'[r] = buf[r]
  BY <1>2 DEF ClaimedAt
<1>6. ActiveSame
  BY <1>3, <1>4, <1>5 DEF ActiveSame
<1>7. Saves(a) /\ SlotsSame /\ cds' = cds /\ OthersStay(a)
  BY <1>2, NotSaving DEF ClaimedAt, SaveSteps, SlotsSame
<1> QED
  BY <1>6, <1>7, CStep DEF OthersStay

LEMMA ActivateC ==
  ASSUME IInv, LInv, CInv, NEW a \in Apps, Activate(a)
  PROVE  CInv'
<1>1. PICK s \in Slots, i \in BufIds : \E p \in Own(s) : ActivatedAt(a, s, p, i)
  BY Activates
<1>2. PICK p \in Own(s) : ActivatedAt(a, s, p, i)
  BY <1>1
<1>3. /\ at[a] = "activate" /\ s = hnd[job[a].h].slot /\ reg[s].owner = a /\ reg[s].id # 0
      /\ reg'[s].id = reg[s].id /\ reg'[s].name = reg[s].name
      /\ \A t \in Slots : t # s => reg'[t] = reg[t]
      /\ UNCHANGED <<buf, hnd, cds, job>> /\ OthersStay(a) /\ at'[a] = "notify"
  BY <1>2 DEF ActivatedAt
<1>4. NamesOnce'
  BY <1>3 DEF CInv, NamesOnce
<1>5. ASSUME NEW b \in Apps
      PROVE  SaveOK(b)'
  <2>1. CASE b = a
    BY <1>3, <2>1 DEF SaveOK
  <2>2. CASE b # a
    <3>1. at[b] = "save" => reg'[hnd[job[b].h].slot] = reg[hnd[job[b].h].slot]
      BY <1>3, <2>2, JobFacts DEF OwnerSteps
    <3>2. at'[b] = at[b] /\ job'[b] = job[b] /\ at[b] \notin {"pickModified", "saveModified"}
      BY <1>3, <2>2 DEF OthersStay, CInv, SaveOK
    <3>3. at[b] \in SaveSteps => hnd[job[b].h].slot \in Slots /\ hnd[job[b].h].slot # s
      BY <1>3, <2>2, <3>2, JobFacts DEF OwnerSteps, SaveSteps
    <3> QED
      BY <1>3, <3>2, <3>3, SaveFrame
  <2> QED
    BY <2>1, <2>2
<1>6. ASSUME NEW t \in Slots
      PROVE  SavedAt(t)'
  <2>1. CASE t = s
    <3>1. Saving(s)'
      BY <1>3, SavingNext DEF SaveSteps
    <3> QED
      BY <2>1, <3>1 DEF SavedAt
  <2>2. CASE t # s /\ reg[t].id # 0
    <3>1. Saving(t) => Saving(t)'
      <4> HAVE Saving(t)
      <4>1. PICK b \in Apps : at[b] \in SaveSteps /\ hnd[job[b].h].slot = t
        BY SavingNow
      <4>2. b # a
        BY <1>3, <2>2, <4>1
      <4> QED
        BY <1>3, <4>1, <4>2, SavingNext DEF OthersStay
    <3> QED
      BY <1>3, <2>2, <3>1, SavedFrame
  <2>3. CASE t # s /\ reg[t].id = 0
    BY <1>3, <2>3 DEF SavedAt
  <2> QED
    BY <2>1, <2>2, <2>3
<1> QED
  BY <1>4, <1>5, <1>6, SavedNext DEF CInv

LEMMA ShareC ==
  ASSUME Inv, LInv, CInv, NEW a \in Apps, NEW n \in Names, Share(a, n)
  PROVE  CInv'
<1>1. PICK s \in Slots : Connect(a, s, reg[s].id, n \notin DumpOnly /\ reg[s].active # NoBuf)
  BY DEF Share, Named
<1>2. PICK i \in 0 .. LastReg, u \in BOOLEAN : Connect(a, s, i, u)
  <2>1. reg[s].id \in 0 .. LastReg
    BY Types DEF RegType, Inv
  <2> QED
    BY <1>1, <2>1
<1>3. PICK h \in Hs : ~hnd[h].used /\ \A g \in Hs : g # h => hnd'[g] = hnd[g]
  BY <1>2, ConnectFacts
<1>4. UNCHANGED <<reg, buf, cds, at, job>>
  BY DEF Share, storeVars, taskVars
<1>5. SlotsSame
  BY <1>3 DEF SlotsSame
<1> QED
  BY <1>4, <1>5, CStep, ActiveKept DEF Inv

\* A step that takes a free record, perhaps for a table that has no record yet.
LEMMA NewC ==
  ASSUME Inv, LInv, CInv, NEW s \in Slots, reg[s].id = 0, UNCHANGED <<at, job>>,
         \A t \in Slots : t # s => reg'[t] = reg[t] /\ \A p \in Own(t) : buf'[p] = buf[p],
         \A h \in Hs : hnd[h].used => hnd'[h] = hnd[h],
         \A m \in Critical : cds'[m].loaded = cds[m].loaded /\ cds'[m].data = cds[m].data,
         \A t \in Slots : reg[t].id # 0 /\ reg[t].name # None => reg[t].name # reg'[s].name,
         SavedAt(s)'
  PROVE  CInv'
<1>1. NamesOnce'
  <2> SUFFICES ASSUME NEW r \in Slots, NEW t \in Slots, reg'[r].id # 0, reg'[t].id # 0,
                      reg'[r].name = reg'[t].name, reg'[t].name # None, r # t
               PROVE  FALSE
    BY DEF NamesOnce
  <2>1. CASE r # s /\ t # s
    BY <2>1 DEF CInv, NamesOnce
  <2>2. CASE r = s \/ t = s
    BY <2>2
  <2> QED
    BY <2>1, <2>2
<1>2. ASSUME NEW b \in Apps, at[b] \in SaveSteps
      PROVE  /\ job[b].h \in Hs /\ hnd'[job[b].h] = hnd[job[b].h] /\ hnd[job[b].h].slot \in Slots
             /\ hnd[job[b].h].slot # s
  <2>1. /\ job[b].h \in Hs /\ hnd[job[b].h].used /\ hnd[job[b].h].slot \in Slots
        /\ reg[hnd[job[b].h].slot].id # 0
    BY <1>2, JobFacts, MineFacts DEF SaveSteps, Inv
  <2> QED
    BY <2>1
<1>3. ASSUME NEW b \in Apps
      PROVE  SaveOK(b)'
  BY <1>2, SaveFrame DEF Inv
<1>4. ASSUME NEW t \in Slots
      PROVE  SavedAt(t)'
  <2>1. CASE t = s
    BY <2>1
  <2>2. CASE t # s /\ reg[t].id # 0
    <3>1. Saving(t) => Saving(t)'
      <4> HAVE Saving(t)
      <4>1. PICK b \in Apps : at[b] \in SaveSteps /\ hnd[job[b].h].slot = t
        BY SavingNow
      <4> QED
        BY <1>2, <4>1, SavingNext
    <3>2. reg[t].active # NoBuf =>
            buf'[PlaceIn(reg, reg[t].active)].data = buf[PlaceIn(reg, reg[t].active)].data
      BY <2>2, ActivePlace DEF Inv
    <3> QED
      BY <2>2, <3>1, <3>2, SavedFrame DEF Inv
  <2>3. CASE t # s /\ reg[t].id = 0
    BY <2>3 DEF SavedAt
  <2> QED
    BY <2>1, <2>2, <2>3
<1> QED
  BY <1>1, <1>3, <1>4, SavedNext DEF CInv

LEMMA RegisterFailsC ==
  ASSUME Inv, LInv, CInv, NEW a \in Apps, NEW n \in Names, RegisterFails(a, n)
  PROVE  CInv'
<1>1. PICK s \in Slots, k \in 1 .. LastReg : s = NextReg % MaxTables /\ k = NextReg
  BY RegFacts, Constants DEF Inv, RegisterFails
<1>2. reg[s].id = 0
  BY <1>1, RegFacts DEF Inv, RegisterFails
<1>3. reg' = [reg EXCEPT ![s] = NewReg(k)] /\ buf' = ClearOwn(buf, s) /\ UNCHANGED <<at, job, cds>>
  BY <1>1 DEF RegisterFails, taskVars
<1>4. \A t \in Slots : t # s => reg'[t] = reg[t] /\ \A p \in Own(t) : buf'[p] = buf[p]
  <2>1. \A p \in Places : p \notin Own(s) => buf'[p] = buf[p]
    BY <1>3, ClearFacts, Types DEF Inv
  <2>2. \A t \in Slots : \A p \in Own(t) : p \in Places /\ p[1] = t
    BY OwnPlaces
  <2> QED
    BY <1>3, <2>1, <2>2, Types DEF Inv
<1>5. reg'[s].name = None
  BY <1>3, NewRegFacts, Types DEF Inv
<1>6. SavedAt(s)'
  BY <1>5, Constants DEF SavedAt
<1>7. \A h \in Hs : hnd[h].used => hnd'[h] = hnd[h]
  <2>1. CASE hnd' = hnd
    BY <2>1
  <2>2. CASE Connect(None, 0, 0, FALSE)
    <3>1. 0 \in Slots /\ 0 \in 0 .. LastReg
      BY Constants DEF Slots
    <3>2. PICK c \in Apps \cup {None}, u \in BOOLEAN : c = None /\ u = FALSE /\ Connect(c, 0, 0, u)
      BY <2>2
    <3>3. PICK h \in Hs : ~hnd[h].used /\ \A g \in Hs : g # h => hnd'[g] = hnd[g]
      BY <3>1, <3>2, ConnectFacts
    <3> QED
      BY <3>3
  <2> QED
    BY <2>1, <2>2 DEF RegisterFails
<1> QED
  BY <1>2, <1>3, <1>4, <1>5, <1>6, <1>7, NewC

LEMMA RegisterC ==
  ASSUME Inv, LInv, CInv, NEW a \in Apps, NEW n \in Names, Register(a, n)
  PROVE  CInv'
<1>1. PICK s \in Slots : RegisteredAt(a, n, s)
  BY RegisteredFacts DEF Inv
<1>2. /\ reg[s].id = 0 /\ \A t \in Slots : t # s => reg'[t] = reg[t]
      /\ reg'[s].id # 0 /\ reg'[s].name = n /\ reg'[s].active \in {NoBuf, <<s, 1>>}
      /\ UNCHANGED <<at, job>> /\ \A p \in Places : p \notin Own(s) => buf'[p] = buf[p]
      /\ reg'[s].id \in 0 .. LastReg
  BY <1>1 DEF RegisteredAt, RegType
<1>3. PICK u \in BOOLEAN : Connect(a, s, reg'[s].id, u)
  BY <1>1 DEF RegisteredAt
<1>4. PICK h \in Hs : ~hnd[h].used /\ \A g \in Hs : g # h => hnd'[g] = hnd[g]
  BY <1>2, <1>3, ConnectFacts
<1>5. \A m \in Critical : cds'[m].loaded = cds[m].loaded /\ cds'[m].data = cds[m].data
  <2>1. cds' \in {cds, [cds EXCEPT ![n].made = TRUE]}
    BY <1>1 DEF RegisteredAt, RegisteredAs
  <2> QED
    BY <2>1, Types DEF CdsType, Inv
<1>6. \A t \in Slots : reg[t].id # 0 => reg[t].name # n
  BY DEF Register, Named, Used
<1>7. \A t \in Slots : t # s => \A p \in Own(t) : buf'[p] = buf[p]
  <2>1. \A t \in Slots : \A p \in Own(t) : p \in Places /\ p[1] = t
    BY OwnPlaces
  <2> QED
    BY <1>2, <2>1
<1>8. SavedAt(s)'
  <2> SUFFICES ASSUME n \in Critical, reg'[s].active # NoBuf
               PROVE  cds'[n].loaded /\ cds'[n].data = buf'[PlaceIn(reg', reg'[s].active)].data
    BY <1>2 DEF SavedAt
  <2>1. 1 \in 1 .. LastGen
    BY Constants
  <2>2. <<s, 1>> # NoBuf /\ <<s, 1>>[1] = s /\ <<s, 1>>[2] = 1 /\ s # -1
    BY <2>1, OwnIds
  <2>3. PlaceIn(reg', <<s, 1>>) = FirstPlace(n, s)
    BY <1>2, <2>2 DEF PlaceIn, FirstPlace
  <2>4. n \notin DumpOnly
    BY Constants
  <2>5. cds' = cds /\ cds[n].loaded /\ buf'[FirstPlace(n, s)].data = cds[n].data
    BY <1>1, <2>2, <2>4 DEF RegisteredAt, RegisteredAs
  <2> QED
    BY <1>2, <2>3, <2>5
<1> QED
  BY <1>2, <1>4, <1>5, <1>6, <1>7, <1>8, NewC

LEMMA ReleaseC ==
  ASSUME IInv, LInv, CInv, NEW a \in Apps, NEW h \in Mine(a), ReleaseAccDesc(a, h),
         at[a] \in {"idle", "cleanup"}, at' = at
  PROVE  CInv'
<1>1. PICK s \in Slots : ReleasedAt(a, h, s)
  BY ReleaseFacts
<1>2. /\ \A t \in Slots : t # s => reg'[t] = reg[t]
      /\ reg'[s].name = reg[s].name /\ reg'[s].active = reg[s].active /\ reg'[s].id \in {reg[s].id, 0}
      /\ \A g \in Hs : g # h => hnd'[g] = hnd[g]
      /\ UNCHANGED <<cds, job>>
  BY <1>1 DEF ReleasedAt, Freed, Left
<1>3. ASSUME NEW t \in Slots
      PROVE  reg'[t].id \in {reg[t].id, 0} /\ reg'[t].name = reg[t].name /\ reg'[t].active = reg[t].active
  BY <1>2
<1>4. ASSUME NEW t \in Slots, reg'[t].id # 0, NEW p \in Own(t)
      PROVE  buf'[p].data = buf[p].data
  <2>1. CASE Left(a, s, h)
    BY <2>1 DEF Left
  <2>2. CASE Freed(s, h)
    <3>1. t # s /\ p \in Places /\ p \notin Own(s)
      BY <1>4, <2>2, OwnApart, OwnPlaces DEF Freed
    <3> QED
      BY <2>2, <3>1, DiscardedSame, ClearFacts, Types DEF Freed
  <2> QED
    BY <1>1, <2>1, <2>2 DEF ReleasedAt
<1>5. ASSUME NEW b \in Apps, at[b] \in SaveSteps
      PROVE  /\ job[b].h \in Hs /\ hnd'[job[b].h] = hnd[job[b].h] /\ hnd[job[b].h].slot \in Slots
  <2>1. job[b].h \in Hs /\ hnd[job[b].h].app = b /\ hnd[job[b].h].slot \in Slots /\ b # a
    BY <1>5, JobFacts, MineFacts DEF SaveSteps
  <2>2. hnd[h].app = a
    BY MineFacts
  <2> QED
    BY <1>2, <2>1, <2>2
<1>6. NamesOnce'
  BY <1>3 DEF CInv, NamesOnce
<1>7. ASSUME NEW b \in Apps
      PROVE  SaveOK(b)'
  BY <1>2, <1>3, <1>5, SaveFrame
<1>8. ASSUME NEW t \in Slots
      PROVE  SavedAt(t)'
  <2>1. CASE reg'[t].id = 0
    BY <2>1 DEF SavedAt
  <2>2. CASE reg'[t].id # 0
    <3>1. Saving(t) => Saving(t)'
      <4> HAVE Saving(t)
      <4>1. PICK b \in Apps : at[b] \in SaveSteps /\ hnd[job[b].h].slot = t
        BY SavingNow
      <4> QED
        BY <1>2, <1>5, <4>1, SavingNext
    <3>2. reg[t].active # NoBuf =>
            buf'[PlaceIn(reg, reg[t].active)].data = buf[PlaceIn(reg, reg[t].active)].data
      BY <1>4, <2>2, ActivePlace
    <3> QED
      BY <1>2, <1>3, <2>2, <3>1, <3>2, SavedFrame
  <2> QED
    BY <2>1, <2>2
<1> QED
  BY <1>6, <1>7, <1>8, SavedNext DEF CInv

\* Applications write to a table through loads only.
LoadsOnly == "modified" \notin Calls

LEMMA CNext ==
  ASSUME Inv, LInv, CInv, LoadsAside, LoadsOnly, [Next]_vars
  PROVE  CInv'
<1> USE DEF Inv
<1>1. CASE UNCHANGED vars
  BY <1>1, GroundC, QuietSame, RegQuietSame, OwnUnchanged DEF vars, LInv, QuietGround
<1>2. ASSUME NEW a \in Apps, Start(a)
      PROVE  CInv'
  <2>1. CASE \E n \in Names : Register(a, n) \/ RegisterFails(a, n) \/ Share(a, n)
    BY <2>1, RegisterC, RegisterFailsC, ShareC
  <2>2. CASE \E h \in Mine(a) : Unregister(a, h) \/ GetAddress(a, h) \/ ReleaseAddress(a, h)
    BY <2>2, ReleaseC, ReadersC DEF Unregister, Begin
  <2>3. CASE \E h \in Mine(a) : Manage(a, h) \/ Update(a, h) \/ Validate(a, h) \/ DumpToBuffer(a, h)
    BY <2>3, QuietSteps
  <2>4. CASE \E h \in Mine(a) : \E d \in Images : Load(a, h, d) \/ Modified(a, h, d)
    BY <2>4, LoadC DEF Modified, LoadsOnly
  <2>5. CASE Exit(a)
    BY <2>5, QuietSteps
  <2> QED
    BY <1>2, <2>1, <2>2, <2>3, <2>4, <2>5 DEF Start
<1>3. ASSUME NEW a \in Apps, Continue(a)
      PROVE  CInv'
  <2>1. CASE AddressStatus(a) \/ Reserve(a) \/ Discard(a) \/ CleanUpEnd(a)
    BY <2>1, QuietSteps
  <2>2. CASE LoadWrite(a) \/ LoadCheck(a)
    BY <2>2, LoadWrites, LoadChecks, WorkC
  <2>3. CASE Copy(a)
    BY <2>3 DEF Copy, LInv, LoadOK
  <2>4. CASE Activate(a) \/ Notify(a) \/ PickActive(a) \/ Save(a)
    BY <2>4, ActivateC, NotifyC, PickActiveC, SaveC
  <2>5. CASE ValidateFunction(a)
    BY <2>5, ReadersC
  <2>6. CASE \E h \in Mine(a) : CleanUpHandle(a, h)
    BY <2>6, ReleaseC DEF CleanUpHandle
  <2>7. CASE \E h \in Mine(a) : Update(a, h) \/ Validate(a, h) \/ DumpToBuffer(a, h)
    BY <2>7, QuietSteps
  <2> QED
    BY <1>3, <2>1, <2>2, <2>3, <2>4, <2>5, <2>6, <2>7 DEF Continue
<1>4. CASE Command \/ Carry \/ SendHkCmd
  <2>1. QuietGround
    BY <1>4, QuietCommands
  <2> QED
    BY <2>1, GroundC
<1> QED
  BY <1>1, <1>2, <1>3, <1>4 DEF Next

LEMMA CStart ==
  ASSUME Init
  PROVE  CInv
<1>1. reg = [s \in Slots |-> NoReg] /\ at = [a \in Apps |-> "idle"]
  BY DEF Init
<1> QED
  BY <1>1 DEF CInv, NamesOnce, SaveOK, CriticalSaved, Used, NoReg

LEMMA CInvariance ==
  ASSUME LoadsAside, LoadsOnly
  PROVE  Spec => [](Inv /\ LInv /\ CInv)
<1>1. Init => CInv
  BY CStart
<1>2. Inv /\ LInv /\ CInv /\ [Next]_vars => CInv'
  BY CNext
<1> QED
  BY <1>1, <1>2, LInvariance, PTL DEF Spec

\* Outside of an update the critical data store holds the active image of a critical
\* table, so that its owner, started again, finds the image it had
\* (CFE_TBL_UpdateCriticalTblCDS, CFE_TBL_RestoreTableDataFromCDS), where applications
\* change tables by loads only; tbl_stale shows what CFE_TBL_Modified can do to it.
THEOREM SavedKept ==
  ASSUME LoadsAside, LoadsOnly
  PROVE  Spec => []CriticalSaved
<1>1. CInv => CriticalSaved
  BY DEF CInv
<1> QED
  BY <1>1, CInvariance, PTL

-----------------------------------------------------------------------------
(* What the validation functions accepted                                  *)

\* A dump-only table has no validation function, for it is active from its registration
\* on; and an application updates a table only when CFE_TBL_Manage found that it should,
\* for a table that was recovered without an image has a load in progress of zeros.
ManagedOnly == DumpOnly \cap Checked = {} /\ "update" \notin Calls

\* The steps of a load that fill its buffer or give it up.
FillSteps == {"write", "check", "discard", "fault"}
Filling(s) == \E b \in Apps : at[b] \in FillSteps /\ hnd[job[b].h].slot = s

NextGood(s) ==
  reg[s].name \in Checked /\ reg[s].next # NoBuf => buf[PlaceIn(reg, reg[s].next)].data \in Good
ActiveGood(s) ==
  reg[s].id # 0 /\ reg[s].name \in Checked /\ reg[s].active # NoBuf =>
    buf[PlaceIn(reg, reg[s].active)].data \in Good
\* A working buffer that is marked as validated, and that no load is filling.
ValidGood(s) ==
  reg[s].next # NoBuf /\ buf[PlaceIn(reg, reg[s].next)].valid /\ ~Filling(s) => NextGood(s)
\* An update is under way only with an image that was accepted.
TrustSteps == {"update", "reserve", "activate", "function"}
JobGood(b) ==
  LET s == hnd[job[b].h].slot IN
    /\ at[b] \in {"update", "reserve"} => NextGood(s)
    /\ at[b] = "activate" /\ reg[s].name \in Checked => buf[job[b].to].data \in Good
    /\ at[b] = "function" => job[b].to \in Own(s) \cup {NoBuf}
StoredGood == \A n \in Critical \cap Checked : cds[n].loaded => cds[n].data \in Good
VInv ==
  StoredGood /\ (\A s \in Slots : ActiveGood(s) /\ ValidGood(s)) /\ (\A b \in Apps : JobGood(b))

\* The own buffers keep what they hold, and become valid only when the function passes it.
BufKept(s) ==
  \A p \in Own(s) : /\ buf'[p].data = buf[p].data
                    /\ buf'[p].valid => buf[p].valid \/ Passes(s, buf[p].data)
TabKept(s) ==
  /\ reg'[s].id \in {reg[s].id, 0} /\ reg'[s].name = reg[s].name
  /\ reg'[s].active = reg[s].active /\ reg'[s].next \in {reg[s].next, NoBuf}

LEMMA VPlaces ==
  ASSUME IInv, LInv, NEW s \in Slots
  PROVE  /\ reg[s].active # NoBuf => PlaceIn(reg, reg[s].active) \in Own(s)
         /\ reg[s].next # NoBuf => PlaceIn(reg, reg[s].next) \in Own(s)
         /\ reg'[s].name = reg[s].name /\ reg[s].active # NoBuf =>
              PlaceIn(reg', reg[s].active) = PlaceIn(reg, reg[s].active)
         /\ reg'[s].name = reg[s].name /\ reg[s].next # NoBuf =>
              PlaceIn(reg', reg[s].next) = PlaceIn(reg, reg[s].next)
<1>1. TableOK(s)
  BY DEF LInv
<1>2. /\ reg[s].active # NoBuf => PlaceIn(reg, reg[s].active) \in Own(s)
      /\ reg[s].next # NoBuf => reg[s].next[1] = s /\ PlaceIn(reg, reg[s].next) \in Own(s)
  BY <1>1, OwnNext
<1>3. reg[s].active \in BufIds /\ reg[s].next \in BufIds
  BY Types DEF RegType
<1>4. reg[s].active # NoBuf => reg[s].active[1] = s
  BY DEF IInv, IdsOK
<1>5. reg'[s].name = reg[s].name /\ reg[s].active # NoBuf =>
        PlaceIn(reg', reg[s].active) = PlaceIn(reg, reg[s].active)
  BY <1>3, <1>4, PlaceSame
<1>6. reg'[s].name = reg[s].name /\ reg[s].next # NoBuf =>
        PlaceIn(reg', reg[s].next) = PlaceIn(reg, reg[s].next)
  BY <1>2, <1>3, PlaceSame
<1> QED
  BY <1>2, <1>5, <1>6

LEMMA NextGoodFrame ==
  ASSUME IInv, LInv, NEW s \in Slots, NextGood(s), TabKept(s), BufKept(s)
  PROVE  NextGood(s)'
BY VPlaces DEF NextGood, TabKept, BufKept

LEMMA TableFrameV ==
  ASSUME IInv, LInv, NEW s \in Slots, ActiveGood(s), ValidGood(s), TabKept(s), BufKept(s),
         Filling(s) => Filling(s)' \/ NextGood(s) \/ reg'[s].next = NoBuf
  PROVE  ActiveGood(s)' /\ ValidGood(s)'
<1>1. ActiveGood(s)'
  BY VPlaces DEF ActiveGood, TabKept, BufKept
<1>2. ASSUME reg'[s].next # NoBuf, buf'[PlaceIn(reg', reg'[s].next)].valid, ~Filling(s)'
      PROVE  NextGood(s)'
  <2> DEFINE p == PlaceIn(reg, reg[s].next)
  <2>1. reg'[s].next = reg[s].next /\ p \in Own(s) /\ buf'[p].valid /\ PlaceIn(reg', reg'[s].next) = p
    BY <1>2, VPlaces DEF TabKept
  <2>2. buf[p].valid \/ Passes(s, buf[p].data)
    BY <2>1 DEF BufKept
  <2>3. NextGood(s)
    BY <1>2, <2>1, <2>2 DEF ValidGood, NextGood, Passes
  <2> QED
    BY <2>3, NextGoodFrame
<1> QED
  BY <1>1, <1>2 DEF ValidGood

LEMMA JobFrameV ==
  ASSUME IInv, LInv, NEW b \in Apps, JobGood(b), at'[b] = at[b], job'[b] = job[b],
         at[b] \in TrustSteps =>
           LET s == hnd[job[b].h].slot IN hnd'[job[b].h].slot = s /\ TabKept(s) /\ BufKept(s)
  PROVE  JobGood(b)'
<1>1. CASE at[b] \notin TrustSteps
  BY <1>1 DEF JobGood, TrustSteps
<1>2. CASE at[b] \in TrustSteps
  <2>1. PICK s \in Slots : s = hnd[job[b].h].slot
    BY <1>2, JobFacts DEF TrustSteps
  <2>2. hnd'[job[b].h].slot = s /\ TabKept(s) /\ BufKept(s)
    BY <1>2, <2>1
  <2>3. at[b] = "activate" => job[b].to \in Own(s)
    BY <2>1 DEF IInv, JobsOK, JobOK
  <2>4. NextGood(s) => NextGood(s)'
    BY <2>2, NextGoodFrame
  <2>5. at[b] = "activate" /\ reg[s].name \in Checked => buf'[job[b].to].data \in Good
    BY <2>1, <2>2, <2>3 DEF JobGood, BufKept
  <2>6. reg'[s].name = reg[s].name
    BY <2>2 DEF TabKept
  <2> QED
    BY <2>1, <2>2, <2>4, <2>5, <2>6 DEF JobGood
<1> QED
  BY <1>1, <1>2

LEMMA VStep ==
  ASSUME IInv, LInv, VInv, StoredGood',
         \A s \in Slots : TabKept(s) /\ BufKept(s),
         \A b \in Apps : at[b] \notin {"idle", "cleanup"} => hnd'[job[b].h].slot = hnd[job[b].h].slot,
         \A b \in Apps : JobGood(b)' \/ (at'[b] = at[b] /\ job'[b] = job[b]),
         \A b \in Apps : at[b] \in FillSteps => \/ at'[b] \in FillSteps /\ job'[b].h = job[b].h
                                                \/ reg'[hnd[job[b].h].slot].next = NoBuf
  PROVE  VInv'
<1>1. ASSUME NEW s \in Slots
      PROVE  ActiveGood(s)' /\ ValidGood(s)'
  <2>1. Filling(s) => Filling(s)' \/ reg'[s].next = NoBuf
    <3> HAVE Filling(s)
    <3>1. PICK b \in Apps : at[b] \in FillSteps /\ hnd[job[b].h].slot = s
      BY DEF Filling
    <3>2. hnd'[job[b].h].slot = s
      BY <3>1 DEF FillSteps
    <3>3. CASE at'[b] \in FillSteps /\ job'[b].h = job[b].h
      BY <3>2, <3>3 DEF Filling
    <3>4. CASE reg'[hnd[job[b].h].slot].next = NoBuf
      BY <3>1, <3>4
    <3> QED
      BY <3>1, <3>3, <3>4
  <2> QED
    BY <2>1, TableFrameV DEF VInv
<1>2. ASSUME NEW b \in Apps
      PROVE  JobGood(b)'
  <2>1. CASE at'[b] = at[b] /\ job'[b] = job[b]
    <3>1. at[b] \in TrustSteps => hnd[job[b].h].slot \in Slots
      BY JobFacts DEF TrustSteps
    <3> QED
      BY <2>1, <3>1, JobFrameV DEF VInv, TrustSteps
  <2> QED
    BY <2>1
<1> QED
  BY <1>1, <1>2 DEF VInv

LEMMA QuietV ==
  ASSUME IInv, LInv, VInv, StoredGood', NEW a \in Apps, Quiet(a), JobGood(a)',
         at[a] \in FillSteps => \/ at'[a] \in FillSteps /\ job'[a].h = job[a].h
                                \/ reg'[hnd[job[a].h].slot].next = NoBuf
  PROVE  VInv'
<1>1. \A s \in Slots : TabKept(s) /\ BufKept(s)
  BY DEF Quiet, RegSame, OwnKept, TabKept, BufKept
<1>2. \A b \in Apps : at[b] \notin {"idle", "cleanup"} => hnd'[job[b].h].slot = hnd[job[b].h].slot
  BY JobFacts DEF Quiet, HndSame
<1>3. \A b \in Apps : JobGood(b)' \/ (at'[b] = at[b] /\ job'[b] = job[b])
  BY DEF Quiet, OthersStay
<1>4. \A b \in Apps : at[b] \in FillSteps => \/ at'[b] \in FillSteps /\ job'[b].h = job[b].h
                                             \/ reg'[hnd[job[b].h].slot].next = NoBuf
  BY DEF Quiet, OthersStay
<1> QED
  BY <1>1, <1>2, <1>3, <1>4, VStep

LEMMA GroundV ==
  ASSUME IInv, LInv, VInv, QuietGround
  PROVE  VInv'
<1>1. \A s \in Slots : TabKept(s) /\ BufKept(s)
  BY DEF QuietGround, RegSame, OwnKept, TabKept, BufKept
<1>2. StoredGood'
  BY DEF QuietGround, VInv, StoredGood
<1> QED
  BY <1>1, <1>2, VStep DEF QuietGround

\* The steps after which a call is not about an image that must have been accepted.
LEMMA PlainV ==
  ASSUME IInv, LInv, VInv, NEW a \in Apps,
         \/ AddressStatus(a) \/ Exit(a) \/ CleanUpEnd(a) \/ Notify(a) \/ PickActive(a)
         \/ \E h \in Mine(a) : DumpToBuffer(a, h)
  PROVE  VInv'
<1>1. Quiet(a)
  BY AddressStatusKeeps, PlainKeeps, NotifyKeeps, DumpToBufferKeeps
<1>2. cds' = cds
  BY DEF AddressStatus, Exit, CleanUpEnd, Notify, PickActive, DumpToBuffer, storeVars
<1>3. at'[a] \in {"idle", "cleanup", "discard", "pick", "save", "saveModified"}
  BY Types DEF AddressStatus, Exit, CleanUpEnd, Notify, PickActive, DumpToBuffer, Return, Goto
<1>4. at[a] \notin FillSteps
  BY DEF AddressStatus, Exit, CleanUpEnd, Notify, PickActive, DumpToBuffer, Begin, FillSteps
<1>5. JobGood(a)'
  BY <1>3 DEF JobGood
<1> QED
  BY <1>1, <1>2, <1>4, <1>5, QuietV DEF VInv, StoredGood

LEMMA DiscardV ==
  ASSUME IInv, LInv, VInv, NEW a \in Apps, Discard(a)
  PROVE  VInv'
<1>1. PICK s \in Slots : s = HSlot(a) /\ s = hnd[job[a].h].slot
  BY JobFacts DEF Discard
<1>2. cds' = cds /\ at'[a] = "idle"
  BY Types DEF Discard, Return, Goto
<1>3. reg'[s].next = NoBuf
  <2>1. reg' = [reg EXCEPT ![s].next = NoBuf]
    BY <1>1 DEF Discard
  <2> QED
    BY <2>1, RegNext, Types, NoBufId
<1>4. JobGood(a)'
  BY <1>2 DEF JobGood
<1> QED
  BY <1>1, <1>2, <1>3, <1>4, DiscardKeeps, QuietV DEF VInv, StoredGood

LEMMA ManageV ==
  ASSUME IInv, LInv, VInv, NEW a \in Apps, NEW h \in Mine(a), Manage(a, h)
  PROVE  VInv'
<1>1. PICK s \in Slots : s = hnd[h].slot
  BY MineFacts
<1>2. UNCHANGED <<reg, buf, hnd, cds>> /\ at[a] = "idle" /\ reg[s].owner = a
  BY <1>1 DEF Manage, Begin, userVars, storeVars
<1>3. job'[a].h = h
  <2>1. job' = [job EXCEPT ![a].h = h]
    BY DEF Manage
  <2> QED
    BY <2>1, Types, MineFacts DEF JobType
<1>4. \/ at'[a] \in {"validate", "dump"}
      \/ at'[a] = "update" /\ IsMatch(reg[s].next) /\ buf[Place(reg[s].next)].valid
  BY <1>1, Types DEF Manage, Goto
<1>5. ~Filling(s)
  <2> SUFFICES ASSUME NEW b \in Apps, at[b] \in FillSteps, hnd[job[b].h].slot = s
               PROVE  FALSE
    BY DEF Filling
  <2>1. reg[s].owner = b
    BY JobFacts DEF FillSteps, OwnerSteps
  <2> QED
    BY <1>2, <2>1 DEF FillSteps
<1>6. at'[a] = "update" => NextGood(s)
  BY <1>4, <1>5, PlaceNow DEF VInv, ValidGood, IsMatch
<1>7. NextGood(s)' <=> NextGood(s)
  BY <1>2 DEF NextGood, PlaceIn
<1>8. JobGood(a)'
  BY <1>1, <1>2, <1>3, <1>4, <1>6, <1>7 DEF JobGood
<1> QED
  BY <1>2, <1>8, PlainKeeps, QuietV DEF VInv, StoredGood, FillSteps

LEMMA UpdateV ==
  ASSUME IInv, LInv, VInv, ManagedOnly, NEW a \in Apps, NEW h \in Mine(a), Update(a, h)
  PROVE  VInv'
<1>1. at[a] = "update" /\ job[a].h = h /\ UNCHANGED <<reg, buf, hnd, cds>>
  BY DEF Update, ManagedOnly, userVars, storeVars
<1>2. at'[a] = "reserve"
  BY Types DEF Update, Goto
<1>3. job'[a].h = h
  <2>1. job' = [job EXCEPT ![a].h = h]
    BY DEF Update
  <2> QED
    BY <2>1, Types, MineFacts DEF JobType
<1>4. PICK s \in Slots : s = hnd[h].slot
  BY MineFacts
<1>5. NextGood(s)
  BY <1>1, <1>4 DEF VInv, JobGood
<1>6. NextGood(s)'
  BY <1>1, <1>5 DEF NextGood, PlaceIn
<1>7. JobGood(a)'
  BY <1>1, <1>2, <1>3, <1>4, <1>6 DEF JobGood
<1> QED
  BY <1>1, <1>7, PlainKeeps, QuietV DEF VInv, StoredGood, FillSteps

LEMMA ReserveV ==
  ASSUME IInv, LInv, VInv, NEW a \in Apps, Reserve(a)
  PROVE  VInv'
<1>1. PICK s \in Slots : s = HSlot(a) /\ s = hnd[job[a].h].slot
  BY JobFacts DEF Reserve
<1>2. Quiet(a) /\ cds' = cds /\ at[a] = "reserve"
  BY ReserveKeeps DEF Reserve
<1>3. CASE at'[a] = "idle"
  <2>1. JobGood(a)'
    BY <1>3 DEF JobGood
  <2> QED
    BY <1>2, <2>1, QuietV DEF VInv, StoredGood, FillSteps
<1>4. CASE /\ at'[a] = "activate" /\ job'[a].h = job[a].h
           /\ InProgress(s) # NoBuf /\ job'[a].to = InProgress(s)
           /\ reg' = reg /\ buf' = buf
  <2>1. InProgress(s) = PlaceIn(reg, reg[s].next) /\ reg[s].next # NoBuf
    BY <1>4, OwnLoad
  <2>2. NextGood(s)
    BY <1>1, <1>2 DEF VInv, JobGood
  <2>3. reg[s].name \in Checked => buf[InProgress(s)].data \in Good
    BY <2>1, <2>2 DEF NextGood
  <2>4. hnd'[job[a].h].slot = s
    BY <1>1, <1>2, JobFacts DEF Quiet, HndSame
  <2>5. PICK p : p = InProgress(s)
    OBVIOUS
  <2>6. JobGood(a)'
    BY <1>4, <2>3, <2>4, <2>5 DEF JobGood
  <2> QED
    BY <1>2, <2>6, QuietV DEF VInv, StoredGood, FillSteps
<1> QED
  BY <1>1, <1>3, <1>4, ReserveKeeps

LEMMA ValidateV ==
  ASSUME IInv, LInv, VInv, NEW a \in Apps, NEW h \in Mine(a), Validate(a, h)
  PROVE  VInv'
<1>1. PICK s \in Slots : s = hnd[h].slot
  BY MineFacts
<1>2. UNCHANGED <<buf, hnd, cds>> /\ at[a] \in {"idle", "validate"}
  BY DEF Validate, Begin, userVars, storeVars
<1>3. at'[a] = "idle" \/ (at'[a] = "function" /\ job'[a].h = h /\ job'[a].to \in Own(s) \cup {NoBuf})
  <2>1. PICK p : \/ Goto(a, "idle")
                 \/ /\ Goto(a, "function") /\ p \in {InProgress(s), Place(reg[s].active)}
                    /\ \E v : job' = [job EXCEPT ![a] = [@ EXCEPT !.h = h, !.v = v, !.to = p]]
    BY <1>1 DEF Validate
  <2>2. InProgress(s) \in Own(s) \cup {NoBuf}
    BY OwnLoad
  <2>3. Place(reg[s].active) \in Own(s) \cup {NoBuf}
    <3>1. reg[s].active = NoBuf => PlaceIn(reg, reg[s].active) = NoBuf
      BY NoBufId, PlaceType
    <3> QED
      BY <3>1, VPlaces, PlaceNow
  <2>4. CASE Goto(a, "idle")
    BY <2>4, Types DEF Goto
  <2>5. CASE /\ Goto(a, "function") /\ p \in {InProgress(s), Place(reg[s].active)}
             /\ \E v : job' = [job EXCEPT ![a] = [@ EXCEPT !.h = h, !.v = v, !.to = p]]
    <3>1. p \in Own(s) \cup {NoBuf}
      BY <2>2, <2>3, <2>5
    <3>2. at'[a] = "function"
      BY <2>5, Types DEF Goto
    <3>3. job'[a].h = h /\ job'[a].to = p
      BY <2>5, Types DEF JobType
    <3> QED
      BY <3>1, <3>2, <3>3
  <2> QED
    BY <2>1, <2>4, <2>5
<1>4. JobGood(a)'
  BY <1>1, <1>2, <1>3 DEF JobGood
<1> QED
  BY <1>2, <1>4, ValidateKeeps, QuietV DEF VInv, StoredGood, FillSteps

LEMMA ValidateFunctionV ==
  ASSUME IInv, LInv, VInv, NEW a \in Apps, ValidateFunction(a)
  PROVE  VInv'
<1>1. PICK s \in Slots : s = HSlot(a) /\ s = hnd[job[a].h].slot
  BY JobFacts DEF ValidateFunction
<1>2. at[a] = "function" /\ job[a].to \in Own(s) \cup {NoBuf}
  BY <1>1 DEF ValidateFunction, VInv, JobGood
<1>3. /\ UNCHANGED <<reg, hnd, seen, cds, gnd>> /\ OthersStay(a) /\ at'[a] = "idle"
      /\ \A q \in Places : /\ buf'[q].data = buf[q].data
                           /\ buf'[q].valid => buf[q].valid \/ (q = job[a].to /\ Passes(s, buf[q].data))
  <2>1. \A d : Passes(HSlot(a), d) <=> Passes(s, d)
    BY <1>1 DEF Passes
  <2> QED
    BY <2>1, ValidateFunctionKeeps
<1>4. ASSUME NEW t \in Slots
      PROVE  TabKept(t) /\ BufKept(t)
  <2>1. ASSUME NEW p \in Own(t)
        PROVE  /\ buf'[p].data = buf[p].data
               /\ buf'[p].valid => buf[p].valid \/ Passes(t, buf[p].data)
    <3>1. p \in Places /\ p # NoBuf
      BY OwnPlaces
    <3>2. p = job[a].to => t = s
      BY <1>2, <3>1, OwnApart
    <3> QED
      BY <1>3, <3>1, <3>2
  <2> QED
    BY <1>3, <2>1 DEF TabKept, BufKept
<1>5. JobGood(a)'
  BY <1>3 DEF JobGood
<1>6. \A b \in Apps : b # a => at'[b] = at[b] /\ job'[b] = job[b]
  BY <1>3 DEF OthersStay
<1>7. \A b \in Apps : at[b] \in FillSteps => at'[b] \in FillSteps /\ job'[b].h = job[b].h
  BY <1>2, <1>6 DEF FillSteps
<1> QED
  BY <1>3, <1>4, <1>5, <1>6, <1>7, VStep DEF VInv, StoredGood

\* The steps of readers.
LEMMA ReadersV ==
  ASSUME IInv, LInv, VInv, NEW a \in Apps, NEW h \in Mine(a), GetAddress(a, h) \/ ReleaseAddress(a, h)
  PROVE  VInv'
<1>1. UNCHANGED <<reg, buf, cds>> /\ at[a] = "idle" /\ OthersStay(a) /\ at'[a] \in {"idle", "address"}
  BY Types DEF GetAddress, ReleaseAddress, Begin, Goto, storeVars, taskVars, OthersStay
<1>2. ASSUME NEW g \in Hs
      PROVE  hnd'[g].slot = hnd[g].slot
  <2> DEFINE p == Place(reg[hnd[h].slot].active)
             x == [hnd[h] EXCEPT !.locked = TRUE, !.buf = buf[p].id, !.addr = p]
             y == [hnd[h] EXCEPT !.locked = FALSE, !.addr = NoBuf]
  <2>1. hnd' = [hnd EXCEPT ![h] = x] \/ hnd' = [hnd EXCEPT ![h] = y]
    BY DEF GetAddress, ReleaseAddress
  <2>2. hnd \in [Hs -> HndType] /\ h \in Hs
    BY MineFacts, Types
  <2>3. x.slot = hnd[h].slot /\ y.slot = hnd[h].slot
    BY <2>2 DEF HndType
  <2> HIDE DEF x, y
  <2> QED
    BY <2>1, <2>2, <2>3
<1>3. \A b \in Apps : at[b] \notin {"idle", "cleanup"} => hnd'[job[b].h].slot = hnd[job[b].h].slot
  BY <1>2, JobFacts
<1>4. JobGood(a)'
  BY <1>1 DEF JobGood
<1> QED
  BY <1>1, <1>3, <1>4, VStep DEF VInv, StoredGood, TabKept, BufKept, OthersStay, FillSteps

LEMMA SaveV ==
  ASSUME IInv, LInv, CInv, VInv, NEW a \in Apps, Save(a)
  PROVE  VInv'
<1>1. PICK s \in Slots : s = HSlot(a) /\ s = hnd[job[a].h].slot /\ reg[s].id # 0
  BY JobFacts DEF Save
<1>2. at[a] = "save" /\ at'[a] = "discard"
  BY Types DEF Save, Goto, CInv, SaveOK
<1> DEFINE n == reg[s].name
           p == PlaceIn(reg, reg[s].active)
<1>3. PICK u \in BOOLEAN :
        /\ u = (reg[s].active # NoBuf)
        /\ cds' = IF p = NoBuf THEN cds ELSE [cds EXCEPT ![n].data = buf[p].data, ![n].loaded = u]
  <2>1. cds' = IF p = NoBuf THEN cds
               ELSE [cds EXCEPT ![n].data = buf[p].data, ![n].loaded = reg[s].active # NoBuf]
    BY <1>1, <1>2 DEF Save, CInv, SaveOK
  <2> QED
    BY <2>1
<1>4. p # NoBuf => reg[s].active # NoBuf
  BY NoBufId, PlaceType
<1>5. p # NoBuf /\ n \in Checked => buf[p].data \in Good
  BY <1>1, <1>4 DEF VInv, ActiveGood
<1>6. StoredGood'
  <2>1. PICK x : x = buf[p].data
    OBVIOUS
  <2> HIDE DEF n, p
  <2>2. cds' = cds \/ (cds' = [cds EXCEPT ![n].data = x, ![n].loaded = u] /\ (n \in Checked => x \in Good))
    BY <1>3, <1>5, <2>1
  <2>3. cds \in [Critical -> CdsType]
    BY Types
  <2>4. ASSUME NEW m \in Critical \cap Checked, cds'[m].loaded
        PROVE  cds'[m].data \in Good
    <3>1. CASE m = n /\ cds' # cds
      BY <2>2, <2>3, <3>1 DEF CdsType
    <3>2. CASE m # n \/ cds' = cds
      <4>1. cds'[m] = cds[m]
        BY <2>2, <2>3, <3>2
      <4> QED
        BY <2>4, <4>1 DEF VInv, StoredGood
    <3> QED
      BY <3>1, <3>2
  <2> QED
    BY <2>4 DEF StoredGood
<1>7. JobGood(a)'
  BY <1>2 DEF JobGood
<1> QED
  BY <1>2, <1>6, <1>7, PlainKeeps, QuietV DEF FillSteps

\* A step of the owner of a table, which changes that one only.
LEMMA OneV ==
  ASSUME IInv, LInv, VInv, cds' = cds, NEW a \in Apps, OthersStay(a), NEW s \in Slots,
         reg[s].id # 0, reg[s].owner = a, \A t \in Slots : t # s => TabKept(t) /\ BufKept(t),
         hnd' = hnd, at[a] \in FillSteps => hnd[job[a].h].slot = s,
         JobGood(a)', ActiveGood(s)', ValidGood(s)'
  PROVE  VInv'
<1>1. StoredGood'
  BY DEF VInv, StoredGood
<1>2. ASSUME NEW t \in Slots, t # s
      PROVE  ActiveGood(t)' /\ ValidGood(t)'
  <2>1. Filling(t) => Filling(t)'
    <3> HAVE Filling(t)
    <3>1. PICK b \in Apps : at[b] \in FillSteps /\ hnd[job[b].h].slot = t
      BY DEF Filling
    <3>2. b # a
      BY <1>2, <3>1
    <3> QED
      BY <3>1, <3>2 DEF OthersStay, Filling
  <2> QED
    BY <1>2, <2>1, TableFrameV DEF VInv
<1>3. ASSUME NEW b \in Apps, b # a
      PROVE  JobGood(b)'
  <2>1. at[b] \in TrustSteps => hnd[job[b].h].slot \in Slots /\ hnd[job[b].h].slot # s
    BY <1>3, JobFacts DEF TrustSteps, OwnerSteps
  <2>2. at'[b] = at[b] /\ job'[b] = job[b]
    BY <1>3 DEF OthersStay
  <2>3. at[b] \in TrustSteps => TabKept(hnd[job[b].h].slot) /\ BufKept(hnd[job[b].h].slot)
    BY <2>1
  <2> QED
    BY <2>2, <2>3, JobFrameV DEF VInv
<1> QED
  BY <1>1, <1>2, <1>3 DEF VInv

LEMMA WorkV ==
  ASSUME IInv, LInv, VInv, NEW a \in Apps, NEW s \in Slots, Works(a, s)
  PROVE  VInv'
<1>1. RegSame
  BY UnstaleQuiet, RegQuietSame DEF Works
<1>2. /\ s = hnd[job[a].h].slot /\ at[a] \in {"write", "check"} /\ reg[s].owner = a /\ reg[s].id # 0
      /\ hnd' = hnd /\ cds' = cds /\ job' = job /\ OthersStay(a)
  BY JobFacts DEF Works
<1>3. ASSUME NEW t \in Slots, t # s
      PROVE  TabKept(t) /\ BufKept(t)
  <2>1. \A p \in Own(t) : p \in Places /\ p # NoBuf
    BY OwnPlaces
  <2>2. InProgress(s) # NoBuf => InProgress(s) \in Own(s)
    BY OwnLoad
  <2>3. \A p \in Own(t) : p # InProgress(s)
    BY <1>3, <2>1, <2>2, OwnApart
  <2>4. \A p \in Own(t) : buf'[p] = buf[p]
    BY <2>1, <2>3 DEF Works
  <2> QED
    BY <1>1, <2>4 DEF TabKept, BufKept, RegSame
<1>4. reg[s].active # NoBuf =>
        PlaceIn(reg, reg[s].active) \in Places /\ PlaceIn(reg, reg[s].active) # InProgress(s)
  <2> HAVE reg[s].active # NoBuf
  <2>1. PlaceIn(reg, reg[s].active) \in Places
    BY ActivePlace
  <2>2. CASE InProgress(s) = NoBuf
    BY <2>1, <2>2, NoBufId
  <2>3. CASE InProgress(s) # NoBuf
    <3>1. reg[s].name \in Double /\ InProgress(s) = PlaceIn(reg, reg[s].next) /\ reg[s].next # NoBuf
      BY <2>3, OwnLoad
    <3>2. reg[s].next = NextIn(reg, s)
      BY <1>2, <3>1 DEF LInv, LoadOK
    <3>3. TableOK(s)
      BY DEF LInv
    <3> QED
      BY <2>1, <3>1, <3>2, <3>3, Beside
  <2> QED
    BY <2>1, <2>2, <2>3
<1>5. ActiveGood(s)'
  <2>1. reg'[s].id = reg[s].id /\ reg'[s].name = reg[s].name /\ reg'[s].active = reg[s].active
    BY <1>1 DEF RegSame
  <2>2. reg[s].active # NoBuf => PlaceIn(reg', reg[s].active) = PlaceIn(reg, reg[s].active)
    BY <2>1, VPlaces
  <2>3. reg[s].active # NoBuf => buf'[PlaceIn(reg, reg[s].active)] = buf[PlaceIn(reg, reg[s].active)]
    BY <1>4 DEF Works
  <2> QED
    BY <2>1, <2>2, <2>3 DEF VInv, ActiveGood
<1>6. at'[a] = "reserve" => NextGood(s)'
  <2> HAVE at'[a] = "reserve"
  <2>1. InProgress(s) # NoBuf /\ Passes(s, buf'[InProgress(s)].data)
    BY DEF Works
  <2>2. reg' = reg /\ InProgress(s) = PlaceIn(reg, reg[s].next)
    BY <2>1, OwnLoad DEF Works
  <2> QED
    BY <2>1, <2>2 DEF NextGood, Passes
<1>7. at'[a] \in FillSteps \cup {"reserve"}
  BY DEF Works, FillSteps
<1>8. ValidGood(s)'
  <2>1. at'[a] \in FillSteps => Filling(s)'
    BY <1>2 DEF Filling
  <2> QED
    BY <1>6, <1>7, <2>1 DEF ValidGood
<1>9. JobGood(a)'
  BY <1>2, <1>6, <1>7 DEF JobGood, FillSteps
<1> QED
  BY <1>2, <1>3, <1>5, <1>8, <1>9, OneV

LEMMA LoadV ==
  ASSUME IInv, LInv, VInv, LoadsAside, NEW a \in Apps, NEW h \in Mine(a), NEW d \in Images, Load(a, h, d)
  PROVE  VInv'
<1>1. PICK s \in Slots, i \in BufIds : \E p \in Own(s) : ClaimedAt(a, h, s, p, i)
  BY Claims
<1>2. PICK p \in Own(s) : ClaimedAt(a, h, s, p, i)
  BY <1>1
<1>3. ASSUME NEW t \in Slots, t # s
      PROVE  TabKept(t) /\ BufKept(t)
  BY <1>2, <1>3 DEF ClaimedAt, TabKept, BufKept
<1>4. /\ reg'[s].id = reg[s].id /\ reg'[s].name = reg[s].name /\ reg'[s].active = reg[s].active
      /\ reg[s].id # 0 /\ reg[s].owner = a /\ hnd' = hnd /\ cds' = cds /\ OthersStay(a)
      /\ at[a] = "idle" /\ at'[a] = "write" /\ job'[a].h = h /\ s = hnd[h].slot
  BY <1>2 DEF ClaimedAt
<1>5. ActiveGood(s)'
  <2>1. reg[s].active # NoBuf => PlaceIn(reg, reg[s].active) # p /\ PlaceIn(reg, reg[s].active) \in Places
    <3>1. TableOK(s) /\ reg[s].name \in Double /\ p = PlaceIn(reg, NextIn(reg, s))
      BY <1>2 DEF ClaimedAt, LInv
    <3> QED
      BY <3>1, Beside, ActivePlace
  <2>2. reg[s].active # NoBuf => PlaceIn(reg', reg[s].active) = PlaceIn(reg, reg[s].active)
    BY <1>4, VPlaces
  <2>3. reg[s].active # NoBuf => buf'[PlaceIn(reg, reg[s].active)] = buf[PlaceIn(reg, reg[s].active)]
    BY <1>2, <2>1 DEF ClaimedAt
  <2> QED
    BY <1>4, <2>2, <2>3 DEF VInv, ActiveGood
<1>6. ValidGood(s)'
  <2>1. Filling(s)'
    BY <1>4 DEF Filling, FillSteps
  <2> QED
    BY <2>1 DEF ValidGood
<1>7. JobGood(a)'
  BY <1>4 DEF JobGood
<1> QED
  BY <1>3, <1>4, <1>5, <1>6, <1>7, OneV DEF FillSteps

LEMMA ActivateV ==
  ASSUME IInv, LInv, VInv, NEW a \in Apps, Activate(a)
  PROVE  VInv'
<1>1. PICK s \in Slots, i \in BufIds : \E p \in Own(s) : ActivatedAt(a, s, p, i)
  BY Activates
<1>2. PICK p \in Own(s) : ActivatedAt(a, s, p, i)
  BY <1>1
<1>3. /\ at[a] = "activate" /\ s = hnd[job[a].h].slot /\ reg[s].owner = a /\ reg[s].id # 0
      /\ reg'[s].id = reg[s].id /\ reg'[s].name = reg[s].name /\ reg'[s].next = reg[s].next
      /\ reg'[s].active = i /\ i[1] = s /\ p = job[a].to /\ PlaceIn(reg, i) = p
      /\ \A t \in Slots : t # s => reg'[t] = reg[t]
      /\ UNCHANGED <<buf, hnd, cds, job>> /\ OthersStay(a) /\ at'[a] = "notify"
  <2>1. i \in BufIds /\ i # NoBuf /\ PlaceIn(reg, i) = p
    BY <1>2 DEF ActivatedAt
  <2>2. i[1] = s
    <3>1. CASE i[1] = -1
      BY <2>1, <3>1, PlaceType, OwnPlaces, SharedPlaces
    <3>2. CASE i[1] # -1
      BY <2>1, <3>2, PlaceType, OwnPlaces
    <3> QED
      BY <3>1, <3>2
  <2> QED
    BY <1>2, <2>2 DEF ActivatedAt
<1>4. \A t \in Slots : t # s => TabKept(t) /\ BufKept(t)
  BY <1>3 DEF TabKept, BufKept
<1>5. ActiveGood(s)'
  <2>1. PlaceIn(reg', i) = p
    BY <1>3, PlaceSame
  <2>2. reg[s].name \in Checked => buf[p].data \in Good
    BY <1>3 DEF VInv, JobGood
  <2> QED
    BY <1>3, <2>1, <2>2 DEF ActiveGood
<1>6. ValidGood(s)'
  <2>1. Filling(s) => Filling(s)'
    <3> HAVE Filling(s)
    <3>1. PICK b \in Apps : at[b] \in FillSteps /\ hnd[job[b].h].slot = s
      BY DEF Filling
    <3>2. b # a
      BY <1>3, <3>1 DEF FillSteps
    <3> QED
      BY <1>3, <3>1, <3>2 DEF OthersStay, Filling
  <2>2. reg[s].next # NoBuf => PlaceIn(reg', reg[s].next) = PlaceIn(reg, reg[s].next)
    BY <1>3, VPlaces
  <2>3. ValidGood(s)
    BY DEF VInv
  <2> QED
    BY <1>3, <2>1, <2>2, <2>3 DEF ValidGood, NextGood
<1>7. JobGood(a)'
  BY <1>3 DEF JobGood
<1> QED
  BY <1>3, <1>4, <1>5, <1>6, <1>7, OneV DEF FillSteps

LEMMA ShareV ==
  ASSUME Inv, LInv, VInv, NEW a \in Apps, NEW n \in Names, Share(a, n)
  PROVE  VInv'
<1>1. PICK s \in Slots : Connect(a, s, reg[s].id, n \notin DumpOnly /\ reg[s].active # NoBuf)
  BY DEF Share, Named
<1>2. PICK i \in 0 .. LastReg, u \in BOOLEAN : Connect(a, s, i, u)
  <2>1. reg[s].id \in 0 .. LastReg
    BY Types DEF RegType, Inv
  <2> QED
    BY <1>1, <2>1
<1>3. PICK h \in Hs : ~hnd[h].used /\ \A g \in Hs : g # h => hnd'[g] = hnd[g]
  BY <1>2, ConnectFacts
<1>4. UNCHANGED <<reg, buf, cds, at, job>>
  BY DEF Share, storeVars, taskVars
<1>5. \A b \in Apps : at[b] \notin {"idle", "cleanup"} => hnd'[job[b].h].slot = hnd[job[b].h].slot
  BY <1>3, JobFacts, MineFacts DEF Inv
<1> QED
  BY <1>4, <1>5, VStep DEF VInv, StoredGood, TabKept, BufKept, Inv

\* A step that takes a free record.
LEMMA NewV ==
  ASSUME Inv, LInv, VInv, NEW s \in Slots, reg[s].id = 0, UNCHANGED <<at, job>>,
         \A t \in Slots : t # s => reg'[t] = reg[t] /\ \A p \in Own(t) : buf'[p] = buf[p],
         \A h \in Hs : hnd[h].used => hnd'[h] = hnd[h],
         \A m \in Critical : cds'[m].loaded = cds[m].loaded /\ cds'[m].data = cds[m].data,
         ActiveGood(s)', ValidGood(s)'
  PROVE  VInv'
<1>1. StoredGood'
  BY DEF VInv, StoredGood
<1>2. \A t \in Slots : t # s => TabKept(t) /\ BufKept(t)
  BY DEF TabKept, BufKept
<1>3. ASSUME NEW b \in Apps, at[b] \notin {"idle", "cleanup"}
      PROVE  hnd'[job[b].h] = hnd[job[b].h] /\ hnd[job[b].h].slot \in Slots /\ hnd[job[b].h].slot # s
  BY <1>3, JobFacts, MineFacts DEF Inv
<1>4. ASSUME NEW t \in Slots, t # s
      PROVE  ActiveGood(t)' /\ ValidGood(t)'
  <2>1. Filling(t) => Filling(t)'
    BY <1>3 DEF Filling, FillSteps
  <2> QED
    BY <1>2, <1>4, <2>1, TableFrameV DEF VInv, Inv
<1>5. ASSUME NEW b \in Apps
      PROVE  JobGood(b)'
  BY <1>2, <1>3, JobFrameV DEF VInv, TrustSteps, Inv
<1> QED
  BY <1>1, <1>4, <1>5 DEF VInv

LEMMA RegisterFailsV ==
  ASSUME Inv, LInv, VInv, NEW a \in Apps, NEW n \in Names, RegisterFails(a, n)
  PROVE  VInv'
<1>1. PICK s \in Slots, k \in 1 .. LastReg : s = NextReg % MaxTables /\ k = NextReg
  BY RegFacts, Constants DEF Inv, RegisterFails
<1>2. reg[s].id = 0
  BY <1>1, RegFacts DEF Inv, RegisterFails
<1>3. reg' = [reg EXCEPT ![s] = NewReg(k)] /\ buf' = ClearOwn(buf, s) /\ UNCHANGED <<at, job, cds>>
  BY <1>1 DEF RegisterFails, taskVars
<1>4. \A t \in Slots : t # s => reg'[t] = reg[t] /\ \A p \in Own(t) : buf'[p] = buf[p]
  <2>1. \A p \in Places : p \notin Own(s) => buf'[p] = buf[p]
    BY <1>3, ClearFacts, Types DEF Inv
  <2>2. \A t \in Slots : \A p \in Own(t) : p \in Places /\ p[1] = t
    BY OwnPlaces
  <2> QED
    BY <1>3, <2>1, <2>2, Types DEF Inv
<1>5. reg'[s].active = NoBuf /\ reg'[s].next = NoBuf
  BY <1>3, NewRegFacts, Types DEF Inv
<1>6. ActiveGood(s)' /\ ValidGood(s)'
  BY <1>5 DEF ActiveGood, ValidGood
<1>7. \A h \in Hs : hnd[h].used => hnd'[h] = hnd[h]
  <2>1. CASE hnd' = hnd
    BY <2>1
  <2>2. CASE Connect(None, 0, 0, FALSE)
    <3>1. 0 \in Slots /\ 0 \in 0 .. LastReg
      BY Constants DEF Slots
    <3>2. PICK c \in Apps \cup {None}, u \in BOOLEAN : c = None /\ u = FALSE /\ Connect(c, 0, 0, u)
      BY <2>2
    <3>3. PICK h \in Hs : ~hnd[h].used /\ \A g \in Hs : g # h => hnd'[g] = hnd[g]
      BY <3>1, <3>2, ConnectFacts
    <3> QED
      BY <3>3
  <2> QED
    BY <2>1, <2>2 DEF RegisterFails
<1> QED
  BY <1>2, <1>3, <1>4, <1>6, <1>7, NewV

\* A table restored from the store has what was accepted, and its working buffer is not
\* marked as validated.
LEMMA RegisterV ==
  ASSUME Inv, LInv, VInv, ManagedOnly, NEW a \in Apps, NEW n \in Names, Register(a, n)
  PROVE  VInv'
<1>1. PICK s \in Slots : RegisteredAt(a, n, s)
  BY RegisteredFacts DEF Inv
<1>2. /\ reg[s].id = 0 /\ \A t \in Slots : t # s => reg'[t] = reg[t]
      /\ reg'[s].id # 0 /\ reg'[s].name = n
      /\ reg'[s].active \in {NoBuf, <<s, 1>>} /\ reg'[s].next \in {NoBuf, <<s, 1>>}
      /\ UNCHANGED <<at, job>> /\ \A p \in Places : p \notin Own(s) => buf'[p] = buf[p]
      /\ reg'[s].id \in 0 .. LastReg
  BY <1>1 DEF RegisteredAt, RegType
<1>3. PICK u \in BOOLEAN : Connect(a, s, reg'[s].id, u)
  BY <1>1 DEF RegisteredAt
<1>4. PICK h \in Hs : ~hnd[h].used /\ \A g \in Hs : g # h => hnd'[g] = hnd[g]
  BY <1>2, <1>3, ConnectFacts
<1>5. \A m \in Critical : cds'[m].loaded = cds[m].loaded /\ cds'[m].data = cds[m].data
  <2>1. cds' \in {cds, [cds EXCEPT ![n].made = TRUE]}
    BY <1>1 DEF RegisteredAt, RegisteredAs
  <2> QED
    BY <2>1, Types DEF CdsType, Inv
<1>6. \A t \in Slots : t # s => \A p \in Own(t) : buf'[p] = buf[p]
  <2>1. \A t \in Slots : \A p \in Own(t) : p \in Places /\ p[1] = t
    BY OwnPlaces
  <2> QED
    BY <1>2, <2>1
<1>7. PlaceIn(reg', <<s, 1>>) = FirstPlace(n, s)
  <2>1. 1 \in 1 .. LastGen
    BY Constants
  <2>2. <<s, 1>> # NoBuf /\ <<s, 1>>[1] = s /\ <<s, 1>>[2] = 1 /\ s # -1
    BY <2>1, OwnIds
  <2> QED
    BY <1>2, <2>2 DEF PlaceIn, FirstPlace
<1>8. <<s, 1>> # NoBuf
  BY Constants, OwnIds
<1>9. ActiveGood(s)'
  <2> SUFFICES ASSUME n \in Checked, reg'[s].active # NoBuf
               PROVE  buf'[FirstPlace(n, s)].data \in Good
    BY <1>2, <1>7 DEF ActiveGood
  <2>1. n \notin DumpOnly
    BY DEF ManagedOnly
  <2>2. n \in Critical /\ cds[n].loaded /\ buf'[FirstPlace(n, s)].data = cds[n].data
    BY <1>1, <1>8, <2>1 DEF RegisteredAt, RegisteredAs
  <2> QED
    BY <2>2 DEF VInv, StoredGood
<1>10. ValidGood(s)'
  <2>1. reg'[s].next # NoBuf => ~buf'[PlaceIn(reg', reg'[s].next)].valid
    BY <1>1, <1>2, <1>7 DEF RegisteredAt, RegisteredAs
  <2> QED
    BY <2>1 DEF ValidGood
<1> QED
  BY <1>2, <1>4, <1>5, <1>6, <1>9, <1>10, NewV

LEMMA ReleaseV ==
  ASSUME IInv, LInv, VInv, NEW a \in Apps, NEW h \in Mine(a), ReleaseAccDesc(a, h),
         at[a] \in {"idle", "cleanup"}, at' = at
  PROVE  VInv'
<1>1. PICK s \in Slots : ReleasedAt(a, h, s)
  BY ReleaseFacts
<1>2. /\ \A t \in Slots : t # s => reg'[t] = reg[t]
      /\ reg'[s].name = reg[s].name /\ reg'[s].active = reg[s].active /\ reg'[s].id \in {reg[s].id, 0}
      /\ reg'[s].next \in {reg[s].next, NoBuf}
      /\ \A g \in Hs : g # h => hnd'[g] = hnd[g]
      /\ UNCHANGED <<cds, job>>
  BY <1>1 DEF ReleasedAt, Freed, Left
<1>3. ASSUME NEW t \in Slots
      PROVE  BufKept(t)
  <2>1. CASE Left(a, s, h)
    BY <2>1 DEF Left, BufKept
  <2>2. CASE Freed(s, h)
    <3>1. \A p \in Places : /\ p \notin Own(s) => buf'[p] = buf[p]
                            /\ p \in Own(s) => ~buf'[p].valid /\ buf'[p].data = buf[p].data
      BY <2>2, DiscardedSame, ClearFacts, Types DEF Freed
    <3>2. Own(t) \subseteq Places
      BY OwnPlaces
    <3> QED
      BY <3>1, <3>2 DEF BufKept
  <2> QED
    BY <1>1, <2>1, <2>2 DEF ReleasedAt
<1>4. \A t \in Slots : TabKept(t)
  BY <1>2 DEF TabKept
<1>5. ASSUME NEW b \in Apps, at[b] \notin {"idle", "cleanup"}
      PROVE  hnd'[job[b].h].slot = hnd[job[b].h].slot
  <2>1. job[b].h \in Hs /\ hnd[job[b].h].app = b /\ b # a
    BY <1>5, JobFacts, MineFacts
  <2>2. hnd[h].app = a
    BY MineFacts
  <2> QED
    BY <1>2, <2>1, <2>2
<1>6. StoredGood'
  BY <1>2 DEF VInv, StoredGood
<1> QED
  BY <1>2, <1>3, <1>4, <1>5, <1>6, VStep

LEMMA VNext ==
  ASSUME Inv, LInv, CInv, VInv, LoadsAside, LoadsOnly, ManagedOnly, [Next]_vars
  PROVE  VInv'
<1> USE DEF Inv
<1>1. CASE UNCHANGED vars
  BY <1>1, VStep DEF vars, VInv, StoredGood, TabKept, BufKept
<1>2. ASSUME NEW a \in Apps, Start(a)
      PROVE  VInv'
  <2>1. CASE \E n \in Names : Register(a, n) \/ RegisterFails(a, n) \/ Share(a, n)
    BY <2>1, RegisterV, RegisterFailsV, ShareV
  <2>2. CASE \E h \in Mine(a) : Unregister(a, h) \/ GetAddress(a, h) \/ ReleaseAddress(a, h)
    BY <2>2, ReleaseV, ReadersV DEF Unregister, Begin
  <2>3. CASE \E h \in Mine(a) : Manage(a, h) \/ Update(a, h) \/ Validate(a, h) \/ DumpToBuffer(a, h)
    BY <2>3, ManageV, UpdateV, ValidateV, PlainV
  <2>4. CASE \E h \in Mine(a) : \E d \in Images : Load(a, h, d) \/ Modified(a, h, d)
    BY <2>4, LoadV DEF Modified, LoadsOnly
  <2>5. CASE Exit(a)
    BY <2>5, PlainV
  <2> QED
    BY <1>2, <2>1, <2>2, <2>3, <2>4, <2>5 DEF Start
<1>3. ASSUME NEW a \in Apps, Continue(a)
      PROVE  VInv'
  <2>1. CASE AddressStatus(a) \/ CleanUpEnd(a) \/ Notify(a) \/ PickActive(a)
    BY <2>1, PlainV
  <2>2. CASE LoadWrite(a) \/ LoadCheck(a)
    BY <2>2, LoadWrites, LoadChecks, WorkV
  <2>3. CASE Copy(a)
    BY <2>3 DEF Copy, LInv, LoadOK
  <2>4. CASE Reserve(a) \/ Activate(a) \/ Save(a) \/ Discard(a)
    BY <2>4, ReserveV, ActivateV, SaveV, DiscardV
  <2>5. CASE ValidateFunction(a)
    BY <2>5, ValidateFunctionV
  <2>6. CASE \E h \in Mine(a) : CleanUpHandle(a, h)
    BY <2>6, ReleaseV DEF CleanUpHandle
  <2>7. CASE \E h \in Mine(a) : Update(a, h) \/ Validate(a, h) \/ DumpToBuffer(a, h)
    BY <2>7, UpdateV, ValidateV, PlainV
  <2> QED
    BY <1>3, <2>1, <2>2, <2>3, <2>4, <2>5, <2>6, <2>7 DEF Continue
<1>4. CASE Command \/ Carry \/ SendHkCmd
  <2>1. QuietGround
    BY <1>4, QuietCommands
  <2> QED
    BY <2>1, GroundV
<1> QED
  BY <1>1, <1>2, <1>3, <1>4 DEF Next

LEMMA VStart ==
  ASSUME Init
  PROVE  VInv
<1>1. /\ reg = [s \in Slots |-> NoReg] /\ at = [a \in Apps |-> "idle"]
      /\ cds = [n \in Critical |-> [made |-> FALSE, loaded |-> FALSE, data |-> Blank]]
  BY DEF Init
<1> QED
  BY <1>1 DEF VInv, StoredGood, ActiveGood, ValidGood, NextGood, JobGood, NoReg

\* The active image of a table with a validation function is one that the function
\* accepted (CFE_TBL_ValidateLoadInProgress, CFE_TBL_LoadFinish), through loads, restarts
\* and restorations from the critical data store, where applications change tables by
\* loads only; tbl_unvalidated shows that a load by the ground breaks it.
THEOREM ValidatedKept ==
  ASSUME LoadsAside, LoadsOnly, ManagedOnly
  PROVE  Spec => []ActiveValidated
<1>1. Init => VInv
  BY VStart
<1>2. Inv /\ LInv /\ CInv /\ VInv /\ [Next]_vars => VInv'
  BY VNext
<1>3. VInv => ActiveValidated
  BY PlaceNow DEF VInv, ActiveGood, ActiveValidated, Used
<1> QED
  BY <1>1, <1>2, <1>3, CInvariance, PTL DEF Spec

-----------------------------------------------------------------------------
(* Who holds a shared buffer                                               *)

\* No application stops while a dump waits for it: there are no dump-only tables, or
\* applications do not stop.
NoneDropped == DumpOnly = {} \/ Exits = {}

SharedId(i)     == i # NoBuf /\ i[1] = -1
SharedAt(i)     == <<-1, 1 + (i[2] % MaxLoads)>>
LoadsInto(s, p) == reg[s].id # 0 /\ reg[s].next # NoBuf /\ reg[s].next = buf[p].id
Holding(d)      == dmp[d].state \in {"pending", "performed"}
DumpsInto(d, p) == Holding(d) /\ dmp[d].buf = p

\* A dump that was made is not made again, one waits for a dump-only table only, and
\* what the record of a table points to is past the preparation.
DumpStates ==
  /\ \A d \in 1 .. LastDump : /\ dmp[d].state = "performed" => dmp[d].source = NoBuf
                              /\ dmp[d].state = "pending" => DumpOnly # {}
                              /\ Holding(d) => dmp[d].buf \in Shared
  /\ \A s \in Slots : reg[s].dump # 0 => dmp[reg[s].dump].state \in {"pending", "performed", "free"}
  /\ gnd.cmd = "prepare" => dmp[gnd.dump].state \in {"taken", "free"}
\* A load into a shared buffer has it until the load ends.
SharedLoads ==
  \A s \in Slots : SharedId(reg[s].next) =>
    reg[s].id # 0 /\ reg[s].name \notin Double /\ buf[SharedAt(reg[s].next)].id = reg[s].next
OneHolder(p) ==
  /\ (\E s \in Slots : LoadsInto(s, p)) \/ (\E d \in 1 .. LastDump : DumpsInto(d, p)) <=> buf[p].id # NoBuf
  /\ \A s, t \in Slots : LoadsInto(s, p) /\ LoadsInto(t, p) => s = t
  /\ \A d, e \in 1 .. LastDump : DumpsInto(d, p) /\ DumpsInto(e, p) => d = e
  /\ \A s \in Slots : \A d \in 1 .. LastDump : ~(LoadsInto(s, p) /\ DumpsInto(d, p))
HInv == DumpStates /\ SharedLoads /\ \A p \in Shared : OneHolder(p)

LEMMA SharedPlace ==
  ASSUME NEW i \in BufIds, SharedId(i)
  PROVE  SharedAt(i) \in Shared /\ \A r : PlaceIn(r, i) = SharedAt(i)
<1>1. \A r : PlaceIn(r, i) = SharedAt(i)
  BY DEF PlaceIn, SharedAt, SharedId
<1>2. PlaceIn(reg, i) \in Shared
  BY PlaceType DEF SharedId
<1> QED
  BY <1>1, <1>2

\* The identifier of a shared buffer that is in use is a shared one.
LEMMA SharedUse ==
  ASSUME IInv, NEW p \in Shared, buf[p].id # NoBuf
  PROVE  SharedId(buf[p].id) /\ SharedAt(buf[p].id) = p /\ buf[p].id \in BufIds /\ buf[p].id[2] <= lastLoad
<1>1. p \in Places /\ p[1] = -1
  BY SharedPlaces
<1>2. buf[p].id \in BufIds
  BY <1>1, Types DEF BufType
<1>3. PlaceIn(reg, buf[p].id) = p /\ buf[p].id[2] <= lastLoad
  BY <1>1 DEF IInv, IdsOK
<1>4. CASE buf[p].id[1] = -1
  BY <1>2, <1>3, <1>4, SharedPlace DEF SharedId
<1>5. CASE buf[p].id[1] # -1
  <2>1. PICK s \in Slots : p \in Own(s)
    BY <1>2, <1>3, <1>5, PlaceType
  <2> QED
    BY <2>1, OwnPlaces
<1> QED
  BY <1>4, <1>5

\* Steps that leave the loads into shared buffers alone, the shared buffers, the dumps.
LoadsSame ==
  \A s \in Slots : \/ reg'[s].next = reg[s].next /\ reg'[s].id = reg[s].id /\ reg'[s].name = reg[s].name
                   \/ ~SharedId(reg[s].next) /\ ~SharedId(reg'[s].next)
SharedSame == \A p \in Shared : buf'[p].id = buf[p].id
DumpsSame  ==
  \A d \in 1 .. LastDump : (Holding(d)' <=> Holding(d)) /\ (Holding(d) => dmp'[d].buf = dmp[d].buf)

LEMMA LoadsFrame ==
  ASSUME IInv, HInv, NEW s \in Slots, NEW p \in Shared, buf'[p].id = buf[p].id, LoadsSame
  PROVE  LoadsInto(s, p)' <=> LoadsInto(s, p)
<1>1. CASE reg'[s].next = reg[s].next /\ reg'[s].id = reg[s].id
  BY <1>1 DEF LoadsInto
<1>2. CASE ~SharedId(reg[s].next) /\ ~SharedId(reg'[s].next)
  <2>1. ~LoadsInto(s, p)
    BY <1>2, SharedUse DEF LoadsInto
  <2>2. ~LoadsInto(s, p)'
    <3>1. buf'[p].id # NoBuf => SharedId(buf'[p].id)
      BY SharedUse
    <3> QED
      BY <1>2, <3>1 DEF LoadsInto
  <2> QED
    BY <2>1, <2>2
<1> QED
  BY <1>1, <1>2 DEF LoadsSame

LEMMA HoldersFrame ==
  ASSUME IInv, HInv, LoadsSame, SharedSame, DumpsSame, DumpStates'
  PROVE  HInv'
<1>1. SharedLoads'
  <2> SUFFICES ASSUME NEW s \in Slots, SharedId(reg'[s].next)
               PROVE  /\ reg'[s].id # 0 /\ reg'[s].name \notin Double
                      /\ buf'[SharedAt(reg'[s].next)].id = reg'[s].next
    BY DEF SharedLoads, SharedId, SharedAt
  <2>1. reg'[s].next = reg[s].next /\ reg'[s].id = reg[s].id /\ reg'[s].name = reg[s].name
    BY DEF LoadsSame
  <2>2. reg[s].next \in BufIds
    BY Types DEF RegType
  <2>3. SharedAt(reg[s].next) \in Shared
    BY <2>1, <2>2, SharedPlace
  <2>4. PICK q : q = SharedAt(reg[s].next)
    OBVIOUS
  <2>5. SharedAt(reg'[s].next) = q
    BY <2>1, <2>4
  <2> QED
    BY <2>1, <2>3, <2>4, <2>5 DEF SharedSame, HInv, SharedLoads
<1>2. ASSUME NEW p \in Shared
      PROVE  OneHolder(p)'
  <2>1. \A s \in Slots : LoadsInto(s, p)' <=> LoadsInto(s, p)
    BY LoadsFrame DEF SharedSame
  <2>2. \A d \in 1 .. LastDump : DumpsInto(d, p)' <=> DumpsInto(d, p)
    BY DEF DumpsSame, DumpsInto
  <2>3. buf'[p].id = buf[p].id
    BY DEF SharedSame
  <2> QED
    BY <2>1, <2>2, <2>3 DEF HInv, OneHolder
<1> QED
  BY <1>1, <1>2 DEF HInv

\* A step that leaves the dumps alone, and at most drops a load into an own buffer.
RegAside ==
  \A s \in Slots : /\ reg'[s].id = reg[s].id /\ reg'[s].name = reg[s].name
                   /\ reg'[s].dump \in {reg[s].dump, 0}
                   /\ reg'[s].next = reg[s].next \/ (~SharedId(reg[s].next) /\ ~SharedId(reg'[s].next))

LEMMA DumpStatesFrame ==
  ASSUME DumpStates, dmp' = dmp, gnd' = gnd \/ gnd'.cmd # "prepare",
         \A s \in Slots : reg'[s].dump \in {reg[s].dump, 0}
  PROVE  DumpStates'
BY DEF DumpStates, Holding

LEMMA AsideH ==
  ASSUME IInv, HInv, RegAside, SharedSame, dmp' = dmp, gnd' = gnd \/ gnd'.cmd # "prepare"
  PROVE  HInv'
<1>1. DumpStates'
  BY DumpStatesFrame DEF HInv, RegAside
<1>2. LoadsSame /\ DumpsSame
  BY DEF RegAside, LoadsSame, DumpsSame, Holding
<1> QED
  BY <1>1, <1>2, HoldersFrame

LEMMA UnstaleAside ==
  ASSUME IInv, HInv, NEW s \in Slots
  PROVE  \A t \in Slots : /\ Unstale(s)[t].id = reg[t].id /\ Unstale(s)[t].name = reg[t].name
                          /\ Unstale(s)[t].dump = reg[t].dump
                          /\ \/ Unstale(s)[t].next = reg[t].next
                             \/ ~SharedId(reg[t].next) /\ ~SharedId(Unstale(s)[t].next)
<1>1. CASE SharedId(reg[s].next)
  <2>1. reg[s].next \in BufIds
    BY Types DEF RegType
  <2>2. Place(reg[s].next) = SharedAt(reg[s].next)
    BY <1>1, <2>1, SharedPlace, PlaceNow
  <2>3. IsMatch(reg[s].next)
    BY <1>1, <2>2 DEF HInv, SharedLoads, IsMatch, SharedId
  <2> QED
    BY <2>3 DEF Unstale
<1>2. CASE ~SharedId(reg[s].next)
  <2>1. ASSUME NEW t \in Slots, t # s
        PROVE  Unstale(s)[t].next = reg[t].next
    BY <2>1, Types DEF Unstale
  <2>2. Unstale(s)[s].next \in {reg[s].next, NoBuf}
    BY UnstaleFacts
  <2>3. ~SharedId(NoBuf)
    BY DEF SharedId
  <2>4. ~SharedId(Unstale(s)[s].next)
    BY <1>2, <2>2, <2>3
  <2> QED
    BY <1>2, <2>1, <2>4, UnstaleFacts
<1> QED
  BY <1>1, <1>2

\* The steps that write no record, no dump and no identifier of a buffer.
LEMMA StoreH ==
  ASSUME IInv, HInv, NEW a \in Apps,
         \/ \E h \in Mine(a) : \/ GetAddress(a, h) \/ ReleaseAddress(a, h) \/ Update(a, h) \/ Manage(a, h)
                               \/ \E d \in Images : Modified(a, h, d)
         \/ \E n \in Names : Share(a, n)
         \/ AddressStatus(a) \/ CleanUpEnd(a) \/ Notify(a) \/ PickActive(a) \/ Save(a)
  PROVE  HInv'
<1>1. UNCHANGED <<reg, dmp, gnd>>
  BY DEF GetAddress, ReleaseAddress, Update, Manage, Modified, Share, AddressStatus, CleanUpEnd, Notify,
         PickActive, Save, askVars, taskVars
<1>2. SharedSame
  <2>1. CASE \E h \in Mine(a), d \in Images : Modified(a, h, d)
    <3>1. PICK d \in Images : \E p : buf' = [buf EXCEPT ![p].data = d]
      BY <2>1 DEF Modified
    <3>2. d \in Data
      BY DEF Data
    <3> QED
      BY <3>1, <3>2, BufData, SharedPlaces DEF SharedSame
  <2>2. CASE buf' = buf
    BY <2>2 DEF SharedSame
  <2> QED
    BY <2>1, <2>2 DEF GetAddress, ReleaseAddress, Update, Manage, Share, AddressStatus, CleanUpEnd, Notify,
                      PickActive, Save, storeVars
<1> QED
  BY <1>1, <1>2, AsideH DEF RegAside

LEMMA ValidateFunctionH ==
  ASSUME IInv, HInv, NEW a \in Apps, ValidateFunction(a)
  PROVE  HInv'
<1>1. UNCHANGED <<reg, dmp, gnd>>
  BY DEF ValidateFunction
<1>2. SharedSame
  <2> DEFINE p == job[a].to
             y == [buf[p] EXCEPT !.valid = TRUE]
  <2>1. buf' = buf \/ buf' = [buf EXCEPT ![p] = y]
    BY DEF ValidateFunction
  <2>2. p \in Places => y.id = buf[p].id
    BY Types DEF BufType
  <2>3. Shared \subseteq Places
    BY SharedPlaces
  <2> HIDE DEF p, y
  <2> QED
    BY <2>1, <2>2, <2>3, Types DEF SharedSame
<1> QED
  BY <1>1, <1>2, AsideH DEF RegAside

LEMMA CopyH ==
  ASSUME IInv, HInv, NEW a \in Apps, Copy(a)
  PROVE  HInv'
<1>1. UNCHANGED <<reg, dmp, gnd>>
  BY DEF Copy, askVars
<1>2. SharedSame
  <2> DEFINE p == job[a].to
             y == [buf[p] EXCEPT !.data = buf[job[a].from].data]
  <2>1. buf' = [buf EXCEPT ![p] = y]
    BY DEF Copy
  <2>2. p \in Places => y.id = buf[p].id
    BY Types DEF BufType
  <2>3. Shared \subseteq Places
    BY SharedPlaces
  <2> HIDE DEF p, y
  <2> QED
    BY <2>1, <2>2, <2>3, Types DEF SharedSame
<1> QED
  BY <1>1, <1>2, AsideH DEF RegAside

\* The steps of a load, which find its buffer first.
LEMMA WorkH ==
  ASSUME IInv, HInv, NEW a \in Apps, LoadWrite(a) \/ LoadCheck(a)
  PROVE  HInv'
<1>1. PICK s \in Slots : Works(a, s)
  BY LoadWrites, LoadChecks
<1>2. RegAside
  BY <1>1, UnstaleAside DEF Works, RegAside
<1>3. SharedSame
  BY <1>1, SharedPlaces DEF Works, SharedSame
<1>4. UNCHANGED <<dmp, gnd>>
  BY DEF LoadWrite, LoadCheck, askVars
<1> QED
  BY <1>2, <1>3, <1>4, AsideH

LEMMA ValidateH ==
  ASSUME IInv, HInv, NEW a \in Apps, NEW h \in Mine(a), Validate(a, h)
  PROVE  HInv'
<1>1. PICK s \in Slots : s = hnd[h].slot
  BY MineFacts
<1>2. PICK r \in {reg, Unstale(s)} :
             \E v : reg' = [r EXCEPT ![s].vInact = 0] \/ reg' = [r EXCEPT ![s].vInact = 0, ![s].vAct = v]
  BY <1>1 DEF Validate
<1>3. r \in [Slots -> RegType]
  BY UnstaleFacts, Types
<1>4. RegAside
  <2>1. \A t \in Slots : /\ r[t].id = reg[t].id /\ r[t].name = reg[t].name /\ r[t].dump = reg[t].dump
                         /\ \/ r[t].next = reg[t].next
                            \/ ~SharedId(reg[t].next) /\ ~SharedId(r[t].next)
    BY UnstaleAside
  <2>2. ASSUME NEW t \in Slots
        PROVE  /\ reg'[t].id = r[t].id /\ reg'[t].name = r[t].name /\ reg'[t].dump = r[t].dump
               /\ reg'[t].next = r[t].next
    BY <1>2, <1>3 DEF RegType
  <2> QED
    BY <2>1, <2>2 DEF RegAside
<1> QED
  BY <1>4, AsideH DEF Validate, SharedSame, storeVars, askVars

LEMMA ReserveH ==
  ASSUME IInv, HInv, NEW a \in Apps, Reserve(a)
  PROVE  HInv'
<1>1. PICK s \in Slots : /\ s = HSlot(a) /\ at[a] = "reserve" /\ reg[s].owner = a /\ reg' = Unstale(s)
                         /\ UNCHANGED <<dmp, gnd>>
  BY JobFacts DEF Reserve, OwnerSteps, askVars
<1>2. RegAside
  BY <1>1, UnstaleAside DEF RegAside
<1>3. CASE buf' = buf
  BY <1>1, <1>2, <1>3, AsideH DEF SharedSame
<1>4. CASE /\ InProgress(s) # NoBuf /\ ~IsPrivate(reg[s].next, s) /\ Exclusive(s) # NoBuf
           /\ Claim(s, Exclusive(s), NextLocal(s), FALSE)
  <2>1. reg[s].next # NoBuf /\ reg[s].next[1] = -1
    BY <1>4, LoadFacts DEF IsPrivate
  <2>2. ~Late(s)
    <3>1. SUFFICES ASSUME NEW b \in Apps, at[b] \in LateSteps, hnd[job[b].h].slot = s
                   PROVE  FALSE
      BY DEF Late
    <3>2. reg[s].owner = b
      BY <3>1, JobFacts DEF LateSteps, OwnerSteps
    <3> QED
      BY <1>1, <3>1, <3>2 DEF LateSteps
  <2>3. NextIn(reg, s)[2] <= LastGen
    BY <2>1, <2>2 DEF IInv, SerialsOK
  <2>4. PICK q \in Places, i \in BufIds : q = Exclusive(s) /\ i = NextLocal(s) /\ q \in Own(s)
    BY <1>4, <2>3, ExclusiveFacts, NextNow
  <2>5. \A r \in Places : r # q => buf'[r] = buf[r]
    BY <1>4, <2>4, ClaimFacts
  <2>6. SharedSame
    BY <2>4, <2>5, OwnPlaces, SharedPlaces DEF SharedSame
  <2> QED
    BY <1>1, <1>2, <2>6, AsideH
<1> QED
  BY <1>1, <1>3, <1>4 DEF Reserve

LEMMA ActivateH ==
  ASSUME IInv, HInv, NEW a \in Apps, Activate(a)
  PROVE  HInv'
<1>1. PICK s \in Slots : s = HSlot(a) /\ \E u, v : reg' = [reg EXCEPT ![s].prev = u, ![s].active = v]
  BY JobFacts DEF Activate
<1>2. RegAside
  <2>1. \A t \in Slots : /\ reg'[t].id = reg[t].id /\ reg'[t].name = reg[t].name
                         /\ reg'[t].dump = reg[t].dump /\ reg'[t].next = reg[t].next
    BY <1>1, Types DEF RegType
  <2> QED
    BY <2>1 DEF RegAside
<1> QED
  BY <1>2, AsideH DEF Activate, SharedSame, storeVars, askVars

\* A step that takes a free record.
LEMMA NewH ==
  ASSUME IInv, HInv, NEW s \in Slots, reg[s].id = 0, UNCHANGED <<dmp, gnd>>,
         \A t \in Slots : t # s => reg'[t] = reg[t],
         reg'[s].dump = 0, reg'[s].next \in {NoBuf, <<s, 1>>},
         \A p \in Places : p \notin Own(s) => buf'[p] = buf[p]
  PROVE  HInv'
<1>1. ~SharedId(reg[s].next)
  BY DEF HInv, SharedLoads
<1>2. ~SharedId(reg'[s].next)
  <2>1. s # -1
    BY Constants DEF Slots
  <2> QED
    BY <2>1 DEF SharedId
<1>3. LoadsSame /\ DumpsSame
  BY <1>1, <1>2 DEF LoadsSame, DumpsSame, Holding
<1>4. SharedSame
  BY OwnPlaces, SharedPlaces DEF SharedSame
<1>5. DumpStates'
  <2>1. \A t \in Slots : reg'[t].dump \in {reg[t].dump, 0}
    OBVIOUS
  <2> QED
    BY <2>1, DumpStatesFrame DEF HInv
<1> QED
  BY <1>3, <1>4, <1>5, HoldersFrame

LEMMA RegisterH ==
  ASSUME IInv, HInv, NEW a \in Apps, NEW n \in Names, Register(a, n) \/ RegisterFails(a, n)
  PROVE  HInv'
<1>1. CASE Register(a, n)
  <2>1. PICK s \in Slots : RegisteredAt(a, n, s)
    BY <1>1, RegisteredFacts
  <2> QED
    BY <2>1, NewH DEF RegisteredAt
<1>2. CASE RegisterFails(a, n)
  <2>1. PICK s \in Slots, k \in 1 .. LastReg : s = NextReg % MaxTables /\ k = NextReg /\ reg[s].id = 0
    BY <1>2, RegFacts, Constants DEF RegisterFails
  <2>2. reg' = [reg EXCEPT ![s] = NewReg(k)] /\ buf' = ClearOwn(buf, s) /\ UNCHANGED <<dmp, gnd>>
    BY <1>2, <2>1 DEF RegisterFails, taskVars, askVars
  <2>3. reg'[s].dump = 0 /\ reg'[s].next = NoBuf /\ \A t \in Slots : t # s => reg'[t] = reg[t]
    BY <2>2, NewRegFacts, Types
  <2>4. \A p \in Places : p \notin Own(s) => buf'[p] = buf[p]
    BY <2>2, ClearFacts, Types
  <2> QED
    BY <2>1, <2>2, <2>3, <2>4, NewH
<1> QED
  BY <1>1, <1>2

\* A load that ends, or whose table goes, gives the shared buffer back.
LEMMA FreeH ==
  ASSUME IInv, HInv, NEW s \in Slots, reg'[s].next = NoBuf, UNCHANGED dmp, gnd' = gnd \/ gnd'.cmd # "prepare",
         \A t \in Slots : t # s => reg'[t] = reg[t], reg'[s].dump = reg[s].dump,
         \A p \in Shared : buf'[p].id = Discarded(s)[p].id
  PROVE  HInv'
<1>1. DumpStates'
  <2>1. \A t \in Slots : reg'[t].dump \in {reg[t].dump, 0}
    OBVIOUS
  <2> QED
    BY <2>1, DumpStatesFrame DEF HInv
<1>2. DumpsSame
  BY DEF DumpsSame, Holding
<1>3. reg[s].next \in BufIds
  BY Types DEF RegType
<1>4. CASE ~SharedId(reg[s].next)
  <2>1. LoadsSame
    BY <1>4 DEF LoadsSame, SharedId
  <2>2. SharedSame
    <3>1. CASE Discarded(s) = buf
      BY <3>1 DEF SharedSame
    <3>2. CASE reg[s].next # NoBuf /\ Discarded(s) = [buf EXCEPT ![Place(reg[s].next)].id = NoBuf]
      <4>1. PICK t \in Slots : Place(reg[s].next) \in Own(t)
        BY <1>3, <1>4, <3>2, PlaceType, PlaceNow DEF SharedId
      <4>2. PICK q : q = Place(reg[s].next)
        OBVIOUS
      <4>3. \A p \in Shared : p \in Places /\ p # q
        <5>1. q \in Own(t)
          BY <4>1, <4>2
        <5>2. Own(t) \cap Shared = {} /\ Shared \subseteq Places
          BY OwnPlaces, SharedPlaces
        <5> QED
          BY <5>1, <5>2
      <4>4. Discarded(s) = [buf EXCEPT ![q].id = NoBuf]
        BY <3>2, <4>2
      <4> QED
        BY <4>3, <4>4, Types DEF SharedSame
    <3> QED
      BY <3>1, <3>2 DEF Discarded
  <2> QED
    BY <1>1, <1>2, <2>1, <2>2, HoldersFrame
<1>5. CASE SharedId(reg[s].next)
  <2>1. PICK q \in Shared : q = SharedAt(reg[s].next) /\ Place(reg[s].next) = q
    BY <1>3, <1>5, SharedPlace, PlaceNow
  <2>2. buf[q].id = reg[s].next /\ reg[s].id # 0 /\ reg[s].name \notin Double
    BY <1>5, <2>1 DEF HInv, SharedLoads
  <2>3. LoadsInto(s, q)
    BY <1>5, <2>2 DEF LoadsInto, SharedId
  <2>4. buf'[q].id = NoBuf /\ \A p \in Shared : p # q => buf'[p].id = buf[p].id
    <3>1. Discarded(s) = [buf EXCEPT ![q].id = NoBuf]
      BY <1>5, <2>1, <2>2 DEF Discarded, IsDouble, SharedId
    <3>2. Shared \subseteq Places
      BY SharedPlaces
    <3> QED
      BY <3>1, <3>2, Types DEF BufType
  <2>5. ASSUME NEW t \in Slots, t # s, SharedId(reg[t].next)
        PROVE  SharedAt(reg[t].next) # q
    <3>1. CASE SharedAt(reg[t].next) = q
      <4>1. LoadsInto(t, q)
        BY <2>5, <3>1 DEF HInv, SharedLoads, LoadsInto, SharedId
      <4> QED
        BY <2>3, <2>5, <4>1 DEF HInv, OneHolder
    <3> QED
      BY <3>1
  <2>6. SharedLoads'
    <3> SUFFICES ASSUME NEW t \in Slots, SharedId(reg'[t].next)
                 PROVE  /\ reg'[t].id # 0 /\ reg'[t].name \notin Double
                        /\ buf'[SharedAt(reg'[t].next)].id = reg'[t].next
      BY DEF SharedLoads, SharedId, SharedAt
    <3>1. t # s /\ reg'[t] = reg[t]
      BY DEF SharedId
    <3>2. reg[t].next \in BufIds
      BY Types DEF RegType
    <3>3. PICK p \in Shared : p = SharedAt(reg[t].next) /\ p # q
      BY <2>5, <3>1, <3>2, SharedPlace
    <3>4. SharedAt(reg'[t].next) = p
      BY <3>1, <3>3
    <3> QED
      BY <2>4, <3>1, <3>3, <3>4 DEF HInv, SharedLoads
  <2>7. OneHolder(q)'
    <3>1. \A t \in Slots : ~LoadsInto(t, q)'
      BY <2>4 DEF LoadsInto
    <3>2. \A d \in 1 .. LastDump : ~DumpsInto(d, q)'
      BY <1>2, <2>3 DEF HInv, OneHolder, DumpsInto, DumpsSame
    <3> QED
      BY <2>4, <3>1, <3>2 DEF OneHolder
  <2>8. ASSUME NEW p \in Shared, p # q
        PROVE  OneHolder(p)'
    <3>1. \A t \in Slots : LoadsInto(t, p)' <=> LoadsInto(t, p)
      <4>1. ~LoadsInto(s, p) /\ ~LoadsInto(s, p)'
        <5>1. ~LoadsInto(s, p)
          BY <2>1, <2>8, SharedUse DEF LoadsInto
        <5> QED
          BY <5>1 DEF LoadsInto
      <4>2. \A t \in Slots : t # s => (LoadsInto(t, p)' <=> LoadsInto(t, p))
        BY <2>4, <2>8 DEF LoadsInto
      <4> QED
        BY <4>1, <4>2
    <3>2. \A d \in 1 .. LastDump : DumpsInto(d, p)' <=> DumpsInto(d, p)
      BY <1>2 DEF DumpsSame, DumpsInto
    <3>3. buf'[p].id = buf[p].id
      BY <2>4, <2>8
    <3> QED
      BY <3>1, <3>2, <3>3 DEF HInv, OneHolder
  <2> QED
    BY <1>1, <2>6, <2>7, <2>8 DEF HInv
<1> QED
  BY <1>4, <1>5

LEMMA DiscardH ==
  ASSUME IInv, HInv, NEW a \in Apps, Discard(a)
  PROVE  HInv'
<1>1. PICK s \in Slots : s = HSlot(a)
  BY JobFacts DEF Discard
<1>2. reg' = [reg EXCEPT ![s].next = NoBuf] /\ buf' = Discarded(s) /\ UNCHANGED <<dmp, gnd>>
  BY <1>1 DEF Discard, askVars
<1>3. reg'[s].next = NoBuf /\ reg'[s].dump = reg[s].dump /\ \A t \in Slots : t # s => reg'[t] = reg[t]
  BY <1>2, Types, RegNext, NoBufId
<1> QED
  BY <1>2, <1>3, FreeH


\* A free shared buffer q is taken under identifier i: no load named it, no dump had it.
LEMMA TakenFree ==
  ASSUME IInv, HInv, NEW i \in BufIds, SharedId(i), NEW q \in Shared, SharedAt(i) = q, buf[q].id = NoBuf
  PROVE  /\ \A t \in Slots : reg[t].next # i /\ ~LoadsInto(t, q)
                             /\ (SharedId(reg[t].next) => SharedAt(reg[t].next) \in Shared
                                                          /\ SharedAt(reg[t].next) # q)
         /\ \A d \in 1 .. LastDump : ~DumpsInto(d, q)
         /\ \A p \in Shared : p # q => buf[p].id # i
         /\ i # NoBuf
<1>1. i # NoBuf
  BY DEF SharedId
<1>2. \A d \in 1 .. LastDump : ~DumpsInto(d, q)
  BY DEF HInv, OneHolder
<1>3. ASSUME NEW t \in Slots
      PROVE  /\ reg[t].next # i /\ ~LoadsInto(t, q)
             /\ SharedId(reg[t].next) => SharedAt(reg[t].next) \in Shared /\ SharedAt(reg[t].next) # q
  <2>1. reg[t].next \in BufIds
    BY Types DEF RegType
  <2>2. ~LoadsInto(t, q)
    BY DEF LoadsInto
  <2>3. SharedId(reg[t].next) => buf[SharedAt(reg[t].next)].id # NoBuf /\ SharedAt(reg[t].next) \in Shared
    BY <2>1, SharedPlace DEF HInv, SharedLoads, SharedId
  <2>4. SharedId(reg[t].next) => SharedAt(reg[t].next) # q
    BY <2>3
  <2> QED
    BY <2>2, <2>3, <2>4
<1>4. ASSUME NEW p \in Shared, p # q
      PROVE  buf[p].id # i
  BY <1>1, <1>4, SharedUse
<1> QED
  BY <1>1, <1>2, <1>3, <1>4

\* A load begins in a shared buffer.
LEMMA LoadTakes ==
  ASSUME IInv, HInv, NEW s \in Slots, NEW i \in BufIds, SharedId(i), NEW q \in Shared, SharedAt(i) = q,
         buf[q].id = NoBuf, reg[s].next = NoBuf, reg[s].id # 0, reg[s].name \notin Double,
         reg'[s].next = i, reg'[s].id = reg[s].id, reg'[s].name = reg[s].name, reg'[s].dump = reg[s].dump,
         \A t \in Slots : t # s => reg'[t] = reg[t], buf'[q].id = i,
         \A p \in Shared : p # q => buf'[p].id = buf[p].id, UNCHANGED <<dmp, gnd>>
  PROVE  HInv'
<1>1. DumpStates'
  <2>1. \A t \in Slots : reg'[t].dump \in {reg[t].dump, 0}
    OBVIOUS
  <2> QED
    BY <2>1, DumpStatesFrame DEF HInv
<1>2. \A d \in 1 .. LastDump, p \in Shared : DumpsInto(d, p)' <=> DumpsInto(d, p)
  BY DEF DumpsInto, Holding
<1>3. \A t \in Slots : LoadsInto(t, q)' <=> t = s
  BY TakenFree DEF LoadsInto
<1>4. ASSUME NEW p \in Shared, p # q
      PROVE  \A t \in Slots : LoadsInto(t, p)' <=> LoadsInto(t, p)
  <2>1. ~LoadsInto(s, p) /\ ~LoadsInto(s, p)'
    BY <1>4, TakenFree DEF LoadsInto
  <2>2. \A t \in Slots : t # s => (LoadsInto(t, p)' <=> LoadsInto(t, p))
    BY <1>4 DEF LoadsInto
  <2> QED
    BY <2>1, <2>2
<1>5. SharedLoads'
  <2> SUFFICES ASSUME NEW t \in Slots, SharedId(reg'[t].next)
               PROVE  /\ reg'[t].id # 0 /\ reg'[t].name \notin Double
                      /\ buf'[SharedAt(reg'[t].next)].id = reg'[t].next
    BY DEF SharedLoads, SharedId, SharedAt
  <2>1. CASE t = s
    BY <2>1
  <2>2. CASE t # s
    <3>1. reg'[t] = reg[t] /\ SharedId(reg[t].next)
      BY <2>2
    <3>2. PICK p \in Shared : p = SharedAt(reg[t].next) /\ p # q
      BY <3>1, TakenFree
    <3>3. SharedAt(reg'[t].next) = p
      BY <3>1, <3>2
    <3> QED
      BY <3>1, <3>2, <3>3 DEF HInv, SharedLoads
  <2> QED
    BY <2>1, <2>2
<1>6. OneHolder(q)'
  <2>1. \A d \in 1 .. LastDump : ~DumpsInto(d, q)'
    BY <1>2, TakenFree
  <2>2. buf'[q].id # NoBuf
    BY TakenFree
  <2> QED
    BY <1>3, <2>1, <2>2 DEF OneHolder
<1>7. ASSUME NEW p \in Shared, p # q
      PROVE  OneHolder(p)'
  <2>1. \A t \in Slots : LoadsInto(t, p)' <=> LoadsInto(t, p)
    BY <1>4, <1>7
  <2>2. \A d \in 1 .. LastDump : DumpsInto(d, p)' <=> DumpsInto(d, p)
    BY <1>2
  <2>3. buf'[p].id = buf[p].id
    BY <1>7
  <2> QED
    BY <2>1, <2>2, <2>3 DEF HInv, OneHolder
<1> QED
  BY <1>1, <1>5, <1>6, <1>7 DEF HInv

LEMMA LoadH ==
  ASSUME IInv, HInv, NEW a \in Apps, NEW h \in Mine(a), NEW d \in Images, Load(a, h, d)
  PROVE  HInv'
<1>1. PICK s \in Slots : s = hnd[h].slot /\ reg[s].id # 0
  BY MineFacts
<1>2. reg[s].next = NoBuf /\ GetWorkingBuffer(s) /\ UNCHANGED <<dmp, gnd>>
  BY <1>1 DEF Load, askVars
<1>3. PICK i \in BufIds, q \in Places : WorkingAt(s, i, q)
  BY <1>2, WorkingFacts
<1>4. /\ reg'[s].next = i /\ reg'[s].id = reg[s].id /\ reg'[s].name = reg[s].name
      /\ reg'[s].dump = reg[s].dump /\ \A t \in Slots : t # s => reg'[t] = reg[t]
  <2> DEFINE x == [reg[s] EXCEPT !.next = i]
  <2>1. reg' = [reg EXCEPT ![s] = x]
    BY <1>3 DEF WorkingAt
  <2>2. x \in RegType /\ x.next = i /\ x.id = reg[s].id /\ x.name = reg[s].name /\ x.dump = reg[s].dump
    BY Types, RegNext
  <2> HIDE DEF x
  <2> QED
    BY <2>1, <2>2, Types
<1>5. i # NoBuf /\ q = PlaceIn(reg, i) /\ buf'[q].id = i /\ \A r \in Places : r # q => buf'[r] = buf[r]
  BY <1>3 DEF WorkingAt
<1>6. CASE i[1] = -1
  <2>1. SharedId(i) /\ q \in Shared /\ SharedAt(i) = q
    BY <1>5, <1>6, SharedPlace DEF SharedId
  <2>2. i # NextIn(reg, s)
    BY <1>6, OwnPlaces, NextType, Types, SharedPlaces
  <2>3. ~IsDouble(s) /\ buf[q].id = NoBuf
    BY <1>3, <2>2 DEF WorkingAt
  <2>4. \A p \in Shared : p # q => buf'[p].id = buf[p].id
    BY <1>5, SharedPlaces
  <2> QED
    BY <1>1, <1>2, <1>4, <1>5, <2>1, <2>3, <2>4, LoadTakes DEF IsDouble
<1>7. CASE i[1] # -1
  <2>1. ~SharedId(i) /\ ~SharedId(NoBuf)
    BY <1>7 DEF SharedId
  <2>2. SharedSame
    <3>1. PICK t \in Slots : q \in Own(t)
      BY <1>5, <1>7, PlaceType
    <3>2. \A p \in Shared : p \in Places /\ p # q
      BY <3>1, OwnPlaces, SharedPlaces
    <3> QED
      BY <1>5, <3>2 DEF SharedSame
  <2>3. RegAside
    BY <1>2, <1>4, <2>1 DEF RegAside
  <2> QED
    BY <1>2, <2>2, <2>3, AsideH
<1> QED
  BY <1>6, <1>7


LEMMA ReleaseH ==
  ASSUME IInv, HInv, NEW a \in Apps, NEW h \in Mine(a), ReleaseAccDesc(a, h), UNCHANGED dmp
  PROVE  HInv'
<1>1. PICK s \in Slots : ReleasedAt(a, h, s)
  BY ReleaseFacts
<1>2. /\ gnd' = gnd /\ \A t \in Slots : t # s => reg'[t] = reg[t]
      /\ reg'[s].name = reg[s].name /\ reg'[s].dump = reg[s].dump
  BY <1>1 DEF ReleasedAt
<1>3. CASE Freed(s, h)
  <2>1. Discarded(s) \in [Places -> BufType]
    BY DiscardedFacts
  <2>2. \A p \in Shared : p \in Places /\ p \notin Own(s)
    BY OwnPlaces, SharedPlaces
  <2>3. \A p \in Shared : ClearOwn(Discarded(s), s)[p] = Discarded(s)[p]
    BY <2>1, <2>2, ClearFacts
  <2>4. reg'[s].next = NoBuf /\ \A p \in Shared : buf'[p].id = Discarded(s)[p].id
    BY <1>3, <2>3 DEF Freed
  <2> QED
    BY <1>2, <2>4, FreeH
<1>4. CASE Left(a, s, h)
  <2>1. RegAside
    BY <1>2, <1>4 DEF Left, RegAside
  <2>2. SharedSame
    BY <1>4 DEF Left, SharedSame
  <2> QED
    BY <1>2, <2>1, <2>2, AsideH
<1> QED
  BY <1>1, <1>3, <1>4 DEF ReleasedAt

\* A dump is made for another task to write: the buffer is the one that it waits with.
LEMMA DumpToBufferH ==
  ASSUME IInv, HInv, NEW a \in Apps, NEW h \in Mine(a), DumpToBuffer(a, h)
  PROVE  HInv'
<1>1. PICK s \in Slots : s = hnd[h].slot
  BY MineFacts
<1>2. PICK d \in 0 .. LastDump : d = reg[s].dump
  BY Types DEF RegType
<1>3. gnd' = gnd
  BY DEF DumpToBuffer
<1>4. CASE UNCHANGED <<buf, dmp, reg>>
  BY <1>3, <1>4, AsideH DEF RegAside, SharedSame
<1>5. CASE Live(d) /\ Snapshot(d, dmp[d].source, dmp[d].buf) /\ UNCHANGED reg
  <2>1. d \in 1 .. LastDump /\ dmp[d].state = "pending"
    <3>1. d \in 1 .. LastDump /\ dmp[d].state \in {"taken", "pending", "performed"} /\ d # 0
      BY <1>5, LiveFacts, Constants
    <3>2. dmp[d].source # NoBuf
      BY <1>5 DEF Snapshot, IsMatch
    <3> QED
      BY <1>2, <3>1, <3>2 DEF HInv, DumpStates
  <2>2. \A q \in Places : buf'[q].id = buf[q].id
    BY <1>5, <2>1, SnapshotFacts
  <2>3. dmp' = [dmp EXCEPT ![d] = [state |-> "performed", source |-> NoBuf, buf |-> dmp[d].buf]]
    BY <1>5 DEF Snapshot
  <2>4. /\ dmp'[d].state = "performed" /\ dmp'[d].source = NoBuf /\ dmp'[d].buf = dmp[d].buf
        /\ \A e \in 1 .. LastDump : e # d => dmp'[e] = dmp[e]
    BY <2>1, <2>3, Types
  <2>5. DumpStates'
    <3>1. gnd'.cmd = "prepare" => dmp'[gnd'.dump].state \in {"taken", "free"}
      <4>1. gnd.cmd = "prepare" => gnd.dump \in 1 .. LastDump /\ gnd.dump # d
        BY <2>1 DEF IInv, DumpsOK, HInv, DumpStates
      <4> QED
        BY <1>3, <2>4, <4>1 DEF HInv, DumpStates
    <3>2. ASSUME NEW t \in Slots, reg'[t].dump # 0
          PROVE  dmp'[reg'[t].dump].state \in {"pending", "performed", "free"}
      <4>1. reg'[t].dump = reg[t].dump /\ reg[t].dump \in 1 .. LastDump
        BY <1>5, <3>2, DumpRefs
      <4>2. dmp[reg[t].dump].state \in {"pending", "performed", "free"}
        BY <3>2, <4>1 DEF HInv, DumpStates
      <4> QED
        BY <2>4, <4>1, <4>2
    <3>3. ASSUME NEW e \in 1 .. LastDump
          PROVE  /\ dmp'[e].state = "performed" => dmp'[e].source = NoBuf
                 /\ dmp'[e].state = "pending" => DumpOnly # {}
                 /\ Holding(e)' => dmp'[e].buf \in Shared
      BY <2>1, <2>4 DEF HInv, DumpStates, Holding
    <3> QED
      BY <3>1, <3>2, <3>3 DEF DumpStates
  <2>6. LoadsSame /\ SharedSame
    BY <1>5, <2>2, SharedPlaces DEF LoadsSame, SharedSame
  <2>7. DumpsSame
    BY <2>1, <2>4 DEF DumpsSame, Holding
  <2> QED
    BY <2>5, <2>6, <2>7, HoldersFrame
<1>6. CASE reg' = [reg EXCEPT ![s].dump = 0] /\ UNCHANGED <<buf, dmp>>
  <2> DEFINE x == [reg[s] EXCEPT !.dump = 0]
  <2>1. reg \in [Slots -> RegType] /\ reg' = [reg EXCEPT ![s] = x] /\ 0 \in 0 .. LastDump
    BY <1>6, Types, Constants
  <2>2. x.dump = 0 /\ x.id = reg[s].id /\ x.name = reg[s].name /\ x.next = reg[s].next
    BY <2>1, RegDump
  <2> HIDE DEF x
  <2>3. RegAside
    BY <2>1, <2>2 DEF RegAside
  <2> QED
    BY <1>3, <1>6, <2>3, AsideH DEF SharedSame
<1> QED
  BY <1>1, <1>2, <1>4, <1>5, <1>6 DEF DumpToBuffer

\* An application that stops has at most dumps dropped that have no buffer yet.
LEMMA ExitH ==
  ASSUME IInv, HInv, NoneDropped, NEW a \in Apps, Exit(a)
  PROVE  HInv'
<1>1. UNCHANGED <<reg, buf, gnd>> /\ a \in Exits
  BY DEF Exit, storeVars
<1>2. DumpOnly = {}
  BY <1>1 DEF NoneDropped
<1>3. ASSUME NEW d \in 1 .. LastDump
      PROVE  dmp'[d] = dmp[d] \/ /\ dmp[d].state = "taken" /\ dmp'[d].state = "free"
  <2>1. DOMAIN dmp = 1 .. LastDump /\ dmp[d] \in DmpType
    BY Types
  <2>2. \/ dmp'[d] = dmp[d]
        \/ Live(d) /\ IsMatch(dmp[d].source) /\ dmp'[d] = [dmp[d] EXCEPT !.state = "free"]
    BY <2>1 DEF Exit
  <2>3. Live(d) /\ IsMatch(dmp[d].source) => dmp[d].state = "taken"
    BY <1>2 DEF HInv, DumpStates, IsMatch, Live
  <2> QED
    BY <2>1, <2>2, <2>3 DEF DmpType
<1>4. DumpsSame
  BY <1>3 DEF DumpsSame, Holding
<1>5. DumpStates'
  <2>1. ASSUME NEW t \in Slots, reg'[t].dump # 0
        PROVE  dmp'[reg'[t].dump].state \in {"pending", "performed", "free"}
    <3>1. reg'[t].dump = reg[t].dump /\ reg[t].dump \in 1 .. LastDump
      BY <1>1, <2>1, DumpRefs
    <3> QED
      BY <1>3, <2>1, <3>1 DEF HInv, DumpStates
  <2>2. gnd'.cmd = "prepare" => dmp'[gnd'.dump].state \in {"taken", "free"}
    <3>1. gnd.cmd = "prepare" => gnd.dump \in 1 .. LastDump
      BY DEF IInv, DumpsOK
    <3> QED
      BY <1>1, <1>3, <3>1 DEF HInv, DumpStates
  <2>3. ASSUME NEW e \in 1 .. LastDump
        PROVE  /\ dmp'[e].state = "performed" => dmp'[e].source = NoBuf
               /\ dmp'[e].state = "pending" => DumpOnly # {}
               /\ Holding(e)' => dmp'[e].buf \in Shared
    BY <1>3 DEF HInv, DumpStates, Holding
  <2> QED
    BY <2>1, <2>2, <2>3 DEF DumpStates
<1> QED
  BY <1>1, <1>4, <1>5, HoldersFrame DEF LoadsSame, SharedSame


\* The commands that take no buffer, and give none back.
LEMMA AsideCommandsH ==
  ASSUME IInv, HInv,
         \/ \E c \in {"load", "abort", "validate"}, n \in Names : FindTable(c, n)
         \/ LoadCmd \/ (\E d \in Images : ReadFile(d)) \/ \E active \in BOOLEAN : ValidateCmd(active)
  PROVE  HInv'
<1>1. dmp' = dmp /\ (gnd' = gnd \/ gnd'.cmd # "prepare")
  <2>1. NoCmd.cmd # "prepare" /\ gnd \in CmdType
    BY NoCommand, Types
  <2>2. CASE \E c \in {"load", "abort", "validate"}, n \in Names : FindTable(c, n)
    <3>1. PICK c \in {"load", "abort", "validate"}, n \in Names : FindTable(c, n)
      BY <2>2
    <3>2. c # "prepare"
      OBVIOUS
    <3>3. PICK t \in Slots : gnd' = [NoCmd EXCEPT !.cmd = c, !.slot = t]
      BY <3>1 DEF FindTable, Named
    <3>4. NoCmd \in CmdType
      BY NoCommand
    <3> QED
      BY <3>1, <3>2, <3>3, <3>4 DEF FindTable, CmdType, askVars
  <2>3. CASE LoadCmd
    BY <2>1, <2>3 DEF LoadCmd, CmdType, askVars
  <2>4. CASE (\E d \in Images : ReadFile(d)) \/ \E active \in BOOLEAN : ValidateCmd(active)
    BY <2>1, <2>4 DEF ReadFile, ValidateCmd, askVars
  <2> QED
    BY <2>2, <2>3, <2>4
<1>2. PICK s \in Slots : s = gnd.slot
  BY Types DEF CmdType
<1>3. RegAside
  <2>1. CASE reg' = reg
    BY <2>1 DEF RegAside
  <2>2. CASE reg' = Unstale(s)
    BY <2>2, UnstaleAside DEF RegAside
  <2>3. ASSUME NEW r \in {reg, Unstale(s)}, NEW v,
               reg' = [r EXCEPT ![s].vAct = v] \/ reg' = [r EXCEPT ![s].vInact = v]
        PROVE  RegAside
    <3>1. r \in [Slots -> RegType]
      BY UnstaleFacts, Types
    <3>2. \A t \in Slots : /\ r[t].id = reg[t].id /\ r[t].name = reg[t].name /\ r[t].dump = reg[t].dump
                           /\ \/ r[t].next = reg[t].next
                              \/ ~SharedId(reg[t].next) /\ ~SharedId(r[t].next)
      BY UnstaleAside
    <3>3. ASSUME NEW t \in Slots
          PROVE  /\ reg'[t].id = r[t].id /\ reg'[t].name = r[t].name /\ reg'[t].dump = r[t].dump
                 /\ reg'[t].next = r[t].next
      BY <2>3, <3>1 DEF RegType
    <3> QED
      BY <3>2, <3>3 DEF RegAside
  <2>4. ASSUME NEW active \in BOOLEAN, ValidateCmd(active)
        PROVE  RegAside
    <3>1. PICK r \in {reg, Unstale(s)} : \E v :
            reg' = r \/ reg' = [r EXCEPT ![s].vAct = v] \/ reg' = [r EXCEPT ![s].vInact = v]
      BY <1>2, <2>4 DEF ValidateCmd
    <3> QED
      BY <2>1, <2>2, <2>3, <3>1
  <2> QED
    BY <1>2, <2>1, <2>2, <2>4 DEF FindTable, LoadCmd, ReadFile
<1>4. SharedSame
  <2>1. CASE buf' = buf
    BY <2>1 DEF SharedSame
  <2>2. ASSUME NEW d \in Images, ReadFile(d)
        PROVE  SharedSame
    <3>1. \/ buf' = [buf EXCEPT ![gnd.at].data = d]
          \/ \E v \in BOOLEAN : buf' = [[buf EXCEPT ![gnd.at].data = d] EXCEPT ![InProgress(s)].valid = v]
      BY <1>2, <2>2 DEF ReadFile
    <3>2. d \in Data
      BY DEF Data
    <3> DEFINE b == [buf EXCEPT ![gnd.at].data = d]
    <3>3. b \in [Places -> BufType] /\ \A q \in Places : b[q].id = buf[q].id
      BY <3>2, Types DEF BufType
    <3>4. Shared \subseteq Places
      BY SharedPlaces
    <3> HIDE DEF b
    <3>5. CASE buf' = b
      BY <3>3, <3>4, <3>5 DEF SharedSame
    <3>6. CASE \E v \in BOOLEAN : buf' = [b EXCEPT ![InProgress(s)].valid = v]
      BY <3>3, <3>4, <3>6 DEF SharedSame, BufType
    <3> QED
      BY <3>1, <3>5, <3>6 DEF b
  <2> QED
    BY <2>1, <2>2 DEF FindTable, LoadCmd, ValidateCmd, storeVars
<1> QED
  BY <1>1, <1>3, <1>4, AsideH

LEMMA AbortLoadCmdH ==
  ASSUME IInv, HInv, AbortLoadCmd
  PROVE  HInv'
<1>1. PICK s \in Slots : s = gnd.slot
  BY Types DEF CmdType
<1>2. dmp' = dmp /\ gnd'.cmd # "prepare"
  BY NoCommand DEF AbortLoadCmd, askVars
<1>3. CASE UNCHANGED <<buf, reg>>
  BY <1>2, <1>3, AsideH DEF RegAside, SharedSame
<1>4. CASE buf' = Discarded(s) /\ reg' = [reg EXCEPT ![s].next = NoBuf]
  <2>1. reg'[s].next = NoBuf /\ reg'[s].dump = reg[s].dump /\ \A t \in Slots : t # s => reg'[t] = reg[t]
    BY <1>4, Types, RegNext, NoBufId
  <2> QED
    BY <1>2, <1>4, <2>1, FreeH
<1> QED
  BY <1>1, <1>3, <1>4 DEF AbortLoadCmd

\* A request takes a block of its own, and no buffer yet.
LEMMA DumpCmdH ==
  ASSUME IInv, HInv, NEW n \in Names, NEW active \in BOOLEAN, DumpCmd(n, active)
  PROVE  HInv'
<1>1. PICK s \in Slots, d \in 1 .. LastDump :
        /\ dmp[d].state = "unused" /\ \E i : dmp' = [dmp EXCEPT ![d] = [state |-> "taken", source |-> i, buf |-> NoBuf]]
        /\ gnd' = [NoCmd EXCEPT !.cmd = "prepare", !.slot = s, !.dump = d]
        /\ reg' = IF active THEN reg ELSE Unstale(s)
  <2>1. DOMAIN dmp = 1 .. LastDump
    BY Types
  <2> QED
    BY <2>1 DEF DumpCmd, Named
<1>2. dmp'[d].state = "taken" /\ \A e \in 1 .. LastDump : e # d => dmp'[e] = dmp[e]
  BY <1>1, Types
<1>3. RegAside
  BY <1>1, UnstaleAside DEF RegAside
<1>4. gnd'.dump = d
  BY <1>1, NoCommand DEF CmdType
<1>5. DumpStates'
  <2>1. ASSUME NEW t \in Slots, reg'[t].dump # 0
        PROVE  dmp'[reg'[t].dump].state \in {"pending", "performed", "free"}
    <3>1. reg'[t].dump = reg[t].dump
      BY <1>3, <2>1 DEF RegAside
    <3>2. reg[t].dump \in 1 .. LastDump /\ reg[t].dump # d
      BY <1>1, <2>1, <3>1, DumpRefs
    <3> QED
      BY <1>2, <2>1, <3>1, <3>2 DEF HInv, DumpStates
  <2>2. ASSUME NEW e \in 1 .. LastDump
        PROVE  /\ dmp'[e].state = "performed" => dmp'[e].source = NoBuf
               /\ dmp'[e].state = "pending" => DumpOnly # {}
               /\ Holding(e)' => dmp'[e].buf \in Shared
    BY <1>2 DEF HInv, DumpStates, Holding
  <2> QED
    BY <1>2, <1>4, <2>1, <2>2 DEF DumpStates
<1>6. LoadsSame
  BY <1>3 DEF RegAside, LoadsSame
<1>7. DumpsSame
  BY <1>1, <1>2 DEF DumpsSame, Holding
<1> QED
  BY <1>5, <1>6, <1>7, HoldersFrame DEF DumpCmd, storeVars, SharedSame


\* A dump takes a free shared buffer, and keeps it until it is written.
LEMMA DumpTakes ==
  ASSUME IInv, HInv, NEW d \in 1 .. LastDump, NEW i \in BufIds, SharedId(i), NEW q \in Shared, SharedAt(i) = q,
         buf[q].id = NoBuf, ~Holding(d),
         \A t \in Slots : reg'[t].next = reg[t].next /\ reg'[t].id = reg[t].id /\ reg'[t].name = reg[t].name,
         buf'[q].id = i, \A p \in Shared : p # q => buf'[p].id = buf[p].id,
         Holding(d)', dmp'[d].buf = q, \A e \in 1 .. LastDump : e # d => dmp'[e] = dmp[e], DumpStates'
  PROVE  HInv'
<1>1. SharedLoads'
  <2> SUFFICES ASSUME NEW t \in Slots, SharedId(reg'[t].next)
               PROVE  /\ reg'[t].id # 0 /\ reg'[t].name \notin Double
                      /\ buf'[SharedAt(reg'[t].next)].id = reg'[t].next
    BY DEF SharedLoads, SharedId, SharedAt
  <2>1. reg'[t].next = reg[t].next /\ SharedId(reg[t].next)
    OBVIOUS
  <2>2. PICK p \in Shared : p = SharedAt(reg[t].next) /\ p # q
    BY <2>1, TakenFree
  <2>3. SharedAt(reg'[t].next) = p
    BY <2>1, <2>2
  <2> QED
    BY <2>1, <2>2, <2>3 DEF HInv, SharedLoads
<1>2. OneHolder(q)'
  <2>1. \A t \in Slots : ~LoadsInto(t, q)'
    BY TakenFree DEF LoadsInto
  <2>2. \A e \in 1 .. LastDump : DumpsInto(e, q)' <=> e = d
    <3>1. DumpsInto(d, q)'
      BY DEF DumpsInto
    <3>2. \A e \in 1 .. LastDump : e # d => ~DumpsInto(e, q)'
      BY TakenFree DEF DumpsInto, Holding
    <3> QED
      BY <3>1, <3>2
  <2>3. buf'[q].id # NoBuf
    BY TakenFree
  <2> QED
    BY <2>1, <2>2, <2>3 DEF OneHolder
<1>3. ASSUME NEW p \in Shared, p # q
      PROVE  OneHolder(p)'
  <2>1. buf'[p].id = buf[p].id
    BY <1>3
  <2>2. \A t \in Slots : LoadsInto(t, p)' <=> LoadsInto(t, p)
    BY <2>1 DEF LoadsInto
  <2>3. \A e \in 1 .. LastDump : DumpsInto(e, p)' <=> DumpsInto(e, p)
    <3>1. ~DumpsInto(d, p) /\ ~DumpsInto(d, p)'
      BY <1>3 DEF DumpsInto
    <3>2. \A e \in 1 .. LastDump : e # d => (DumpsInto(e, p)' <=> DumpsInto(e, p))
      BY DEF DumpsInto, Holding
    <3> QED
      BY <3>1, <3>2
  <2> QED
    BY <2>1, <2>2, <2>3 DEF HInv, OneHolder
<1> QED
  BY <1>1, <1>2, <1>3 DEF HInv

LEMMA PrepareDumpH ==
  ASSUME IInv, HInv, PrepareDump
  PROVE  HInv'
<1>1. gnd.cmd = "prepare" /\ gnd' = NoCmd /\ NoCmd.cmd # "prepare"
  BY NoCommand DEF PrepareDump
<1>2. CASE UNCHANGED <<reg, buf, dmp>>
  BY <1>1, <1>2, AsideH DEF RegAside, SharedSame
<1>3. PICK s \in Slots : s = gnd.slot
  BY Types DEF CmdType
<1>4. PICK d \in 1 .. LastDump : d = gnd.dump
  BY <1>1 DEF IInv, DumpsOK
<1>5. CASE FreeShared # {} /\ Live(d) /\ ~UNCHANGED <<reg, buf, dmp>>
  <2>1. dmp[d].state = "taken" /\ ~Holding(d) /\ dmp[d] \in DmpType
    BY <1>1, <1>4, <1>5, Types DEF HInv, DumpStates, Live, Holding
  <2>2. PICK k \in 1 .. LastLoad + MaxLoads * LastDump : k = NextShared
    BY <1>1, <1>5, PrepareRoom
  <2>3. PICK i \in BufIds : i = <<-1, k>> /\ SharedId(i)
    BY SharedIds DEF SharedId
  <2>4. PICK q \in Shared : q = SharedAt(i) /\ Place(<<-1, NextShared>>) = q
    BY <2>2, <2>3, SharedPlace, PlaceNow
  <2>5. buf[q].id = NoBuf /\ q \in Places
    BY <1>5, <2>4, SharedFacts, SharedPlaces
  <2>6. CASE ~IsMatch(dmp[d].source) /\ reg[s].name \notin DumpOnly
    <3>1. dmp' = [dmp EXCEPT ![d].buf = q] /\ UNCHANGED <<reg, buf>>
      BY <1>3, <1>4, <1>5, <2>4, <2>6 DEF PrepareDump
    <3>2. dmp'[d].state = "taken" /\ \A e \in 1 .. LastDump : e # d => dmp'[e] = dmp[e]
      BY <2>1, <3>1, Types DEF DmpType
    <3>3. DumpsSame
      BY <2>1, <3>2 DEF DumpsSame, Holding
    <3>4. DumpStates'
      <4>1. \A t \in Slots : reg[t].dump # 0 => reg[t].dump \in 1 .. LastDump
        BY DumpRefs
      <4> QED
        BY <1>1, <2>1, <3>1, <3>2, <4>1 DEF HInv, DumpStates, Holding
    <3> QED
      BY <3>1, <3>3, <3>4, HoldersFrame DEF LoadsSame, SharedSame
  <2>7. CASE IsMatch(dmp[d].source) \/ reg[s].name \in DumpOnly
    <3> DEFINE b == [buf EXCEPT ![q].id = i, ![q].reg = reg[s].id]
    <3>1. b[q].id = i /\ \A p \in Places : p # q => b[p].id = buf[p].id
      BY <2>5, Types DEF BufType
    <3>2. DOMAIN b = Places
      BY Types
    <3>3. \/ /\ buf' = b /\ reg' = [reg EXCEPT ![s].dump = d] /\ reg[s].name \in DumpOnly
             /\ dmp' = [dmp EXCEPT ![d].state = "pending", ![d].buf = q]
          \/ /\ \E c : buf' = [b EXCEPT ![q].data = c]
             /\ dmp' = [dmp EXCEPT ![d] = [state |-> "performed", source |-> NoBuf, buf |-> q]]
             /\ reg' = reg
      BY <1>3, <1>4, <1>5, <2>2, <2>3, <2>4, <2>7 DEF PrepareDump
    <3>4. b[q] \in BufType
      <4>1. reg[s].id \in 0 .. LastReg
        BY Types DEF RegType
      <4> QED
        BY <2>5, <4>1, Types DEF BufType
    <3> HIDE DEF b
    <3>5. buf'[q].id = i /\ \A p \in Shared : p # q => buf'[p].id = buf[p].id
      <4>1. Shared \subseteq Places
        BY SharedPlaces
      <4>2. CASE buf' = b
        BY <3>1, <4>1, <4>2
      <4>3. ASSUME NEW c, buf' = [b EXCEPT ![q].data = c]
            PROVE  buf'[q].id = i /\ \A p \in Places : p # q => buf'[p].id = b[p].id
        BY <2>5, <3>1, <3>2, <3>4, <4>3 DEF BufType
      <4> QED
        BY <3>1, <3>3, <4>1, <4>2, <4>3
    <3>6. /\ dmp'[d].state \in {"pending", "performed"} /\ dmp'[d].buf = q
          /\ dmp'[d].state = "performed" => dmp'[d].source = NoBuf
          /\ dmp'[d].state = "pending" => DumpOnly # {}
          /\ \A e \in 1 .. LastDump : e # d => dmp'[e] = dmp[e]
      <4>1. dmp \in [1 .. LastDump -> DmpType]
        BY Types
      <4>2. CASE reg[s].name \in DumpOnly /\ dmp' = [dmp EXCEPT ![d].state = "pending", ![d].buf = q]
        <5> DEFINE x == [dmp[d] EXCEPT !.state = "pending", !.buf = q]
        <5>1. dmp' = [dmp EXCEPT ![d] = x]
          BY <4>1, <4>2
        <5>2. x.state = "pending" /\ x.buf = q
          BY <2>1 DEF DmpType
        <5> HIDE DEF x
        <5> QED
          BY <4>1, <4>2, <5>1, <5>2
      <4>3. CASE dmp' = [dmp EXCEPT ![d] = [state |-> "performed", source |-> NoBuf, buf |-> q]]
        BY <4>1, <4>3
      <4> QED
        BY <3>3, <4>2, <4>3
    <3>7. \A t \in Slots : /\ reg'[t].next = reg[t].next /\ reg'[t].id = reg[t].id /\ reg'[t].name = reg[t].name
                           /\ reg'[t].dump \in {reg[t].dump, d}
      <4>1. CASE reg' = reg
        BY <4>1
      <4>2. CASE reg' = [reg EXCEPT ![s].dump = d]
        <5> DEFINE x == [reg[s] EXCEPT !.dump = d]
        <5>1. reg \in [Slots -> RegType] /\ reg' = [reg EXCEPT ![s] = x] /\ d \in 0 .. LastDump
          BY <4>2, Types, Constants
        <5>2. x.dump = d /\ x.id = reg[s].id /\ x.name = reg[s].name /\ x.next = reg[s].next
          BY <5>1, RegDump
        <5> HIDE DEF x
        <5> QED
          BY <5>1, <5>2
      <4> QED
        BY <3>3, <4>1, <4>2
    <3>8. DumpStates'
      <4>1. ASSUME NEW t \in Slots, reg'[t].dump # 0
            PROVE  dmp'[reg'[t].dump].state \in {"pending", "performed", "free"}
        <5>1. CASE reg'[t].dump = d
          BY <3>6, <5>1
        <5>2. CASE reg'[t].dump # d
          <6>1. reg'[t].dump = reg[t].dump /\ reg[t].dump \in 1 .. LastDump
            BY <3>7, <4>1, <5>2, DumpRefs
          <6> QED
            BY <3>6, <4>1, <5>2, <6>1 DEF HInv, DumpStates
        <5> QED
          BY <5>1, <5>2
      <4>2. ASSUME NEW e \in 1 .. LastDump
            PROVE  /\ dmp'[e].state = "performed" => dmp'[e].source = NoBuf
                   /\ dmp'[e].state = "pending" => DumpOnly # {}
                   /\ Holding(e)' => dmp'[e].buf \in Shared
        BY <3>6 DEF HInv, DumpStates, Holding
      <4> QED
        BY <1>1, <4>1, <4>2 DEF DumpStates
    <3>9. Holding(d)'
      BY <3>6 DEF Holding
    <3> QED
      BY <2>1, <2>3, <2>4, <2>5, <3>5, <3>6, <3>7, <3>8, <3>9, DumpTakes
  <2> QED
    BY <2>6, <2>7
<1>6. UNCHANGED <<reg, buf, dmp>> \/ (FreeShared # {} /\ Live(gnd.dump))
  BY DEF PrepareDump
<1> QED
  BY <1>2, <1>4, <1>5, <1>6


\* The dumps that were made are written, and their buffers given back.
LEMMA SendHkCmdH ==
  ASSUME IInv, HInv, SendHkCmd
  PROVE  HInv'
<1>1. UNCHANGED <<reg, gnd>> /\ NoCmd.cmd # "prepare" /\ gnd = NoCmd
  BY NoCommand DEF SendHkCmd, taskVars
<1>2. DOMAIN dmp = 1 .. LastDump
  BY Types
<1>3. ASSUME NEW d \in 1 .. LastDump
      PROVE  /\ dmp[d].state # "performed" => dmp'[d] = dmp[d]
             /\ dmp[d].state = "performed" => dmp'[d].state = "free"
  <2>1. dmp[d] \in DmpType
    BY Types
  <2>2. /\ dmp[d].state # "performed" => dmp'[d] = dmp[d]
        /\ dmp[d].state = "performed" => dmp'[d] = [dmp[d] EXCEPT !.state = "free"]
    BY <1>2 DEF SendHkCmd
  <2> QED
    BY <2>1, <2>2 DEF DmpType
<1>4. ASSUME NEW p \in Shared
      PROVE  /\ (\E d \in 1 .. LastDump : dmp[d].state = "performed" /\ dmp[d].buf = p) => buf'[p].id = NoBuf
             /\ ~(\E d \in 1 .. LastDump : dmp[d].state = "performed" /\ dmp[d].buf = p) => buf'[p].id = buf[p].id
  <2> DEFINE x == buf[p]
  <2>1. p \in Places /\ x \in BufType
    BY SharedPlaces, Types
  <2>2. buf'[p] = IF \E d \in 1 .. LastDump : dmp[d].state = "performed" /\ dmp[d].buf = p
                    THEN [x EXCEPT !.id = NoBuf] ELSE x
    BY <1>2, <2>1 DEF SendHkCmd
  <2>3. [x EXCEPT !.id = NoBuf].id = NoBuf
    BY <2>1, BufFreed
  <2> QED
    BY <2>2, <2>3
<1>5. DumpStates'
  <2>1. ASSUME NEW t \in Slots, reg'[t].dump # 0
        PROVE  dmp'[reg'[t].dump].state \in {"pending", "performed", "free"}
    <3>1. reg'[t].dump = reg[t].dump /\ reg[t].dump \in 1 .. LastDump
      BY <1>1, <2>1, DumpRefs
    <3> QED
      BY <1>3, <2>1, <3>1 DEF HInv, DumpStates
  <2>2. ASSUME NEW e \in 1 .. LastDump
        PROVE  /\ dmp'[e].state = "performed" => dmp'[e].source = NoBuf
               /\ dmp'[e].state = "pending" => DumpOnly # {}
               /\ Holding(e)' => dmp'[e].buf \in Shared
    BY <1>3 DEF HInv, DumpStates, Holding
  <2> QED
    BY <1>1, <2>1, <2>2 DEF DumpStates
<1>6. ASSUME NEW p \in Shared, NEW s \in Slots, LoadsInto(s, p)
      PROVE  buf'[p].id = buf[p].id
  <2>1. \A d \in 1 .. LastDump : ~(dmp[d].state = "performed" /\ dmp[d].buf = p)
    BY <1>6 DEF HInv, OneHolder, DumpsInto, Holding
  <2> QED
    BY <1>4, <2>1
<1>7. SharedLoads'
  <2> SUFFICES ASSUME NEW t \in Slots, SharedId(reg'[t].next)
               PROVE  /\ reg'[t].id # 0 /\ reg'[t].name \notin Double
                      /\ buf'[SharedAt(reg'[t].next)].id = reg'[t].next
    BY DEF SharedLoads, SharedId, SharedAt
  <2>1. reg'[t] = reg[t] /\ reg[t].next \in BufIds
    BY <1>1, Types DEF RegType
  <2>2. PICK p \in Shared : p = SharedAt(reg[t].next)
    BY <2>1, SharedPlace
  <2>3. LoadsInto(t, p)
    BY <2>1, <2>2 DEF HInv, SharedLoads, LoadsInto, SharedId
  <2>4. SharedAt(reg'[t].next) = p
    BY <2>1, <2>2
  <2> QED
    BY <1>6, <2>1, <2>2, <2>3, <2>4 DEF HInv, SharedLoads
<1>8. ASSUME NEW p \in Shared
      PROVE  OneHolder(p)'
  <2>1. CASE \E d \in 1 .. LastDump : dmp[d].state = "performed" /\ dmp[d].buf = p
    <3>1. PICK d \in 1 .. LastDump : dmp[d].state = "performed" /\ DumpsInto(d, p)
      BY <2>1 DEF DumpsInto, Holding
    <3>2. buf'[p].id = NoBuf
      BY <1>4, <2>1
    <3>3. \A s \in Slots : ~LoadsInto(s, p)'
      BY <3>2 DEF LoadsInto
    <3>4. ASSUME NEW e \in 1 .. LastDump, DumpsInto(e, p)'
          PROVE  FALSE
      <4>1. dmp[e].state = "pending" /\ DumpsInto(e, p)
        BY <1>3, <3>4 DEF DumpsInto, Holding
      <4> QED
        BY <3>1, <4>1 DEF HInv, OneHolder
    <3> QED
      BY <3>2, <3>3, <3>4 DEF OneHolder
  <2>2. CASE ~(\E d \in 1 .. LastDump : dmp[d].state = "performed" /\ dmp[d].buf = p)
    <3>1. buf'[p].id = buf[p].id
      BY <1>4, <2>2
    <3>2. \A s \in Slots : LoadsInto(s, p)' <=> LoadsInto(s, p)
      BY <1>1, <3>1 DEF LoadsInto
    <3>3. \A d \in 1 .. LastDump : DumpsInto(d, p)' <=> DumpsInto(d, p)
      BY <1>3, <2>2 DEF DumpsInto, Holding
    <3> QED
      BY <3>1, <3>2, <3>3 DEF HInv, OneHolder
  <2> QED
    BY <2>1, <2>2
<1> QED
  BY <1>5, <1>7, <1>8 DEF HInv

LEMMA HNext ==
  ASSUME Inv, HInv, NoneDropped, [Next]_vars
  PROVE  HInv'
<1>1. IInv
  BY DEF Inv
<1>2. CASE UNCHANGED vars
  BY <1>1, <1>2, AsideH DEF vars, RegAside, SharedSame
<1>3. ASSUME NEW a \in Apps, Start(a)
      PROVE  HInv'
  <2>1. CASE \E n \in Names : Register(a, n) \/ RegisterFails(a, n)
    BY <1>1, <2>1, RegisterH
  <2>2. CASE \E n \in Names : Share(a, n)
    BY <1>1, <2>2, StoreH
  <2>3. ASSUME NEW h \in Mine(a),
               \/ Unregister(a, h) \/ GetAddress(a, h) \/ ReleaseAddress(a, h)
               \/ Manage(a, h) \/ (\E d \in Images : Load(a, h, d) \/ Modified(a, h, d))
               \/ at[a] = "idle" /\ (Update(a, h) \/ Validate(a, h) \/ DumpToBuffer(a, h))
        PROVE  HInv'
    <3>1. CASE Unregister(a, h)
      BY <1>1, <3>1, ReleaseH DEF Unregister
    <3>2. CASE \/ GetAddress(a, h) \/ ReleaseAddress(a, h) \/ Manage(a, h) \/ Update(a, h)
               \/ \E d \in Images : Modified(a, h, d)
      BY <1>1, <3>2, StoreH
    <3>3. CASE \E d \in Images : Load(a, h, d)
      BY <1>1, <3>3, LoadH
    <3>4. CASE Validate(a, h) \/ DumpToBuffer(a, h)
      BY <1>1, <3>4, ValidateH, DumpToBufferH
    <3> QED
      BY <2>3, <3>1, <3>2, <3>3, <3>4
  <2>4. CASE Exit(a)
    BY <1>1, <2>4, ExitH
  <2> QED
    BY <1>3, <2>1, <2>2, <2>3, <2>4 DEF Start
<1>4. ASSUME NEW a \in Apps, Continue(a)
      PROVE  HInv'
  <2>1. CASE AddressStatus(a) \/ Notify(a) \/ PickActive(a) \/ Save(a) \/ CleanUpEnd(a)
    BY <1>1, <2>1, StoreH
  <2>2. CASE LoadWrite(a) \/ LoadCheck(a)
    BY <1>1, <2>2, WorkH
  <2>3. CASE Reserve(a) \/ Copy(a) \/ Activate(a)
    BY <1>1, <2>3, ReserveH, CopyH, ActivateH
  <2>4. CASE Discard(a) \/ ValidateFunction(a)
    BY <1>1, <2>4, DiscardH, ValidateFunctionH
  <2>5. ASSUME NEW h \in Mine(a),
               \/ CleanUpHandle(a, h)
               \/ at[a] # "idle" /\ (Update(a, h) \/ Validate(a, h) \/ DumpToBuffer(a, h))
        PROVE  HInv'
    <3>1. CASE CleanUpHandle(a, h)
      BY <1>1, <3>1, ReleaseH DEF CleanUpHandle
    <3>2. CASE Update(a, h)
      BY <1>1, <3>2, StoreH
    <3>3. CASE Validate(a, h) \/ DumpToBuffer(a, h)
      BY <1>1, <3>3, ValidateH, DumpToBufferH
    <3> QED
      BY <2>5, <3>1, <3>2, <3>3
  <2> QED
    BY <1>4, <2>1, <2>2, <2>3, <2>4, <2>5 DEF Continue
<1>5. CASE Command \/ Carry \/ SendHkCmd
  <2>1. CASE \E n \in Names, active \in BOOLEAN : DumpCmd(n, active)
    BY <1>1, <2>1, DumpCmdH
  <2>2. CASE \E c \in {"load", "abort", "validate"}, n \in Names : FindTable(c, n)
    BY <1>1, <2>2, AsideCommandsH
  <2>3. CASE LoadCmd \/ (\E d \in Images : ReadFile(d)) \/ \E active \in BOOLEAN : ValidateCmd(active)
    BY <1>1, <2>3, AsideCommandsH
  <2>4. CASE AbortLoadCmd \/ PrepareDump \/ SendHkCmd
    BY <1>1, <2>4, AbortLoadCmdH, PrepareDumpH, SendHkCmdH
  <2> QED
    BY <1>5, <2>1, <2>2, <2>3, <2>4 DEF Command, Carry
<1> QED
  BY <1>2, <1>3, <1>4, <1>5 DEF Next

LEMMA HStart ==
  ASSUME Init
  PROVE  HInv
<1>1. DumpStates
  BY Constants DEF Init, DumpStates, Holding, NoReg, NoCmd, CmdSteps
<1>2. SharedLoads
  BY DEF Init, SharedLoads, NoReg, SharedId
<1>3. \A p \in Shared : OneHolder(p)
  BY SharedPlaces DEF Init, OneHolder, LoadsInto, DumpsInto, Holding, NoReg
<1> QED
  BY <1>1, <1>2, <1>3 DEF HInv

LEMMA HInvariance ==
  ASSUME NoneDropped
  PROVE  Spec => [](Inv /\ HInv)
<1>1. Init => Inv /\ HInv
  BY InitInv, HStart
<1>2. Inv /\ HInv /\ [Next]_vars => (Inv /\ HInv)'
  BY NextInv, HNext
<1> QED
  BY <1>1, <1>2, PTL DEF Spec

\* One holder means that the loads and the dumps that have the buffer are one.
LEMMA HeldOnce ==
  ASSUME IInv, NEW p \in Shared, OneHolder(p)
  PROVE  Cardinality(Loading(p)) + Cardinality(Dumping(p)) = IF buf[p].id # NoBuf THEN 1 ELSE 0
<1>1. /\ \A s \in Slots : s \in Loading(p) <=> LoadsInto(s, p)
      /\ \A d \in 1 .. LastDump : d \in Dumping(p) <=> DumpsInto(d, p)
      /\ Loading(p) \subseteq Slots /\ Dumping(p) \subseteq 1 .. LastDump
  BY Types DEF Loading, Dumping, LoadsInto, DumpsInto, Holding, Used
<1>2. CASE \E s \in Slots : LoadsInto(s, p)
  <2>1. PICK s \in Slots : LoadsInto(s, p)
    BY <1>2
  <2>2. Loading(p) = {s} /\ Dumping(p) = {} /\ buf[p].id # NoBuf
    BY <1>1, <2>1 DEF OneHolder
  <2>3. Cardinality({s}) = 1 /\ Cardinality({}) = 0
    BY FS_Singleton, FS_EmptySet
  <2> QED
    BY <2>2, <2>3
<1>3. CASE \E d \in 1 .. LastDump : DumpsInto(d, p)
  <2>1. PICK d \in 1 .. LastDump : DumpsInto(d, p)
    BY <1>3
  <2>2. Loading(p) = {} /\ Dumping(p) = {d} /\ buf[p].id # NoBuf
    BY <1>1, <2>1 DEF OneHolder
  <2>3. Cardinality({d}) = 1 /\ Cardinality({}) = 0
    BY FS_Singleton, FS_EmptySet
  <2> QED
    BY <2>2, <2>3
<1>4. CASE ~(\E s \in Slots : LoadsInto(s, p)) /\ ~(\E d \in 1 .. LastDump : DumpsInto(d, p))
  <2>1. Loading(p) = {} /\ Dumping(p) = {} /\ buf[p].id = NoBuf
    BY <1>1, <1>4 DEF OneHolder
  <2> QED
    BY <2>1, FS_EmptySet
<1> QED
  BY <1>2, <1>3, <1>4

\* The shared buffers neither leak nor serve two (CFE_TBL_AcquireGlobalLoadBuff,
\* CFE_TBL_DiscardWorkingBuffer, CFE_TBL_SendHkCmd), where no application stops while
\* a dump waits for it; tbl_cleanup shows that one which does takes a buffer with it.
THEOREM BuffersKept ==
  ASSUME NoneDropped
  PROVE  Spec => []SharedBuffersHeld
<1>1. Inv /\ HInv => SharedBuffersHeld
  <2> SUFFICES ASSUME IInv, HInv
               PROVE  SharedBuffersHeld
    BY DEF Inv
  <2>1. ASSUME NEW s \in Slots, reg[s].next[1] = -1, reg[s].next # NoBuf
        PROVE  IsMatch(reg[s].next)
    <3>1. reg[s].next \in BufIds /\ SharedId(reg[s].next)
      BY <2>1, Types DEF RegType, SharedId
    <3>2. Place(reg[s].next) = SharedAt(reg[s].next)
      BY <3>1, SharedPlace, PlaceNow
    <3> QED
      BY <2>1, <3>1, <3>2 DEF HInv, SharedLoads, IsMatch
  <2> QED
    BY <2>1, HeldOnce DEF SharedBuffersHeld, HInv
<1> QED
  BY <1>1, HInvariance, PTL

=============================================================================
