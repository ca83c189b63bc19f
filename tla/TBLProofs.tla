----------------------------- MODULE TBLProofs -----------------------------
(***************************************************************************)
(* Proofs about Table Services that hold of every instance.  The invariant *)
(* Inv says what a call that works without the lock may rely on, where the *)
(* identifiers of buffers point, and what the descriptors lead to.  The    *)
(* properties that need a condition are in TBLImageProofs.                 *)
(***************************************************************************)
EXTENDS TBL, FiniteSetTheorems, WellFoundedInduction, TLAPS

-----------------------------------------------------------------------------
(* The types of the variables, and where an identifier points              *)

Own(s)    == {s} \X {0, 1}
SomePlace == Places \cup {NoBuf}

RegType == [id : 0 .. LastReg, name : Names \cup {None}, owner : Apps \cup {None},
            active : BufIds, prev : BufIds, next : BufIds,
            vAct : 0 .. MaxValidations, vInact : 0 .. MaxValidations, dump : 0 .. LastDump]
HndType == [used : BOOLEAN, app : Apps \cup {None}, slot : Slots, reg : 0 .. LastReg,
            locked : BOOLEAN, updated : BOOLEAN, buf : BufIds, addr : SomePlace]
BufType == [id : BufIds, reg : 0 .. LastReg, data : Data, valid : BOOLEAN]
CdsType == [made : BOOLEAN, loaded : BOOLEAN, data : Data]
DmpType == [state : {"unused", "taken", "pending", "performed", "free"},
            source : BufIds, buf : SomePlace]
JobType == [h : Hs \cup {0}, data : Data, from : SomePlace, to : SomePlace, v : 0 .. MaxValidations]
CmdType == [cmd : CmdSteps \cup {None}, slot : Slots, at : SomePlace, dump : 0 .. LastDump]
Where   == {"idle", "cleanup", "address", "write", "check", "discard", "fault", "update", "reserve",
            "copy", "activate", "notify", "pick", "save", "pickModified", "saveModified", "validate",
            "function", "dump"}

\* CFE_TBL_LocateLoadBufferByID and CFE_TBL_GetNextLocalBufferId in the registry r.
PlaceIn(r, id) ==
  CASE id = NoBuf -> NoBuf
    [] id # NoBuf /\ id[1] = -1 -> <<-1, 1 + (id[2] % MaxLoads)>>
    [] OTHER      -> <<id[1], IF r[id[1]].name \in Double THEN id[2] % 2 ELSE 0>>
NextIn(r, s) == <<s, IF r[s].active = NoBuf THEN 1 ELSE r[s].active[2] + 1>>

LEMMA Constants ==
  /\ MaxTables \in Nat /\ MaxTables > 0 /\ MaxLoads \in Nat /\ MaxLoads > 0
  /\ MaxValidations \in Nat /\ MaxHandles \in Nat
  /\ LastReg \in Nat /\ LastHandle \in Nat /\ LastGen \in Nat /\ LastGen > 0
  /\ LastLoad \in Nat /\ LastDump \in Nat
  /\ None \notin Apps /\ None \notin Names /\ None \notin CmdSteps
  /\ DumpOnly \cap Double = {} /\ DumpOnly \cap Critical = {}
  /\ Critical \subseteq Names /\ Checked \subseteq Names /\ DumpOnly \subseteq Names
  /\ Good \subseteq Images /\ Blank \notin Images /\ OwnerOf \in [Names -> Apps]
BY TablesAssumption, LimitsAssumption

LEMMA ShortTypes ==
  TypeOK <=>
    /\ reg \in [Slots -> RegType] /\ hnd \in [Hs -> HndType] /\ buf \in [Places -> BufType]
    /\ cds \in [Critical -> CdsType] /\ dmp \in [1 .. LastDump -> DmpType]
    /\ val \in [1 .. MaxValidations -> {"free", "pending", "performed"}]
    /\ lastReg \in 0 .. LastReg /\ lastHnd \in 0 .. LastHandle
    /\ lock \in Apps \cup {None} /\ seen \in [Hs -> Data]
BY DEF TypeOK, RegType, HndType, BufType, CdsType, DmpType, SomePlace

LEMMA PlaceNow == ASSUME NEW id PROVE Place(id) = PlaceIn(reg, id)
BY DEF Place, PlaceIn, IsDouble
LEMMA NextNow == ASSUME NEW s PROVE NextLocal(s) = NextIn(reg, s)
BY DEF NextLocal, NextIn

LEMMA SharedSerials == MaxLoads * LastDump \in Nat
BY Constants

\* The identifiers: of nothing, of a record's own buffers, of shared ones.
LEMMA IdForms ==
  ASSUME NEW id \in BufIds
  PROVE  \/ id = NoBuf
         \/ id[1] \in Slots /\ id[2] \in 1 .. LastGen /\ id = <<id[1], id[2]>> /\ id # NoBuf /\ id[1] # -1
         \/ id[1] = -1 /\ id[2] \in Nat /\ id[2] > 0 /\ id = <<-1, id[2]>> /\ id # NoBuf
<1>1. CASE id = NoBuf
  BY <1>1
<1>2. CASE id \in Slots \X (1 .. LastGen)
  BY <1>2, Constants DEF Slots, NoBuf
<1>3. CASE id \in {-1} \X (1 .. LastLoad + MaxLoads * LastDump)
  BY <1>3, Constants, SharedSerials DEF NoBuf
<1> QED
  BY <1>1, <1>2, <1>3 DEF BufIds

LEMMA OwnIds ==
  ASSUME NEW s \in Slots, NEW k \in 1 .. LastGen
  PROVE  /\ <<s, k>> \in BufIds /\ <<s, k>> # NoBuf /\ <<s, k>>[1] = s /\ <<s, k>>[2] = k
         /\ s # -1
BY Constants DEF BufIds, Slots, NoBuf
LEMMA SharedIds ==
  ASSUME NEW k \in 1 .. LastLoad + MaxLoads * LastDump
  PROVE  <<-1, k>> \in BufIds /\ <<-1, k>> # NoBuf /\ <<-1, k>>[1] = -1 /\ <<-1, k>>[2] = k
BY Constants, SharedSerials DEF BufIds, NoBuf
LEMMA NoBufId == NoBuf \in BufIds /\ NoBuf \in SomePlace /\ NoBuf[1] = -1 /\ NoBuf \notin Places
BY Constants DEF BufIds, NoBuf, SomePlace, Places, Slots, Shared
LEMMA OwnPlaces ==
  ASSUME NEW s \in Slots
  PROVE  /\ Own(s) \subseteq Places /\ Own(s) \cap Shared = {}
         /\ \A p \in Own(s) : p[1] = s /\ p # NoBuf
         /\ \A p \in Places : p[1] = s => p \in Own(s)
         /\ <<s, 0>> \in Own(s) /\ <<s, 1>> \in Own(s)
BY Constants DEF Own, Places, Shared, Slots, NoBuf
LEMMA SharedPlaces ==
  /\ Shared \subseteq Places
  /\ \A p \in Shared : p[1] = -1 /\ p # NoBuf
  /\ \A p \in Places : p[1] = -1 => p \in Shared
  /\ \A p \in Places : p \in Shared \/ (p[1] \in Slots /\ p \in Own(p[1]))
BY Constants DEF Own, Places, Shared, Slots, NoBuf

LEMMA PlaceType ==
  ASSUME NEW r, NEW id \in BufIds
  PROVE  /\ PlaceIn(r, id) \in SomePlace
         /\ id = NoBuf => PlaceIn(r, id) = NoBuf
         /\ id # NoBuf => PlaceIn(r, id) \in Places /\ PlaceIn(r, id) # NoBuf
         /\ id # NoBuf /\ id[1] = -1 => PlaceIn(r, id) \in Shared
         /\ id # NoBuf /\ id[1] # -1 => PlaceIn(r, id) \in Own(id[1]) /\ id[1] \in Slots
<1>1. CASE id = NoBuf
  <2>1. PlaceIn(r, id) = NoBuf
    BY <1>1 DEF PlaceIn
  <2> QED
    BY <1>1, <2>1, NoBufId
<1>2. CASE id # NoBuf /\ id[1] = -1
  <2>1. id[2] \in Nat
    BY <1>2, IdForms
  <2>2. 1 + (id[2] % MaxLoads) \in 1 .. MaxLoads
    BY <2>1, Constants
  <2>3. PlaceIn(r, id) = <<-1, 1 + (id[2] % MaxLoads)>>
    BY <1>2 DEF PlaceIn
  <2>4. PlaceIn(r, id) \in Shared
    BY <2>2, <2>3 DEF Shared
  <2> QED
    BY <1>2, <2>4, SharedPlaces DEF SomePlace
<1>3. CASE id # NoBuf /\ id[1] # -1
  <2>1. id[2] \in Nat /\ id[1] \in Slots
    BY <1>3, IdForms, Constants
  <2>2. id[2] % 2 \in {0, 1}
    BY <2>1
  <2>3. PlaceIn(r, id) = <<id[1], IF r[id[1]].name \in Double THEN id[2] % 2 ELSE 0>>
    BY <1>3 DEF PlaceIn
  <2>4. PlaceIn(r, id) \in Own(id[1])
    BY <2>2, <2>3 DEF Own
  <2> QED
    BY <1>3, <2>1, <2>4, OwnPlaces DEF SomePlace
<1> QED
  BY <1>1, <1>2, <1>3

\* Where an identifier points depends on the name of its record only.
LEMMA PlaceSame ==
  ASSUME NEW r, NEW q, NEW id \in BufIds,
         id # NoBuf /\ id[1] # -1 => r[id[1]].name = q[id[1]].name
  PROVE  PlaceIn(q, id) = PlaceIn(r, id)
BY DEF PlaceIn

LEMMA NextType ==
  ASSUME NEW r \in [Slots -> RegType], NEW s \in Slots
  PROVE  /\ NextIn(r, s)[1] = s /\ NextIn(r, s)[2] \in Nat /\ NextIn(r, s)[2] > 0
         /\ NextIn(r, s) = <<s, NextIn(r, s)[2]>>
         /\ NextIn(r, s)[2] <= LastGen => NextIn(r, s) \in BufIds /\ NextIn(r, s) # NoBuf
<1>1. r[s].active \in BufIds
  BY DEF RegType
<1>2. r[s].active # NoBuf => r[s].active[2] \in Nat
  BY <1>1, IdForms, Constants
<1>3. NextIn(r, s)[1] = s /\ NextIn(r, s)[2] \in Nat /\ NextIn(r, s)[2] > 0
      /\ NextIn(r, s) = <<s, NextIn(r, s)[2]>>
  BY <1>2 DEF NextIn
<1> QED
  BY <1>3, OwnIds, Constants

-----------------------------------------------------------------------------
(* The invariant of every instance                                         *)

\* The steps of a call on a table that its owner makes, and those of an update that
\* come after the change of the active buffer.
OwnerSteps == {"write", "check", "discard", "fault", "update", "reserve", "copy", "activate",
               "notify", "pick", "save", "validate", "function"}
LateSteps  == {"notify", "pick", "save", "discard"}
Late(s)    == \E a \in Apps : at[a] \in LateSteps /\ hnd[job[a].h].slot = s

TasksOK ==
  /\ at \in [Apps -> Where] /\ job \in [Apps -> JobType] /\ gnd \in CmdType /\ lastLoad \in Nat
\* A call works on a descriptor of its application, and where it must on a table that
\* the application owns, however long it does without the lock.
JobOK(a) ==
  /\ at[a] \notin {"idle", "cleanup"} =>
       job[a].h \in Hs /\ hnd[job[a].h].used /\ hnd[job[a].h].app = a
  /\ at[a] \in OwnerSteps => reg[hnd[job[a].h].slot].owner = a
  /\ at[a] \in {"copy", "activate"} => job[a].to \in Own(hnd[job[a].h].slot)
  /\ at[a] = "copy" => job[a].from \in Places
JobsOK == \A a \in Apps : JobOK(a)
\* A buffer stands where its identifier points.
IdsOK ==
  /\ \A s \in Slots : /\ reg[s].active # NoBuf => reg[s].active[1] = s
                      /\ reg[s].next # NoBuf => reg[s].next[1] \in {s, -1}
  /\ \A p \in Places : buf[p].id # NoBuf => PlaceIn(reg, buf[p].id) = p
  /\ \A p \in Shared : buf[p].id # NoBuf => buf[p].id[2] <= lastLoad
\* A load into a shared buffer leaves room for the identifier of the own buffer.
SerialsOK ==
  \A s \in Slots : reg[s].next # NoBuf /\ reg[s].next[1] = -1 /\ ~Late(s) => NextIn(reg, s)[2] <= LastGen
DumpsOK ==
  /\ \A d \in 1 .. LastDump : dmp[d].buf \in Shared \cup {NoBuf}
  /\ \A d, e \in 1 .. LastDump : d < e /\ dmp[d].state = "unused" => dmp[e].state = "unused"
  /\ gnd.cmd = "prepare" => gnd.dump \in 1 .. LastDump /\ dmp[gnd.dump].state # "unused"
  /\ \A s \in Slots : reg[s].dump # 0 => dmp[reg[s].dump].buf \in Shared /\ dmp[reg[s].dump].state # "unused"
\* Every dump takes one shared buffer at most.
LoadsBounded ==
  /\ lastLoad <= LastLoad + MaxLoads * LastDump
  /\ \A d \in 1 .. LastDump : dmp[d].state = "unused" \/ (gnd.cmd = "prepare" /\ gnd.dump = d)
                                => lastLoad <= LastLoad + MaxLoads * (d - 1)

IInv == TypeOK /\ TasksOK /\ JobsOK /\ IdsOK /\ SerialsOK /\ DumpsOK /\ LoadsBounded /\ DescriptorsLinked

-----------------------------------------------------------------------------
(* Steps that leave some part alone                                        *)

KeepLinks ==
  /\ \A s \in Slots : reg'[s].id = reg[s].id /\ reg'[s].name = reg[s].name /\ reg'[s].owner = reg[s].owner
  /\ \A h \in Hs : /\ hnd'[h].used <=> hnd[h].used
                   /\ hnd'[h].app = hnd[h].app /\ hnd'[h].slot = hnd[h].slot /\ hnd'[h].reg = hnd[h].reg
KeepIds ==
  /\ \A s \in Slots : reg'[s].active = reg[s].active /\ reg'[s].next \in {reg[s].next, NoBuf}
  /\ \A p \in Places : buf'[p].id \in {buf[p].id, NoBuf}
  /\ lastLoad' = lastLoad
KeepDumps ==
  /\ gnd' = gnd /\ lastLoad' = lastLoad /\ \A s \in Slots : reg'[s].dump \in {reg[s].dump, 0}
  /\ \A d \in 1 .. LastDump : /\ dmp'[d].buf = dmp[d].buf
                              /\ dmp'[d].state = "unused" <=> dmp[d].state = "unused"

LEMMA NextTypes ==
  TypeOK' <=>
    /\ reg' \in [Slots -> RegType] /\ hnd' \in [Hs -> HndType] /\ buf' \in [Places -> BufType]
    /\ cds' \in [Critical -> CdsType] /\ dmp' \in [1 .. LastDump -> DmpType]
    /\ val' \in [1 .. MaxValidations -> {"free", "pending", "performed"}]
    /\ lastReg' \in 0 .. LastReg /\ lastHnd' \in 0 .. LastHandle
    /\ lock' \in Apps \cup {None} /\ seen' \in [Hs -> Data]
BY DEF TypeOK, RegType, HndType, BufType, CdsType, DmpType, SomePlace

LEMMA LinksFrame ==
  ASSUME TypeOK, KeepLinks, DescriptorsLinked
  PROVE  DescriptorsLinked'
<1>1. ASSUME NEW h \in Hs, (hnd[h].used /\ hnd[h].app # None)'
      PROVE  (reg[hnd[h].slot].id = hnd[h].reg /\ Used(hnd[h].slot))'
  <2>1. hnd[h].slot \in Slots
    BY ShortTypes DEF HndType
  <2> QED
    BY <1>1, <2>1 DEF KeepLinks, DescriptorsLinked, Used
<1>2. ASSUME NEW s \in Slots
      PROVE  Links(s)' = Links(s)
  BY DEF KeepLinks, Links
<1>3. ASSUME NEW s \in Slots, (Used(s) /\ reg[s].name # None)'
      PROVE  /\ (reg[s].owner # None)' => \E h \in Links(s)' : hnd'[h].app = reg'[s].owner
             /\ Links(s)' # {}
  <2>1. Used(s) /\ reg[s].name # None
    BY <1>3 DEF KeepLinks, Used
  <2>2. Links(s) # {} /\ (reg[s].owner # None => \E h \in Links(s) : hnd[h].app = reg[s].owner)
    BY <2>1 DEF DescriptorsLinked
  <2> QED
    BY <1>2, <2>2 DEF KeepLinks, Links
<1> QED
  BY <1>1, <1>3 DEF DescriptorsLinked

LEMMA PlacesFrame ==
  ASSUME TypeOK, KeepLinks
  PROVE  \A id \in BufIds : PlaceIn(reg', id) = PlaceIn(reg, id)
<1> TAKE id \in BufIds
<1>1. id # NoBuf /\ id[1] # -1 => id[1] \in Slots
  BY IdForms
<1> QED
  BY <1>1, PlaceSame DEF KeepLinks

LEMMA IdsFrame ==
  ASSUME TypeOK, KeepLinks, KeepIds, IdsOK
  PROVE  IdsOK'
<1>1. ASSUME NEW p \in Places, buf'[p].id # NoBuf
      PROVE  buf'[p].id = buf[p].id /\ buf[p].id \in BufIds /\ PlaceIn(reg', buf'[p].id) = p
  <2>1. buf'[p].id = buf[p].id /\ buf[p].id \in BufIds
    BY <1>1, ShortTypes DEF KeepIds, BufType
  <2> QED
    BY <1>1, <2>1, PlacesFrame DEF IdsOK
<1>2. \A p \in Shared : buf'[p].id # NoBuf => buf'[p].id[2] <= lastLoad'
  BY <1>1, SharedPlaces DEF IdsOK, KeepIds
<1>3. \A s \in Slots : /\ reg'[s].active # NoBuf => reg'[s].active[1] = s
                       /\ reg'[s].next # NoBuf => reg'[s].next[1] \in {s, -1}
  BY DEF KeepIds, IdsOK
<1> QED
  BY <1>1, <1>2, <1>3 DEF IdsOK

LEMMA SerialsFrame ==
  ASSUME SerialsOK,
         \A s \in Slots : reg'[s].active = reg[s].active /\ reg'[s].next \in {reg[s].next, NoBuf},
         \A s \in Slots : Late(s) => Late(s)' \/ reg'[s].next = NoBuf
  PROVE  SerialsOK'
<1> SUFFICES ASSUME NEW s \in Slots, (reg[s].next # NoBuf /\ reg[s].next[1] = -1 /\ ~Late(s))'
             PROVE  NextIn(reg', s)[2] <= LastGen
  BY DEF SerialsOK
<1>1. reg'[s].next = reg[s].next /\ ~Late(s)
  OBVIOUS
<1>2. NextIn(reg, s)[2] <= LastGen
  BY <1>1 DEF SerialsOK
<1> QED
  BY <1>2 DEF NextIn

LEMMA DumpsFrame ==
  ASSUME TypeOK, KeepDumps, DumpsOK, LoadsBounded
  PROVE  DumpsOK' /\ LoadsBounded'
<1>1. \A s \in Slots : reg[s].dump # 0 => reg[s].dump \in 1 .. LastDump
  BY ShortTypes, Constants DEF RegType
<1>2. \A s \in Slots : (reg[s].dump # 0)' => dmp'[reg'[s].dump].buf \in Shared /\ dmp'[reg'[s].dump].state # "unused"
  <2> TAKE s \in Slots
  <2> HAVE (reg[s].dump # 0)'
  <2>1. reg'[s].dump = reg[s].dump /\ reg[s].dump \in 1 .. LastDump
    BY <1>1 DEF KeepDumps
  <2> QED
    BY <2>1 DEF KeepDumps, DumpsOK
<1>3. DumpsOK'
  BY <1>2 DEF KeepDumps, DumpsOK
<1>4. LoadsBounded'
  BY DEF KeepDumps, LoadsBounded
<1> QED
  BY <1>3, <1>4

LEMMA JobFrame ==
  ASSUME IInv, KeepLinks, NEW b \in Apps, at'[b] = at[b], job'[b] = job[b]
  PROVE  JobOK(b)'
<1>1. JobOK(b)
  BY DEF IInv, JobsOK
<1>2. CASE at[b] \in {"idle", "cleanup"}
  BY <1>2 DEF JobOK, OwnerSteps
<1>3. CASE at[b] \notin {"idle", "cleanup"}
  <2>1. job[b].h \in Hs /\ hnd[job[b].h].used /\ hnd[job[b].h].app = b
    BY <1>1, <1>3 DEF JobOK
  <2>2. hnd[job[b].h].slot \in Slots
    BY <2>1, ShortTypes DEF IInv, HndType
  <2>3. /\ hnd'[job[b].h].used /\ hnd'[job[b].h].app = b
        /\ hnd'[job[b].h].slot = hnd[job[b].h].slot
        /\ reg'[hnd[job[b].h].slot].owner = reg[hnd[job[b].h].slot].owner
    BY <2>1, <2>2 DEF KeepLinks
  <2> QED
    BY <1>1, <2>1, <2>3 DEF JobOK
<1> QED
  BY <1>2, <1>3

\* A step of the call of one application.
Moves(a, l, j) ==
  /\ at' = [at EXCEPT ![a] = l] /\ job' = [job EXCEPT ![a] = j]
  /\ l \in Where /\ j \in JobType

LEMMA MovesFacts ==
  ASSUME IInv, NEW a \in Apps, NEW l, NEW j, Moves(a, l, j)
  PROVE  /\ at' \in [Apps -> Where] /\ job' \in [Apps -> JobType] /\ at'[a] = l /\ job'[a] = j
         /\ \A b \in Apps : b # a => at'[b] = at[b] /\ job'[b] = job[b]
BY DEF Moves, IInv, TasksOK

LEMMA TaskStep ==
  ASSUME IInv, NEW a \in Apps, NEW l, NEW j, Moves(a, l, j), JobOK(a)', TypeOK',
         KeepLinks, KeepIds, KeepDumps,
         \/ at[a] \notin LateSteps
         \/ l \in LateSteps /\ j.h = job[a].h
         \/ reg'[hnd[job[a].h].slot].next = NoBuf
  PROVE  IInv'
<1>1. TasksOK'
  BY MovesFacts DEF IInv, TasksOK, KeepDumps
<1>2. JobsOK'
  BY MovesFacts, JobFrame DEF JobsOK
<1>3. ASSUME NEW s \in Slots, Late(s)
      PROVE  Late(s)' \/ reg'[s].next = NoBuf
  <2>1. PICK b \in Apps : at[b] \in LateSteps /\ hnd[job[b].h].slot = s
    BY <1>3 DEF Late
  <2>2. job[b].h \in Hs
    BY <2>1 DEF IInv, JobsOK, JobOK, LateSteps
  <2>3. hnd'[job[b].h].slot = s
    BY <2>1, <2>2 DEF KeepLinks
  <2>4. CASE b # a
    BY <2>1, <2>3, <2>4, MovesFacts DEF Late
  <2>5. CASE b = a
    BY <2>1, <2>3, <2>5, MovesFacts DEF Late
  <2> QED
    BY <2>4, <2>5
<1>4. SerialsOK'
  BY <1>3, SerialsFrame DEF IInv, KeepIds
<1> QED
  BY <1>1, <1>2, <1>4, LinksFrame, IdsFrame, DumpsFrame DEF IInv

\* A step of a command of the ground, or of none.
CommandKeeps ==
  /\ UNCHANGED <<at, job, hnd>> /\ KeepLinks /\ KeepIds

LEMMA CommandStep ==
  ASSUME IInv, CommandKeeps, TypeOK', gnd' \in CmdType, DumpsOK', LoadsBounded'
  PROVE  IInv'
<1> USE DEF CommandKeeps
<1>1. TasksOK'
  BY DEF IInv, TasksOK, KeepIds
<1>2. JobsOK'
  BY JobFrame DEF JobsOK
<1>3. \A s \in Slots : Late(s) => Late(s)'
  BY DEF Late
<1>4. SerialsOK'
  BY <1>3, SerialsFrame DEF IInv, KeepIds
<1> QED
  BY <1>1, <1>2, <1>4, LinksFrame, IdsFrame DEF IInv

LEMMA QuietDumps ==
  ASSUME IInv, NEW c \in CmdType, gnd' = c, c.cmd # "prepare", lastLoad' = lastLoad,
         \A s \in Slots : reg'[s].dump \in {reg[s].dump, 0},
         \A d \in 1 .. LastDump : /\ dmp'[d].buf = dmp[d].buf
                                  /\ dmp'[d].state = "unused" <=> dmp[d].state = "unused"
  PROVE  DumpsOK' /\ LoadsBounded'
<1>1. \A s \in Slots : reg[s].dump # 0 => reg[s].dump \in 1 .. LastDump
  BY ShortTypes, Constants DEF RegType, IInv
<1>2. \A s \in Slots : (reg[s].dump # 0)' => dmp'[reg'[s].dump].buf \in Shared /\ dmp'[reg'[s].dump].state # "unused"
  <2> TAKE s \in Slots
  <2> HAVE (reg[s].dump # 0)'
  <2>1. reg'[s].dump = reg[s].dump /\ reg[s].dump \in 1 .. LastDump
    BY <1>1
  <2> QED
    BY <2>1 DEF DumpsOK, IInv
<1>3. DumpsOK'
  BY <1>2 DEF DumpsOK, IInv
<1>4. LoadsBounded'
  BY DEF LoadsBounded, IInv
<1> QED
  BY <1>3, <1>4

\* Records, descriptors and buffers that change one at a time.
LEMMA OneReg ==
  ASSUME TypeOK, NEW s \in Slots, NEW x \in RegType, reg' = [reg EXCEPT ![s] = x]
  PROVE  /\ reg' \in [Slots -> RegType] /\ reg'[s] = x
         /\ \A r \in Slots : r # s => reg'[r] = reg[r]
BY ShortTypes
LEMMA OneHnd ==
  ASSUME TypeOK, NEW h \in Hs, NEW x \in HndType, hnd' = [hnd EXCEPT ![h] = x]
  PROVE  /\ hnd' \in [Hs -> HndType] /\ hnd'[h] = x
         /\ \A g \in Hs : g # h => hnd'[g] = hnd[g]
BY ShortTypes
LEMMA OneBuf ==
  ASSUME TypeOK, NEW p \in Places, NEW x \in BufType, buf' = [buf EXCEPT ![p] = x]
  PROVE  /\ buf' \in [Places -> BufType] /\ buf'[p] = x
         /\ \A q \in Places : q # p => buf'[q] = buf[q]
BY ShortTypes

-----------------------------------------------------------------------------
(* Each action keeps the invariant                                         *)

LEMMA Types ==
  ASSUME IInv
  PROVE  /\ TypeOK
         /\ reg \in [Slots -> RegType] /\ hnd \in [Hs -> HndType] /\ buf \in [Places -> BufType]
         /\ cds \in [Critical -> CdsType] /\ dmp \in [1 .. LastDump -> DmpType]
         /\ val \in [1 .. MaxValidations -> {"free", "pending", "performed"}]
         /\ lastReg \in 0 .. LastReg /\ lastHnd \in 0 .. LastHandle
         /\ lock \in Apps \cup {None} /\ seen \in [Hs -> Data]
         /\ at \in [Apps -> Where] /\ job \in [Apps -> JobType] /\ gnd \in CmdType /\ lastLoad \in Nat
BY ShortTypes DEF IInv, TasksOK

LEMMA MineFacts ==
  ASSUME IInv, NEW a \in Apps, NEW h \in Mine(a)
  PROVE  /\ h \in Hs /\ hnd[h].used /\ hnd[h].app = a /\ a # None
         /\ hnd[h].slot \in Slots /\ reg[hnd[h].slot].id # 0
<1>1. h \in Hs /\ hnd[h].used /\ hnd[h].app = a /\ a # None
  BY Constants DEF Mine
<1>2. hnd[h].slot \in Slots
  BY <1>1, ShortTypes DEF IInv, HndType
<1> QED
  BY <1>1, <1>2 DEF IInv, DescriptorsLinked, Used

LEMMA JobFacts ==
  ASSUME IInv, NEW a \in Apps, at[a] \notin {"idle", "cleanup"}
  PROVE  /\ job[a].h \in Hs /\ job[a].h \in Mine(a) /\ HSlot(a) = hnd[job[a].h].slot
         /\ HSlot(a) \in Slots /\ reg[HSlot(a)].id # 0
         /\ at[a] \in OwnerSteps => reg[HSlot(a)].owner = a
<1>1. job[a].h \in Mine(a)
  BY DEF IInv, JobsOK, JobOK, Mine
<1> QED
  BY <1>1, MineFacts DEF HSlot, IInv, JobsOK, JobOK

LEMMA ReturnMoves ==
  ASSUME IInv, NEW a \in Apps, Return(a)
  PROVE  Moves(a, "idle", NoJob) /\ JobOK(a)' /\ lock' \in Apps \cup {None}
<1>1. NoJob \in JobType
  BY Constants, NoBufId DEF NoJob, JobType, Data
<1>2. Moves(a, "idle", NoJob)
  BY <1>1 DEF Moves, Return, Goto, Where
<1>3. JobOK(a)'
  BY <1>2, MovesFacts DEF JobOK, OwnerSteps
<1> QED
  BY <1>2, <1>3 DEF Return, IInv, TypeOK

LEMMA EndMoves ==
  ASSUME IInv, NEW a \in Apps, Goto(a, "idle"), job' = [job EXCEPT ![a] = NoJob]
  PROVE  Moves(a, "idle", NoJob) /\ JobOK(a)'
<1>1. NoJob \in JobType
  BY Constants, NoBufId DEF NoJob, JobType, Data
<1>2. Moves(a, "idle", NoJob)
  BY <1>1 DEF Moves, Goto, Where
<1> QED
  BY <1>2, MovesFacts DEF JobOK, OwnerSteps

LEMMA GotoMoves ==
  ASSUME IInv, NEW a \in Apps, NEW l \in Where, Goto(a, l), job' = job
  PROVE  Moves(a, l, job[a])
BY DEF Moves, Goto, IInv, TasksOK

LEMMA StoreKept ==
  ASSUME IInv, UNCHANGED <<reg, buf, lastLoad, dmp, gnd>>
  PROVE  KeepIds /\ KeepDumps
BY DEF KeepIds, KeepDumps

LEMMA GetAddressInv ==
  ASSUME IInv, NEW a \in Apps, NEW h \in Mine(a), GetAddress(a, h)
  PROVE  IInv'
<1> DEFINE s == hnd[h].slot
           p == Place(reg[s].active)
           x == [hnd[h] EXCEPT !.locked = TRUE, !.buf = buf[p].id, !.addr = p]
<1>1. h \in Hs /\ hnd[h].used /\ hnd[h].app = a /\ s \in Slots
  BY MineFacts
<1>2. reg[s].active \in BufIds /\ reg[s].active # NoBuf
  BY <1>1, Types DEF GetAddress, RegType
<1>3. p \in Places /\ buf[p] \in BufType
  BY <1>2, PlaceNow, PlaceType, Types
<1>4. x \in HndType /\ hnd' = [hnd EXCEPT ![h] = x]
  <2>1. hnd' = [hnd EXCEPT ![h] = x]
    BY DEF GetAddress
  <2>2. buf[p].id \in BufIds /\ p \in SomePlace /\ hnd[h] \in HndType
    BY <1>1, <1>3, Types DEF BufType, SomePlace
  <2> HIDE DEF p
  <2> QED
    BY <2>1, <2>2 DEF HndType
<1>5. KeepLinks
  <2>1. hnd'[h] = x /\ \A g \in Hs : g # h => hnd'[g] = hnd[g]
    BY <1>1, <1>4, OneHnd, Types
  <2>2. x.used = hnd[h].used /\ x.app = hnd[h].app /\ x.slot = hnd[h].slot /\ x.reg = hnd[h].reg
    <3>1. hnd[h] \in HndType
      BY <1>1, Types
    <3> HIDE DEF p
    <3> QED
      BY <3>1 DEF HndType
  <2>3. reg' = reg
    BY DEF GetAddress
  <2> HIDE DEF x
  <2> QED
    BY <2>1, <2>2, <2>3 DEF KeepLinks
<1>6. Moves(a, "address", [job[a] EXCEPT !.h = h])
  <2>1. job \in [Apps -> JobType]
    BY Types
  <2>2. [job[a] EXCEPT !.h = h] \in JobType
    BY <1>1, <2>1 DEF JobType
  <2>3. job' = [job EXCEPT ![a] = [job[a] EXCEPT !.h = h]]
    BY <2>1 DEF GetAddress
  <2> QED
    BY <2>2, <2>3 DEF GetAddress, Goto, Moves, Where
<1>7. JobOK(a)'
  BY <1>1, <1>5, <1>6, MovesFacts DEF JobOK, KeepLinks, OwnerSteps, JobType
<1>8. TypeOK'
  <2>1. seen' \in [Hs -> Data]
    BY <1>3, Types DEF GetAddress, BufType
  <2> QED
    BY <1>1, <1>4, <2>1, OneHnd, Types, NextTypes DEF GetAddress, storeVars, askVars
<1> QED
  BY <1>5, <1>6, <1>7, <1>8, StoreKept, TaskStep DEF GetAddress, storeVars, askVars, Begin, LateSteps

LEMMA AddressStatusInv ==
  ASSUME IInv, NEW a \in Apps, AddressStatus(a)
  PROVE  IInv'
<1> DEFINE h == job[a].h
           x == [hnd[h] EXCEPT !.updated = FALSE]
<1>1. h \in Hs
  BY JobFacts DEF AddressStatus
<1>2. x \in HndType /\ hnd' = [hnd EXCEPT ![h] = x]
      /\ x.used = hnd[h].used /\ x.app = hnd[h].app /\ x.slot = hnd[h].slot /\ x.reg = hnd[h].reg
  <2>1. hnd[h] \in HndType
    BY <1>1, Types
  <2>2. PICK y \in HndType : y = hnd[h]
    BY <2>1
  <2>3. [y EXCEPT !.updated = FALSE] \in HndType
    BY DEF HndType
  <2>4. /\ x.used = hnd[h].used /\ x.app = hnd[h].app /\ x.slot = hnd[h].slot /\ x.reg = hnd[h].reg
    BY <2>1 DEF HndType
  <2>5. hnd' = [hnd EXCEPT ![h] = x]
    BY DEF AddressStatus
  <2> QED
    BY <2>2, <2>3, <2>4, <2>5
<1>3. KeepLinks
  BY <1>1, <1>2, OneHnd, Types DEF AddressStatus, KeepLinks
<1>4. TypeOK'
  BY <1>1, <1>2, OneHnd, ReturnMoves, Types, NextTypes DEF AddressStatus, storeVars, askVars
<1> QED
  BY <1>3, <1>4, ReturnMoves, StoreKept, TaskStep DEF AddressStatus, storeVars, askVars, LateSteps

LEMMA IdleMoves ==
  ASSUME IInv, NEW a \in Apps, UNCHANGED <<at, job>>
  PROVE  Moves(a, at[a], job[a])
BY DEF Moves, IInv, TasksOK

LEMMA IdleJob ==
  ASSUME IInv, NEW a \in Apps, at'[a] \in {"idle", "cleanup"}
  PROVE  JobOK(a)'
BY DEF JobOK, OwnerSteps

LEMMA ReleaseAddressInv ==
  ASSUME IInv, NEW a \in Apps, NEW h \in Mine(a), ReleaseAddress(a, h)
  PROVE  IInv'
<1> DEFINE x == [hnd[h] EXCEPT !.locked = FALSE, !.addr = NoBuf]
<1>1. h \in Hs /\ at[a] = "idle"
  BY MineFacts DEF ReleaseAddress, Begin
<1>2. x \in HndType /\ hnd' = [hnd EXCEPT ![h] = x]
      /\ x.used = hnd[h].used /\ x.app = hnd[h].app /\ x.slot = hnd[h].slot /\ x.reg = hnd[h].reg
  <2>1. hnd[h] \in HndType /\ NoBuf \in SomePlace
    BY <1>1, NoBufId, Types
  <2>2. hnd' = [hnd EXCEPT ![h] = x]
    BY DEF ReleaseAddress
  <2>3. x \in HndType
    BY <2>1 DEF HndType
  <2>4. x.used = hnd[h].used /\ x.app = hnd[h].app /\ x.slot = hnd[h].slot /\ x.reg = hnd[h].reg
    BY <2>1 DEF HndType
  <2> QED
    BY <2>2, <2>3, <2>4
<1>3. KeepLinks
  BY <1>1, <1>2, OneHnd, Types DEF ReleaseAddress, KeepLinks
<1>4. TypeOK'
  <2>1. seen' \in [Hs -> Data]
    BY Types DEF ReleaseAddress, Data
  <2> QED
    BY <1>1, <1>2, <2>1, OneHnd, Types, NextTypes DEF ReleaseAddress, storeVars, askVars
<1>5. Moves(a, "idle", job[a]) /\ JobOK(a)'
  BY <1>1, IdleMoves, IdleJob DEF ReleaseAddress, taskVars
<1> QED
  BY <1>1, <1>3, <1>4, <1>5, StoreKept, TaskStep DEF ReleaseAddress, storeVars, askVars, taskVars, LateSteps

LEMMA RegNext ==
  ASSUME NEW x \in RegType, NEW i \in BufIds
  PROVE  /\ [x EXCEPT !.next = i] \in RegType /\ [x EXCEPT !.next = i].next = i
         /\ [x EXCEPT !.next = i].id = x.id /\ [x EXCEPT !.next = i].name = x.name
         /\ [x EXCEPT !.next = i].owner = x.owner /\ [x EXCEPT !.next = i].active = x.active
         /\ [x EXCEPT !.next = i].prev = x.prev /\ [x EXCEPT !.next = i].dump = x.dump
BY DEF RegType
LEMMA JobH ==
  ASSUME NEW x \in JobType, NEW h \in Hs
  PROVE  [x EXCEPT !.h = h] \in JobType /\ [x EXCEPT !.h = h].h = h
BY DEF JobType

\* The record without a stale reference, and the load that is in progress.
LEMMA UnstaleFacts ==
  ASSUME IInv, NEW s \in Slots
  PROVE  /\ Unstale(s) \in [Slots -> RegType]
         /\ \A r \in Slots : /\ Unstale(s)[r].id = reg[r].id /\ Unstale(s)[r].name = reg[r].name
                             /\ Unstale(s)[r].owner = reg[r].owner
                             /\ Unstale(s)[r].active = reg[r].active /\ Unstale(s)[r].dump = reg[r].dump
                             /\ Unstale(s)[r].next \in {reg[r].next, NoBuf}
<1>1. CASE IsMatch(reg[s].next)
  BY <1>1, Types DEF Unstale
<1>2. CASE ~IsMatch(reg[s].next)
  <2>1. Unstale(s) = [reg EXCEPT ![s].next = NoBuf]
    BY <1>2 DEF Unstale
  <2>2. reg \in [Slots -> RegType]
    BY Types
  <2> DEFINE x == [reg[s] EXCEPT !.next = NoBuf]
  <2>3. Unstale(s) = [reg EXCEPT ![s] = x]
    BY <2>1
  <2>4. x \in RegType /\ x.next = NoBuf /\ x.id = reg[s].id /\ x.name = reg[s].name
        /\ x.owner = reg[s].owner /\ x.active = reg[s].active /\ x.dump = reg[s].dump
    BY <2>2, NoBufId, RegNext
  <2> HIDE DEF x
  <2> QED
    BY <2>2, <2>3, <2>4
<1> QED
  BY <1>1, <1>2

LEMMA LoadFacts ==
  ASSUME IInv, NEW s \in Slots
  PROVE  /\ InProgress(s) \in SomePlace
         /\ InProgress(s) # NoBuf =>
              /\ InProgress(s) \in Places /\ Unstale(s) = reg
              /\ reg[s].next # NoBuf /\ InProgress(s) = PlaceIn(reg, reg[s].next)
              /\ reg[s].next \in BufIds /\ buf[InProgress(s)].id = reg[s].next
              /\ reg[s].next[1] = s => InProgress(s) \in Own(s)
              /\ reg[s].next[1] # s => reg[s].next[1] = -1 /\ InProgress(s) \in Shared
<1> DEFINE n == reg[s].next
<1>1. n \in BufIds
  BY Types DEF RegType
<1>2. CASE ~IsMatch(n)
  BY <1>2, NoBufId DEF InProgress
<1>3. CASE IsMatch(n)
  <2>1. InProgress(s) = PlaceIn(reg, n) /\ n # NoBuf /\ Unstale(s) = reg
    BY <1>3, PlaceNow DEF InProgress, Unstale, IsMatch
  <2>2. buf[PlaceIn(reg, n)].id = n
    BY <1>3, PlaceNow DEF IsMatch
  <2>3. n[1] \in {s, -1} /\ s # -1
    BY <2>1, Constants DEF IInv, IdsOK, Slots
  <2>4. PlaceIn(reg, n) \in Places /\ PlaceIn(reg, n) # NoBuf
        /\ (n[1] = -1 => PlaceIn(reg, n) \in Shared) /\ (n[1] # -1 => PlaceIn(reg, n) \in Own(n[1]))
    BY <1>1, <2>1, PlaceType
  <2> QED
    BY <1>1, <2>1, <2>2, <2>3, <2>4 DEF SomePlace
<1> QED
  BY <1>2, <1>3

\* What is left to show of a step that keeps the descriptors and the next steps of
\* its call.
LEMMA NextJob ==
  ASSUME IInv, NEW a \in Apps, NEW l, NEW j, Moves(a, l, j), KeepLinks, at[a] \in OwnerSteps,
         j.h = job[a].h, l \notin {"copy", "activate"}
  PROVE  JobOK(a)'
<1>1. /\ job[a].h \in Hs /\ hnd[job[a].h].used /\ hnd[job[a].h].app = a
      /\ hnd[job[a].h].slot \in Slots /\ reg[hnd[job[a].h].slot].owner = a
  BY JobFacts, MineFacts DEF OwnerSteps, HSlot
<1> QED
  BY <1>1, MovesFacts DEF JobOK, KeepLinks, OwnerSteps

LEMMA UnstaleKeeps ==
  ASSUME IInv, NEW s \in Slots, reg' = Unstale(s), UNCHANGED <<hnd, lastLoad, dmp, gnd>>,
         \A p \in Places : buf'[p].id = buf[p].id
  PROVE  KeepLinks /\ KeepIds /\ KeepDumps /\ reg' \in [Slots -> RegType]
BY UnstaleFacts DEF KeepLinks, KeepIds, KeepDumps

LEMMA BufData ==
  ASSUME IInv, NEW p, NEW d \in Data, buf' = [buf EXCEPT ![p].data = d]
  PROVE  buf' \in [Places -> BufType] /\ \A q \in Places : buf'[q].id = buf[q].id
BY Types DEF BufType
LEMMA BufMarked ==
  ASSUME IInv, NEW p, NEW v \in BOOLEAN, buf' = [buf EXCEPT ![p].valid = v]
  PROVE  buf' \in [Places -> BufType] /\ \A q \in Places : buf'[q].id = buf[q].id
<1>1. buf \in [Places -> BufType]
  BY Types
<1>2. CASE p \in Places
  <2> DEFINE x == [buf[p] EXCEPT !.valid = v]
  <2>1. buf' = [buf EXCEPT ![p] = x]
    OBVIOUS
  <2>2. x \in BufType /\ x.id = buf[p].id
    BY <1>1, <1>2 DEF BufType
  <2> HIDE DEF x
  <2> QED
    BY <1>1, <1>2, <2>1, <2>2
<1>3. CASE p \notin Places
  BY <1>1, <1>3
<1> QED
  BY <1>2, <1>3
LEMMA BufWritten ==
  ASSUME IInv, NEW p, NEW d \in Data, NEW v \in BOOLEAN,
         buf' = [buf EXCEPT ![p].data = d, ![p].valid = v]
  PROVE  buf' \in [Places -> BufType] /\ \A q \in Places : buf'[q].id = buf[q].id
<1>1. CASE p \in Places
  BY <1>1, Types DEF BufType
<1>2. CASE p \notin Places
  BY <1>2, Types DEF BufType
<1> QED
  BY <1>1, <1>2

LEMMA LoadWriteInv ==
  ASSUME IInv, NEW a \in Apps, LoadWrite(a)
  PROVE  IInv'
<1> DEFINE s == HSlot(a)
           p == InProgress(s)
<1>1. s \in Slots /\ at[a] = "write" /\ reg' = Unstale(s)
  BY JobFacts DEF LoadWrite
<1>2. job[a].data \in Data
  BY Types DEF JobType
<1>3. buf' \in [Places -> BufType] /\ \A q \in Places : buf'[q].id = buf[q].id
  <2>1. CASE buf' = [buf EXCEPT ![p].data = job[a].data]
    BY <1>2, <2>1, BufData
  <2>2. CASE buf' = [buf EXCEPT ![p].data = job[a].data, ![p].valid = reg[s].name \notin Checked]
    BY <1>2, <2>2, BufWritten
  <2>3. CASE buf' = buf
    BY <2>3, Types
  <2> QED
    BY <2>1, <2>2, <2>3 DEF LoadWrite
<1>4. KeepLinks /\ KeepIds /\ KeepDumps /\ reg' \in [Slots -> RegType]
  BY <1>1, <1>3, UnstaleKeeps DEF LoadWrite, userVars, askVars
<1>5. PICK l \in {"check", "discard", "fault"} : Goto(a, l)
  BY DEF LoadWrite
<1>6. Moves(a, l, job[a])
  BY <1>5, GotoMoves DEF LoadWrite, Where
<1>7. JobOK(a)'
  BY <1>1, <1>4, <1>6, NextJob DEF OwnerSteps
<1>8. TypeOK'
  BY <1>3, <1>4, Types, NextTypes DEF LoadWrite, userVars, askVars
<1> QED
  BY <1>1, <1>4, <1>6, <1>7, <1>8, TaskStep DEF LateSteps

LEMMA LoadCheckInv ==
  ASSUME IInv, NEW a \in Apps, LoadCheck(a)
  PROVE  IInv'
<1> DEFINE s == HSlot(a)
           p == InProgress(s)
<1>1. s \in Slots /\ at[a] = "check" /\ reg' = Unstale(s)
  BY JobFacts DEF LoadCheck
<1>2. buf' \in [Places -> BufType] /\ \A q \in Places : buf'[q].id = buf[q].id
  <2>1. CASE buf' = [buf EXCEPT ![p].valid = TRUE]
    BY <2>1, BufMarked
  <2>2. CASE buf' = [buf EXCEPT ![p].valid = FALSE, ![p].data = Blank]
    <3> DEFINE x == [buf[p] EXCEPT !.valid = FALSE, !.data = Blank]
    <3>1. buf' = [buf EXCEPT ![p] = x]
      BY <2>2
    <3>2. buf \in [Places -> BufType]
      BY Types
    <3>3. p \in Places => x \in BufType /\ x.id = buf[p].id
      BY <3>2 DEF BufType, Data
    <3> HIDE DEF x, p
    <3> QED
      BY <3>1, <3>2, <3>3
  <2>3. CASE buf' = buf
    BY <2>3, Types
  <2> QED
    BY <2>1, <2>2, <2>3 DEF LoadCheck
<1>3. KeepLinks /\ KeepIds /\ KeepDumps /\ reg' \in [Slots -> RegType]
  BY <1>1, <1>2, UnstaleKeeps DEF LoadCheck, userVars, askVars
<1>4. PICK l \in {"reserve", "discard"} : Goto(a, l)
  BY DEF LoadCheck
<1>5. Moves(a, l, job[a])
  BY <1>4, GotoMoves DEF LoadCheck, Where
<1>6. JobOK(a)'
  BY <1>1, <1>3, <1>5, NextJob DEF OwnerSteps
<1>7. TypeOK'
  BY <1>2, <1>3, Types, NextTypes DEF LoadCheck, userVars, askVars
<1> QED
  BY <1>1, <1>3, <1>5, <1>6, <1>7, TaskStep DEF LateSteps

LEMMA UpdateInv ==
  ASSUME IInv, NEW a \in Apps, NEW h \in Mine(a), Update(a, h)
  PROVE  IInv'
<1>1. /\ h \in Hs /\ hnd[h].used /\ hnd[h].app = a /\ hnd[h].slot \in Slots
      /\ reg[hnd[h].slot].owner = a /\ at[a] \in {"idle", "update"}
  BY MineFacts DEF Update, Begin
<1>2. UNCHANGED <<reg, lastReg, hnd, lastHnd, seen, buf, lastLoad, cds, dmp, val, gnd>> /\ lock' = a
  BY DEF Update, userVars, storeVars, askVars
<1>3. Moves(a, "reserve", [job[a] EXCEPT !.h = h])
  <2>1. [job[a] EXCEPT !.h = h] \in JobType
    BY <1>1, JobH, Types
  <2> QED
    BY <1>1, <2>1 DEF Update, Goto, Moves, Where
<1>4. JobOK(a)'
  <2>1. at'[a] = "reserve" /\ job'[a].h = h
    BY <1>3, MovesFacts, Types DEF JobType
  <2> QED
    BY <1>1, <1>2, <2>1 DEF JobOK
<1>5. KeepLinks
  BY <1>2 DEF KeepLinks
<1>6. TypeOK'
  BY <1>2, Types, NextTypes
<1> QED
  BY <1>1, <1>2, <1>3, <1>4, <1>5, <1>6, StoreKept, TaskStep DEF LateSteps

LEMMA BufFreed ==
  ASSUME NEW x \in BufType
  PROVE  /\ [x EXCEPT !.id = NoBuf] \in BufType /\ [x EXCEPT !.id = NoBuf].id = NoBuf
         /\ [x EXCEPT !.id = NoBuf].data = x.data /\ [x EXCEPT !.id = NoBuf].valid = x.valid
         /\ [x EXCEPT !.id = NoBuf].reg = x.reg
BY NoBufId DEF BufType
LEMMA HndTold ==
  ASSUME NEW x \in HndType, NEW y \in {x, [x EXCEPT !.updated = TRUE]}
  PROVE  /\ y \in HndType /\ y.used = x.used /\ y.app = x.app /\ y.slot = x.slot /\ y.reg = x.reg
         /\ y.locked = x.locked /\ y.buf = x.buf /\ y.addr = x.addr
BY DEF HndType

LEMMA DiscardedFacts ==
  ASSUME IInv, NEW s \in Slots
  PROVE  /\ Discarded(s) \in [Places -> BufType]
         /\ \A p \in Places : /\ Discarded(s)[p].id \in {buf[p].id, NoBuf}
                              /\ Discarded(s)[p].data = buf[p].data
                              /\ Discarded(s)[p].valid = buf[p].valid /\ Discarded(s)[p].reg = buf[p].reg
<1> DEFINE q == Place(reg[s].next)
<1>1. CASE Discarded(s) = buf
  BY <1>1, Types
<1>2. CASE Discarded(s) = [buf EXCEPT ![q].id = NoBuf]
  <2> HIDE DEF q
  <2>1. buf \in [Places -> BufType]
    BY Types
  <2>2. Discarded(s) = [p \in Places |-> IF p = q THEN [buf[p] EXCEPT !.id = NoBuf] ELSE buf[p]]
    BY <1>2, <2>1
  <2>3. ASSUME NEW p \in Places
        PROVE  /\ Discarded(s)[p] \in BufType
               /\ Discarded(s)[p].id \in {buf[p].id, NoBuf} /\ Discarded(s)[p].data = buf[p].data
               /\ Discarded(s)[p].valid = buf[p].valid /\ Discarded(s)[p].reg = buf[p].reg
    <3>1. Discarded(s)[p] \in {buf[p], [buf[p] EXCEPT !.id = NoBuf]} /\ buf[p] \in BufType
      BY <2>1, <2>2
    <3> QED
      BY <3>1, BufFreed
  <2> QED
    BY <2>2, <2>3
<1> QED
  BY <1>1, <1>2 DEF Discarded

RegQuiet ==
  /\ reg' \in [Slots -> RegType]
  /\ \A s \in Slots : /\ reg'[s].id = reg[s].id /\ reg'[s].name = reg[s].name /\ reg'[s].owner = reg[s].owner
                      /\ reg'[s].active = reg[s].active /\ reg'[s].next \in {reg[s].next, NoBuf}
                      /\ reg'[s].dump \in {reg[s].dump, 0}

LEMMA QuietKeeps ==
  ASSUME IInv, RegQuiet, UNCHANGED <<hnd, lastLoad, dmp, gnd>>,
         \A p \in Places : buf'[p].id \in {buf[p].id, NoBuf}
  PROVE  KeepLinks /\ KeepIds /\ KeepDumps
BY DEF RegQuiet, KeepLinks, KeepIds, KeepDumps

LEMMA QuietSame ==
  ASSUME IInv, UNCHANGED reg
  PROVE  RegQuiet
BY Types DEF RegQuiet
LEMMA QuietNext ==
  ASSUME IInv, NEW s \in Slots, reg' = [reg EXCEPT ![s].next = NoBuf]
  PROVE  RegQuiet /\ reg'[s].next = NoBuf
<1>1. reg \in [Slots -> RegType]
  BY Types
<1> DEFINE x == [reg[s] EXCEPT !.next = NoBuf]
<1>2. x \in RegType /\ x.next = NoBuf /\ x.id = reg[s].id /\ x.name = reg[s].name
      /\ x.owner = reg[s].owner /\ x.active = reg[s].active /\ x.dump = reg[s].dump
  BY <1>1, NoBufId, RegNext
<1>3. reg' = [reg EXCEPT ![s] = x]
  OBVIOUS
<1> HIDE DEF x
<1> QED
  BY <1>1, <1>2, <1>3 DEF RegQuiet

LEMMA CopyInv ==
  ASSUME IInv, NEW a \in Apps, Copy(a)
  PROVE  IInv'
<1>1. at[a] = "copy" /\ JobOK(a)
  BY DEF Copy, IInv, JobsOK
<1>2. job[a].from \in Places /\ job[a].to \in Own(hnd[job[a].h].slot)
  BY <1>1 DEF JobOK
<1>3. buf[job[a].from].data \in Data
  BY <1>2, Types DEF BufType
<1>4. buf' \in [Places -> BufType] /\ \A q \in Places : buf'[q].id = buf[q].id
  BY <1>3, BufData DEF Copy
<1>5. KeepLinks /\ KeepIds /\ KeepDumps
  BY <1>4, QuietSame, QuietKeeps DEF Copy, userVars, askVars
<1>6. Moves(a, "activate", job[a])
  BY GotoMoves DEF Copy, Where
<1>7. JobOK(a)'
  <2>1. job[a].h \in Hs /\ UNCHANGED <<hnd, reg, job>>
    BY <1>1 DEF JobOK, Copy, userVars
  <2>2. at'[a] = "activate"
    BY <1>6, MovesFacts
  <2> QED
    BY <1>1, <1>2, <2>1, <2>2 DEF JobOK, OwnerSteps
<1>8. TypeOK'
  BY <1>4, Types, NextTypes DEF Copy, userVars, askVars
<1> QED
  BY <1>1, <1>5, <1>6, <1>7, <1>8, TaskStep DEF LateSteps

LEMMA NotifyInv ==
  ASSUME IInv, NEW a \in Apps, Notify(a)
  PROVE  IInv'
<1>1. at[a] = "notify" /\ UNCHANGED <<reg, buf, lastLoad, dmp, gnd, job>>
  BY DEF Notify, storeVars, askVars
<1>2. hnd' \in [Hs -> HndType] /\ KeepLinks
  <2>1. ASSUME NEW h \in Hs
        PROVE  hnd[h] \in HndType /\ hnd'[h] \in {hnd[h], [hnd[h] EXCEPT !.updated = TRUE]}
    BY Types DEF Notify
  <2>2. hnd' = [h \in Hs |-> hnd'[h]]
    BY DEF Notify
  <2>3. ASSUME NEW h \in Hs
        PROVE  /\ hnd'[h] \in HndType /\ hnd'[h].used = hnd[h].used /\ hnd'[h].app = hnd[h].app
               /\ hnd'[h].slot = hnd[h].slot /\ hnd'[h].reg = hnd[h].reg
    <3> DEFINE x == hnd[h]
               y == hnd'[h]
    <3>1. x \in HndType /\ y \in {x, [x EXCEPT !.updated = TRUE]}
      BY <2>1
    <3> HIDE DEF x, y
    <3>2. /\ y \in HndType /\ y.used = x.used /\ y.app = x.app /\ y.slot = x.slot /\ y.reg = x.reg
      BY <3>1, HndTold
    <3> QED
      BY <3>2 DEF x, y
  <2>4. hnd' \in [Hs -> HndType]
    BY <2>2, <2>3
  <2> QED
    BY <1>1, <2>3, <2>4 DEF KeepLinks
<1>3. PICK l \in {"pick", "discard"} : Goto(a, l)
  BY DEF Notify
<1>4. Moves(a, l, job[a])
  BY <1>1, <1>3, GotoMoves DEF Where
<1>5. JobOK(a)'
  BY <1>1, <1>2, <1>4, NextJob DEF OwnerSteps
<1>6. TypeOK'
  BY <1>2, Types, NextTypes DEF Notify, storeVars, askVars
<1> QED
  BY <1>1, <1>2, <1>4, <1>5, <1>6, StoreKept, TaskStep DEF LateSteps

LEMMA PickActiveInv ==
  ASSUME IInv, NEW a \in Apps, PickActive(a)
  PROVE  IInv'
<1> DEFINE p == Place(reg[HSlot(a)].active)
           j == [job[a] EXCEPT !.from = p]
<1>1. at[a] \in {"pick", "pickModified"} /\ UNCHANGED <<reg, hnd, buf, lastLoad, dmp, gnd>>
  BY DEF PickActive, userVars, storeVars, askVars
<1>2. HSlot(a) \in Slots /\ job[a].h \in Hs
  BY <1>1, JobFacts
<1>3. p \in SomePlace
  <2>1. reg[HSlot(a)].active \in BufIds
    BY <1>2, Types DEF RegType
  <2> QED
    BY <2>1, PlaceType, PlaceNow
<1>4. j \in JobType /\ j.h = job[a].h
  <2> HIDE DEF p
  <2> QED
    BY <1>3, Types DEF JobType
<1>5. KeepLinks
  BY <1>1 DEF KeepLinks
<1>6. PICK l \in {"save", "saveModified"} : Goto(a, l) /\ (l = "save" <=> at[a] = "pick")
  BY <1>1 DEF PickActive
<1>7. Moves(a, l, j)
  BY <1>4, <1>6 DEF PickActive, Moves, Goto, Where
<1>8. JobOK(a)'
  <2>1. at'[a] = l /\ job'[a].h = job[a].h
    BY <1>4, <1>7, MovesFacts
  <2>2. JobOK(a)
    BY DEF IInv, JobsOK
  <2> QED
    BY <1>1, <1>6, <2>1, <2>2 DEF JobOK, OwnerSteps
<1>9. TypeOK'
  BY Types, NextTypes DEF PickActive, userVars, storeVars, askVars
<1> QED
  BY <1>1, <1>4, <1>5, <1>6, <1>7, <1>8, <1>9, StoreKept, TaskStep DEF LateSteps

LEMMA SaveInv ==
  ASSUME IInv, NEW a \in Apps, Save(a)
  PROVE  IInv'
<1> DEFINE n == reg[HSlot(a)].name
<1>1. at[a] \in {"save", "saveModified"} /\ UNCHANGED <<reg, hnd, buf, lastLoad, dmp, gnd>>
  BY DEF Save, userVars, askVars
<1>2. cds' \in [Critical -> CdsType]
  <2>1. CASE job[a].from = NoBuf
    BY <2>1, Types DEF Save
  <2>2. CASE job[a].from # NoBuf
    <3>1. buf[job[a].from].data \in Data
      BY <2>2, Types DEF JobType, SomePlace, BufType
    <3> DEFINE b == reg[HSlot(a)].active # NoBuf
    <3>2. cds' = [cds EXCEPT ![n].data = buf[job[a].from].data, ![n].loaded = b] /\ b \in BOOLEAN
      BY <2>2 DEF Save
    <3>3. cds \in [Critical -> CdsType]
      BY Types
    <3> HIDE DEF b, n
    <3>4. CASE n \in Critical
      BY <3>1, <3>2, <3>3, <3>4 DEF CdsType
    <3>5. CASE n \notin Critical
      BY <3>2, <3>3, <3>5 DEF CdsType
    <3> QED
      BY <3>4, <3>5
  <2> QED
    BY <2>1, <2>2
<1>3. KeepLinks
  BY <1>1 DEF KeepLinks
<1>4. CASE at[a] = "save"
  <2>1. Moves(a, "discard", job[a])
    BY <1>4, GotoMoves DEF Save, Where
  <2>2. JobOK(a)'
    BY <1>3, <1>4, <2>1, NextJob DEF OwnerSteps
  <2>3. TypeOK'
    BY <1>2, <1>4, Types, NextTypes DEF Save, userVars, askVars
  <2> QED
    BY <1>1, <1>3, <2>1, <2>2, <2>3, StoreKept, TaskStep DEF LateSteps
<1>5. CASE at[a] # "save"
  <2>1. Moves(a, "idle", NoJob) /\ JobOK(a)' /\ lock' \in Apps \cup {None}
    BY <1>5, ReturnMoves DEF Save
  <2>2. TypeOK'
    BY <1>2, <2>1, Types, NextTypes DEF Save, userVars, askVars
  <2> QED
    BY <1>1, <1>3, <1>5, <2>1, <2>2, StoreKept, TaskStep DEF LateSteps
<1> QED
  BY <1>4, <1>5

LEMMA DiscardInv ==
  ASSUME IInv, NEW a \in Apps, Discard(a)
  PROVE  IInv'
<1> DEFINE s == HSlot(a)
<1>1. s \in Slots /\ s = hnd[job[a].h].slot
  BY JobFacts DEF Discard
<1>2. RegQuiet /\ reg'[s].next = NoBuf
  BY <1>1, QuietNext DEF Discard
<1>3. buf' \in [Places -> BufType] /\ \A p \in Places : buf'[p].id \in {buf[p].id, NoBuf}
  BY <1>1, DiscardedFacts DEF Discard
<1>4. KeepLinks /\ KeepIds /\ KeepDumps
  BY <1>2, <1>3, QuietKeeps DEF Discard, userVars, askVars
<1>5. Moves(a, "idle", NoJob) /\ JobOK(a)' /\ lock' \in Apps \cup {None}
  BY ReturnMoves DEF Discard
<1>6. TypeOK'
  BY <1>2, <1>3, <1>5, Types, NextTypes DEF Discard, userVars, askVars, RegQuiet
<1> QED
  BY <1>1, <1>2, <1>4, <1>5, <1>6, TaskStep

LEMMA ValidateInv ==
  ASSUME IInv, NEW a \in Apps, NEW h \in Mine(a), Validate(a, h)
  PROVE  IInv'
<1> DEFINE s     == hnd[h].slot
           inact == reg[s].vInact # 0 /\ val[reg[s].vInact] # "free"
           v     == IF inact THEN reg[s].vInact ELSE reg[s].vAct
           p     == IF inact THEN InProgress(s) ELSE Place(reg[s].active)
           j     == [job[a] EXCEPT !.h = h, !.v = v, !.to = p]
<1>1. /\ h \in Hs /\ hnd[h].used /\ hnd[h].app = a /\ s \in Slots
      /\ reg[s].owner = a /\ at[a] \in {"idle", "validate"}
      /\ UNCHANGED <<hnd, buf, lastLoad, dmp, gnd>>
  BY MineFacts DEF Validate, Begin, userVars, storeVars, askVars
<1>2. v \in 0 .. MaxValidations /\ p \in SomePlace
  <2>1. /\ reg[s].vInact \in 0 .. MaxValidations /\ reg[s].vAct \in 0 .. MaxValidations
        /\ reg[s].active \in BufIds
    BY <1>1, Types DEF RegType
  <2>2. Place(reg[s].active) \in SomePlace /\ InProgress(s) \in SomePlace
    BY <1>1, <2>1, PlaceNow, PlaceType, LoadFacts
  <2> QED
    BY <2>1, <2>2
<1>3. RegQuiet
  <2> DEFINE r == IF inact THEN Unstale(s) ELSE reg
             x == [r[s] EXCEPT !.vInact = 0, !.vAct = IF inact THEN r[s].vAct ELSE 0]
  <2>1. r \in [Slots -> RegType]
    BY <1>1, UnstaleFacts, Types
  <2>2. /\ \A t \in Slots : /\ r[t].id = reg[t].id /\ r[t].name = reg[t].name /\ r[t].owner = reg[t].owner
                            /\ r[t].active = reg[t].active /\ r[t].next \in {reg[t].next, NoBuf}
                            /\ r[t].dump = reg[t].dump
    BY <1>1, UnstaleFacts
  <2>3. x \in RegType /\ x.id = r[s].id /\ x.name = r[s].name /\ x.owner = r[s].owner
        /\ x.active = r[s].active /\ x.next = r[s].next /\ x.dump = r[s].dump
    <3> DEFINE z == r[s]
               w == IF inact THEN r[s].vAct ELSE 0
    <3>1. z \in RegType /\ w \in 0 .. MaxValidations /\ 0 \in 0 .. MaxValidations
      BY <1>1, <2>1, Constants DEF RegType
    <3>2. x = [z EXCEPT !.vInact = 0, !.vAct = w]
      OBVIOUS
    <3> HIDE DEF r, z, w, x
    <3>3. /\ x \in RegType /\ x.id = z.id /\ x.name = z.name /\ x.owner = z.owner
          /\ x.active = z.active /\ x.next = z.next /\ x.dump = z.dump
      BY <3>1, <3>2 DEF RegType
    <3> QED
      BY <3>3 DEF z
  <2>4. reg' = [r EXCEPT ![s] = x]
    <3>1. CASE inact
      <4>1. reg' = [Unstale(s) EXCEPT ![s].vInact = 0]
        BY <3>1 DEF Validate
      <4>2. r = Unstale(s) /\ x = [r[s] EXCEPT !.vInact = 0, !.vAct = r[s].vAct]
        BY <3>1
      <4>3. r[s] \in RegType
        BY <1>1, <2>1
      <4> HIDE DEF r
      <4>4. x = [r[s] EXCEPT !.vInact = 0]
        BY <4>2, <4>3 DEF RegType
      <4> HIDE DEF x
      <4> QED
        BY <4>1, <4>2, <4>4
    <3>2. CASE ~inact
      <4>1. reg' = [reg EXCEPT ![s].vInact = 0, ![s].vAct = 0]
        BY <3>2 DEF Validate
      <4>2. r = reg /\ x = [reg[s] EXCEPT !.vInact = 0, !.vAct = 0]
        BY <3>2
      <4>3. reg \in [Slots -> RegType]
        BY Types
      <4>4. reg' = [reg EXCEPT ![s] = [reg[s] EXCEPT !.vInact = 0, !.vAct = 0]]
        BY <1>1, <4>1, <4>3
      <4> HIDE DEF r, x
      <4> QED
        BY <4>2, <4>4
    <3> QED
      BY <3>1, <3>2
  <2> HIDE DEF r, x
  <2> QED
    BY <1>1, <2>1, <2>2, <2>3, <2>4 DEF RegQuiet
<1>4. KeepLinks /\ KeepIds /\ KeepDumps
  BY <1>1, <1>3, QuietKeeps
<1>5. TypeOK'
  BY <1>3, Types, NextTypes DEF Validate, userVars, storeVars, askVars, RegQuiet
<1> HIDE DEF v, p, inact
<1>6. CASE Goto(a, "idle") /\ job' = [job EXCEPT ![a] = NoJob]
  BY <1>1, <1>4, <1>5, <1>6, EndMoves, TaskStep DEF LateSteps
<1>7. CASE Goto(a, "function") /\ job' = [job EXCEPT ![a] = j]
  <2>1. j \in JobType /\ j.h = h
    <3>1. job[a] \in JobType /\ h \in Hs
      BY <1>1, Types
    <3> QED
      BY <1>2, <3>1 DEF JobType
  <2>2. Moves(a, "function", j)
    BY <1>7, <2>1 DEF Moves, Goto, Where
  <2> HIDE DEF j
  <2>3. JobOK(a)'
    <3>1. at'[a] = "function" /\ job'[a].h = h
      BY <2>1, <2>2, MovesFacts
    <3> QED
      BY <1>1, <1>4, <3>1 DEF JobOK, KeepLinks
  <2> QED
    BY <1>1, <1>4, <1>5, <2>2, <2>3, TaskStep DEF LateSteps
<1> QED
  BY <1>6, <1>7 DEF Validate, v, p, inact

LEMMA ValidateFunctionInv ==
  ASSUME IInv, NEW a \in Apps, ValidateFunction(a)
  PROVE  IInv'
<1> DEFINE p == job[a].to
<1>1. at[a] = "function" /\ UNCHANGED <<reg, hnd, lastLoad, dmp, gnd>>
  BY DEF ValidateFunction, userVars
<1>2. buf' \in [Places -> BufType] /\ \A q \in Places : buf'[q].id = buf[q].id
  <2>1. CASE buf' = [buf EXCEPT ![p].valid = TRUE]
    BY <2>1, BufMarked
  <2>2. CASE buf' = buf
    BY <2>2, Types
  <2> QED
    BY <2>1, <2>2 DEF ValidateFunction
<1>3. val' \in [1 .. MaxValidations -> {"free", "pending", "performed"}]
  BY Types DEF ValidateFunction
<1>4. KeepLinks /\ KeepIds /\ KeepDumps
  BY <1>1, <1>2, QuietSame, QuietKeeps
<1>5. Moves(a, "idle", NoJob) /\ JobOK(a)'
  BY EndMoves DEF ValidateFunction
<1>6. TypeOK'
  BY <1>2, <1>3, Types, NextTypes DEF ValidateFunction, userVars
<1> QED
  BY <1>1, <1>4, <1>5, <1>6, TaskStep DEF LateSteps

\* The buffer and the block of a dump that is made for another task to write.
LEMMA SnapshotFacts ==
  ASSUME IInv, NEW d \in 1 .. LastDump, Snapshot(d, dmp[d].source, dmp[d].buf)
  PROVE  /\ buf' \in [Places -> BufType] /\ \A q \in Places : buf'[q].id = buf[q].id
         /\ dmp' \in [1 .. LastDump -> DmpType]
         /\ dmp' = [dmp EXCEPT ![d] = [state |-> "performed", source |-> NoBuf, buf |-> dmp[d].buf]]
<1>1. dmp[d].source \in BufIds /\ dmp[d].buf \in SomePlace /\ dmp[d].source # NoBuf
  BY Types DEF DmpType, Snapshot, IsMatch
<1>2. buf[Place(dmp[d].source)].data \in Data
  BY <1>1, PlaceType, PlaceNow, Types DEF BufType
<1>3. buf' \in [Places -> BufType] /\ \A q \in Places : buf'[q].id = buf[q].id
  BY <1>2, BufData DEF Snapshot
<1>4. dmp' \in [1 .. LastDump -> DmpType]
  BY <1>1, NoBufId, Types DEF Snapshot, DmpType
<1> QED
  BY <1>3, <1>4 DEF Snapshot

LEMMA LiveFacts ==
  ASSUME IInv, NEW d \in 0 .. LastDump, Live(d)
  PROVE  d \in 1 .. LastDump /\ dmp[d].state \in {"taken", "pending", "performed"}
BY Constants DEF Live

LEMMA RegDump ==
  ASSUME NEW x \in RegType, NEW d \in 0 .. LastDump
  PROVE  /\ [x EXCEPT !.dump = d] \in RegType /\ [x EXCEPT !.dump = d].dump = d
         /\ \A y \in {[x EXCEPT !.dump = d]} : /\ y.id = x.id /\ y.name = x.name /\ y.owner = x.owner
                                               /\ y.active = x.active /\ y.next = x.next
BY DEF RegType

LEMMA DumpToBufferInv ==
  ASSUME IInv, NEW a \in Apps, NEW h \in Mine(a), DumpToBuffer(a, h)
  PROVE  IInv'
<1> DEFINE s == hnd[h].slot
           d == reg[s].dump
<1>1. h \in Hs /\ s \in Slots /\ at[a] \in {"idle", "dump"} /\ UNCHANGED <<hnd, lastLoad, gnd>>
  BY MineFacts DEF DumpToBuffer, Begin, userVars
<1>2. d \in 0 .. LastDump
  BY <1>1, Types DEF RegType
<1>3. RegQuiet
  <2>1. CASE reg' = [reg EXCEPT ![s].dump = 0]
    <3> DEFINE x == [reg[s] EXCEPT !.dump = 0]
    <3>1. reg \in [Slots -> RegType] /\ reg' = [reg EXCEPT ![s] = x] /\ 0 \in 0 .. LastDump
      BY <2>1, Types, Constants
    <3>2. x \in RegType /\ x.dump = 0 /\ x.id = reg[s].id /\ x.name = reg[s].name
          /\ x.owner = reg[s].owner /\ x.active = reg[s].active /\ x.next = reg[s].next
      BY <1>1, <3>1, RegDump
    <3> HIDE DEF x
    <3> QED
      BY <1>1, <3>1, <3>2 DEF RegQuiet
  <2> QED
    BY <2>1, QuietSame DEF DumpToBuffer
<1>4. /\ buf' \in [Places -> BufType] /\ \A q \in Places : buf'[q].id = buf[q].id
      /\ dmp' \in [1 .. LastDump -> DmpType]
      /\ \A e \in 1 .. LastDump : dmp'[e].buf = dmp[e].buf /\ (dmp'[e].state = "unused" <=> dmp[e].state = "unused")
  <2>1. CASE UNCHANGED <<buf, dmp>>
    BY <2>1, Types
  <2>2. CASE Live(d) /\ Snapshot(d, dmp[d].source, dmp[d].buf)
    <3>1. d \in 1 .. LastDump /\ dmp[d].state # "unused"
      BY <1>2, <2>2, LiveFacts
    <3>2. /\ buf' \in [Places -> BufType] /\ \A q \in Places : buf'[q].id = buf[q].id
          /\ dmp' \in [1 .. LastDump -> DmpType]
          /\ dmp' = [dmp EXCEPT ![d] = [state |-> "performed", source |-> NoBuf, buf |-> dmp[d].buf]]
      BY <2>2, <3>1, SnapshotFacts
    <3>3. dmp \in [1 .. LastDump -> DmpType]
      BY Types
    <3> HIDE DEF d
    <3> QED
      BY <3>1, <3>2, <3>3
  <2> QED
    BY <2>1, <2>2 DEF DumpToBuffer
<1>5. KeepLinks /\ KeepIds /\ KeepDumps
  BY <1>1, <1>3, <1>4 DEF RegQuiet, KeepLinks, KeepIds, KeepDumps
<1>6. Moves(a, "idle", NoJob) /\ JobOK(a)'
  BY EndMoves DEF DumpToBuffer
<1>7. TypeOK'
  BY <1>3, <1>4, Types, NextTypes DEF DumpToBuffer, userVars, RegQuiet
<1> QED
  BY <1>1, <1>5, <1>6, <1>7, TaskStep DEF LateSteps

LEMMA ManageInv ==
  ASSUME IInv, NEW a \in Apps, NEW h \in Mine(a), Manage(a, h)
  PROVE  IInv'
<1> DEFINE j == [job[a] EXCEPT !.h = h]
<1>1. /\ h \in Hs /\ hnd[h].used /\ hnd[h].app = a /\ hnd[h].slot \in Slots
      /\ reg[hnd[h].slot].owner = a /\ at[a] = "idle"
      /\ UNCHANGED <<reg, lastReg, hnd, lastHnd, seen, buf, lastLoad, cds, dmp, val, lock, gnd>>
  BY MineFacts DEF Manage, Begin, userVars, storeVars, askVars
<1>2. PICK l \in {"validate", "update", "dump"} : Goto(a, l)
  BY DEF Manage
<1>3. j \in JobType /\ j.h = h /\ job' = [job EXCEPT ![a] = j]
  BY <1>1, JobH, Types DEF Manage
<1> HIDE DEF j
<1>4. Moves(a, l, j)
  BY <1>2, <1>3 DEF Moves, Goto, Where
<1>5. KeepLinks
  BY <1>1 DEF KeepLinks
<1>6. JobOK(a)'
  <2>1. at'[a] = l /\ job'[a].h = h
    BY <1>3, <1>4, MovesFacts
  <2> QED
    BY <1>1, <2>1 DEF JobOK
<1>7. TypeOK'
  BY <1>1, Types, NextTypes
<1> QED
  BY <1>1, <1>4, <1>5, <1>6, <1>7, StoreKept, TaskStep DEF LateSteps

LEMMA CleanUpEndInv ==
  ASSUME IInv, NEW a \in Apps, CleanUpEnd(a)
  PROVE  IInv'
<1>1. /\ at[a] = "cleanup" /\ Goto(a, "idle")
      /\ UNCHANGED <<reg, lastReg, hnd, lastHnd, seen, buf, lastLoad, cds, dmp, val, lock, gnd, job>>
  BY DEF CleanUpEnd, userVars, storeVars, askVars
<1>2. Moves(a, "idle", job[a])
  BY <1>1, GotoMoves DEF Where
<1>3. KeepLinks
  BY <1>1 DEF KeepLinks
<1>4. JobOK(a)'
  BY <1>2, MovesFacts, IdleJob
<1>5. TypeOK'
  BY <1>1, Types, NextTypes
<1> QED
  BY <1>1, <1>2, <1>3, <1>4, <1>5, StoreKept, TaskStep DEF LateSteps

LEMMA ExitInv ==
  ASSUME IInv, NEW a \in Apps, Exit(a)
  PROVE  IInv'
<1>1. /\ at[a] = "idle" /\ Goto(a, "cleanup")
      /\ UNCHANGED <<reg, lastReg, hnd, lastHnd, seen, buf, lastLoad, cds, val, lock, gnd, job>>
  BY DEF Exit, Begin, userVars, storeVars
<1>2. Moves(a, "cleanup", job[a])
  BY <1>1, GotoMoves DEF Where
<1>3. ASSUME NEW d \in 1 .. LastDump
      PROVE  /\ dmp'[d] \in DmpType /\ dmp'[d].buf = dmp[d].buf
             /\ dmp'[d].state = "unused" <=> dmp[d].state = "unused"
  <2>1. dmp[d] \in DmpType /\ DOMAIN dmp = 1 .. LastDump
    BY Types
  <2>2. dmp'[d] = dmp[d] \/ (Live(d) /\ dmp'[d] = [dmp[d] EXCEPT !.state = "free"])
    BY <2>1 DEF Exit
  <2> QED
    BY <2>1, <2>2 DEF DmpType, Live
<1>4. dmp' \in [1 .. LastDump -> DmpType]
  <2>1. dmp' = [d \in 1 .. LastDump |-> dmp'[d]]
    BY Types DEF Exit
  <2> QED
    BY <1>3, <2>1
<1>5. KeepLinks /\ KeepIds /\ KeepDumps
  BY <1>1, <1>3 DEF KeepLinks, KeepIds, KeepDumps
<1>6. JobOK(a)'
  BY <1>2, MovesFacts, IdleJob
<1>7. TypeOK'
  BY <1>1, <1>4, Types, NextTypes
<1> QED
  BY <1>1, <1>2, <1>5, <1>6, <1>7, TaskStep DEF LateSteps

LEMMA ModifiedInv ==
  ASSUME IInv, NEW a \in Apps, NEW h \in Mine(a), NEW d \in Images, Modified(a, h, d)
  PROVE  IInv'
<1> DEFINE j == [job[a] EXCEPT !.h = h]
<1>1. /\ h \in Hs /\ hnd[h].used /\ hnd[h].app = a /\ hnd[h].slot \in Slots /\ at[a] = "idle"
      /\ UNCHANGED <<reg, lastReg, lastHnd, lastLoad, cds, dmp, val, lock, gnd>>
  BY MineFacts DEF Modified, Begin, askVars
<1>2. buf' \in [Places -> BufType] /\ \A q \in Places : buf'[q].id = buf[q].id
  BY BufData DEF Modified, Data
<1>3. seen' \in [Hs -> Data]
  BY Types DEF Modified, Data
<1>4. hnd' \in [Hs -> HndType] /\ KeepLinks
  <2>1. ASSUME NEW g \in Hs
        PROVE  /\ hnd'[g] \in HndType /\ hnd'[g].used = hnd[g].used /\ hnd'[g].app = hnd[g].app
               /\ hnd'[g].slot = hnd[g].slot /\ hnd'[g].reg = hnd[g].reg
    <3> DEFINE x == hnd[g]
               y == hnd'[g]
    <3>1. x \in HndType /\ y \in {x, [x EXCEPT !.updated = TRUE]}
      BY Types DEF Modified
    <3> HIDE DEF x, y
    <3>2. /\ y \in HndType /\ y.used = x.used /\ y.app = x.app /\ y.slot = x.slot /\ y.reg = x.reg
      BY <3>1, HndTold
    <3> QED
      BY <3>2 DEF x, y
  <2>2. hnd' = [g \in Hs |-> hnd'[g]]
    BY DEF Modified
  <2>3. hnd' \in [Hs -> HndType]
    BY <2>1, <2>2
  <2> QED
    BY <1>1, <2>1, <2>3 DEF KeepLinks
<1>5. KeepIds /\ KeepDumps
  BY <1>1, <1>2 DEF KeepIds, KeepDumps
<1>6. TypeOK'
  BY <1>1, <1>2, <1>3, <1>4, Types, NextTypes
<1>7. CASE Goto(a, "pickModified") /\ job' = [job EXCEPT ![a].h = h]
  <2>1. j \in JobType /\ j.h = h /\ job' = [job EXCEPT ![a] = j]
    BY <1>1, <1>7, JobH, Types
  <2> HIDE DEF j
  <2>2. Moves(a, "pickModified", j)
    BY <1>7, <2>1 DEF Moves, Goto, Where
  <2>3. JobOK(a)'
    <3>1. at'[a] = "pickModified" /\ job'[a].h = h
      BY <2>1, <2>2, MovesFacts
    <3> QED
      BY <1>1, <1>4, <3>1 DEF JobOK, OwnerSteps, KeepLinks
  <2> QED
    BY <1>1, <1>4, <1>5, <1>6, <2>2, <2>3, TaskStep DEF LateSteps
<1>8. CASE UNCHANGED <<at, job>>
  <2>1. Moves(a, "idle", job[a]) /\ JobOK(a)'
    BY <1>1, <1>8, IdleMoves, IdleJob
  <2> QED
    BY <1>1, <1>4, <1>5, <1>6, <2>1, TaskStep DEF LateSteps
<1> QED
  BY <1>7, <1>8 DEF Modified

LEMMA LeastNat ==
  ASSUME NEW S \in SUBSET Nat, S # {}
  PROVE  \E x \in S : \A y \in S : x <= y
<1>1. PICK x \in S : \A y \in S : <<y, x>> \notin OpToRel(<, Nat)
  BY WFMin, NatLessThanWellFounded
<1>2. \A y \in S : ~(y < x)
  BY <1>1, Zenon DEF OpToRel
<1>3. \A y \in S : x <= y
  BY <1>2
<1> QED
  BY <1>3

LEMMA SharedFacts ==
  ASSUME IInv, FreeShared # {}
  PROVE  /\ NextShared \in Nat /\ NextShared > lastLoad /\ NextShared <= lastLoad + MaxLoads
         /\ buf[Place(<<-1, NextShared>>)].id = NoBuf
<1>1. lastLoad \in Nat
  BY Types
<1>2. FreeShared \in SUBSET Nat
  BY <1>1, Constants DEF FreeShared
<1>3. NextShared \in FreeShared
  BY <1>2, LeastNat DEF NextShared
<1> QED
  BY <1>1, <1>2, <1>3, Constants DEF FreeShared

LEMMA RegFacts ==
  ASSUME IInv, FreeRegs # {}
  PROVE  /\ NextReg \in Nat /\ NextReg > 0 /\ NextReg % MaxTables \in Slots
         /\ reg[NextReg % MaxTables].id = 0
<1>1. lastReg \in Nat
  BY Types
<1>2. FreeRegs \in SUBSET Nat
  BY <1>1, Constants DEF FreeRegs
<1>3. NextReg \in FreeRegs
  BY <1>2, LeastNat DEF NextReg
<1>4. NextReg \in Nat /\ NextReg > 0
  BY <1>1, <1>3, Constants DEF FreeRegs
<1>5. NextReg % MaxTables \in Slots
  BY <1>4, Constants DEF Slots
<1> QED
  BY <1>3, <1>4, <1>5 DEF FreeRegs, Used

LEMMA DumpRoom ==
  ASSUME NEW d \in 1 .. LastDump
  PROVE  /\ MaxLoads * (d - 1) + MaxLoads = MaxLoads * d /\ MaxLoads * (d - 1) \in Nat
         /\ MaxLoads * d <= MaxLoads * LastDump
         /\ \A e \in 1 .. LastDump : d < e => MaxLoads * d <= MaxLoads * (e - 1)
<1>1. \A x, y \in Nat : x <= y => MaxLoads * x <= MaxLoads * y
  BY Constants
<1>2. d - 1 \in Nat /\ d \in Nat /\ LastDump \in Nat /\ d <= LastDump
  BY Constants
<1>3. MaxLoads * (d - 1) + MaxLoads = MaxLoads * d /\ MaxLoads * (d - 1) \in Nat
  BY <1>2, Constants
<1>4. \A e \in 1 .. LastDump : d < e => e - 1 \in Nat /\ d <= e - 1
  BY <1>2
<1> QED
  BY <1>1, <1>2, <1>3, <1>4

\* A buffer that is taken for an identifier i stands where i points.
LEMMA IdsGrow ==
  ASSUME IInv, TypeOK', lastLoad' \in Nat, lastLoad' >= lastLoad,
         \A t \in Slots : reg'[t].name = reg[t].name /\ reg'[t].active = reg[t].active,
         NEW s \in Slots, NEW i \in BufIds, i # NoBuf, i[1] \in {s, -1}, i[1] = -1 => i[2] <= lastLoad',
         \A t \in Slots : reg'[t].next \in {reg[t].next, NoBuf} \/ (t = s /\ reg'[t].next = i),
         \A q \in Places : buf'[q].id \in {buf[q].id, NoBuf} \/ (buf'[q].id = i /\ q = PlaceIn(reg, i))
  PROVE  IdsOK'
<1>1. \A id \in BufIds : PlaceIn(reg', id) = PlaceIn(reg, id)
  <2> TAKE id \in BufIds
  <2>1. id # NoBuf /\ id[1] # -1 => id[1] \in Slots
    BY IdForms
  <2> QED
    BY <2>1, PlaceSame
<1>2. IdsOK
  BY DEF IInv
<1>3. ASSUME NEW t \in Slots
      PROVE  /\ reg'[t].active # NoBuf => reg'[t].active[1] = t
             /\ reg'[t].next # NoBuf => reg'[t].next[1] \in {t, -1}
  BY <1>2 DEF IdsOK
<1>4. ASSUME NEW q \in Places, buf'[q].id # NoBuf
      PROVE  PlaceIn(reg', buf'[q].id) = q
  <2>1. CASE buf'[q].id = buf[q].id
    <3>1. buf[q].id \in BufIds
      BY Types DEF BufType
    <3> QED
      BY <1>1, <1>2, <1>4, <2>1, <3>1 DEF IdsOK
  <2>2. CASE buf'[q].id = i /\ q = PlaceIn(reg, i)
    BY <1>1, <2>2
  <2> QED
    BY <1>4, <2>1, <2>2
<1>5. ASSUME NEW q \in Shared, buf'[q].id # NoBuf
      PROVE  buf'[q].id[2] <= lastLoad'
  <2>0. q \in Places
    BY SharedPlaces
  <2>1. CASE buf'[q].id = buf[q].id
    <3>1. buf[q].id \in BufIds /\ lastLoad \in Nat
      BY <2>0, Types DEF BufType
    <3>2. buf[q].id[2] \in Nat /\ buf[q].id[2] <= lastLoad
      BY <1>2, <1>5, <2>1, <3>1, IdForms, Constants DEF IdsOK
    <3> QED
      BY <2>1, <3>1, <3>2
  <2>2. CASE buf'[q].id = i /\ q = PlaceIn(reg, i)
    <3>1. i[1] = -1
      <4>1. SUFFICES ASSUME i[1] # -1 PROVE FALSE
        OBVIOUS
      <4>2. q \in Own(i[1]) /\ i[1] \in Slots
        BY <2>2, <4>1, PlaceType
      <4>3. Own(i[1]) \cap Shared = {}
        BY <4>2, OwnPlaces
      <4> QED
        BY <4>2, <4>3
    <3> QED
      BY <2>2, <3>1
  <2> QED
    BY <1>5, <2>0, <2>1, <2>2
<1> QED
  BY <1>3, <1>4, <1>5 DEF IdsOK

LEMMA NoCommand == NoCmd \in CmdType /\ NoCmd.cmd = None /\ None # "prepare"
BY Constants, NoBufId DEF NoCmd, CmdType, Slots, CmdSteps

LEMMA QuietCommand ==
  ASSUME IInv, UNCHANGED <<at, job, hnd, lastLoad>>, RegQuiet, TypeOK',
         \A p \in Places : buf'[p].id \in {buf[p].id, NoBuf},
         gnd' \in CmdType, gnd'.cmd # "prepare",
         \A d \in 1 .. LastDump : /\ dmp'[d].buf = dmp[d].buf
                                  /\ dmp'[d].state = "unused" <=> dmp[d].state = "unused"
  PROVE  IInv'
<1>1. KeepLinks /\ KeepIds
  BY DEF RegQuiet, KeepLinks, KeepIds
<1>2. DumpsOK' /\ LoadsBounded'
  BY QuietDumps DEF RegQuiet
<1> QED
  BY <1>1, <1>2, CommandStep DEF CommandKeeps

LEMMA FindTableInv ==
  ASSUME IInv, NEW c \in {"load", "abort", "validate"}, NEW n \in Names, FindTable(c, n)
  PROVE  IInv'
<1>1. UNCHANGED <<reg, lastReg, hnd, lastHnd, seen, buf, lastLoad, cds, dmp, val, lock, at, job>>
  BY DEF FindTable, userVars, storeVars, askVars
<1>2. gnd' \in CmdType /\ gnd'.cmd # "prepare"
  <2>1. PICK s \in Slots : gnd' = [NoCmd EXCEPT !.cmd = c, !.slot = s]
    BY DEF FindTable, Named
  <2> QED
    BY <2>1, NoCommand DEF CmdType, CmdSteps
<1>3. TypeOK'
  BY <1>1, Types, NextTypes
<1> QED
  BY <1>1, <1>2, <1>3, QuietSame, QuietCommand

LEMMA UnstaleQuiet ==
  ASSUME IInv, NEW s \in Slots, reg' = Unstale(s)
  PROVE  RegQuiet
BY UnstaleFacts DEF RegQuiet

LEMMA LoadCmdInv ==
  ASSUME IInv, LoadCmd
  PROVE  IInv'
<1> DEFINE s == gnd.slot
<1>1. s \in Slots /\ UNCHANGED <<lastReg, hnd, lastHnd, seen, buf, lastLoad, cds, dmp, val, lock, at, job>>
  BY Types DEF LoadCmd, userVars, storeVars, askVars, CmdType
<1>2. RegQuiet
  BY <1>1, UnstaleQuiet DEF LoadCmd
<1>3. gnd' \in CmdType /\ gnd'.cmd # "prepare"
  <2> DEFINE p == InProgress(s)
  <2>1. p \in SomePlace
    BY <1>1, LoadFacts
  <2>2. gnd' = NoCmd \/ gnd' = [gnd EXCEPT !.cmd = "read", !.at = p]
    BY DEF LoadCmd
  <2>3. gnd \in CmdType
    BY Types
  <2> HIDE DEF p
  <2>4. CASE gnd' = NoCmd
    BY <2>4, NoCommand
  <2>5. CASE gnd' = [gnd EXCEPT !.cmd = "read", !.at = p]
    BY <2>1, <2>3, <2>5 DEF CmdType, CmdSteps
  <2> QED
    BY <2>2, <2>4, <2>5
<1>4. TypeOK'
  BY <1>1, <1>2, Types, NextTypes DEF RegQuiet
<1> QED
  BY <1>1, <1>2, <1>3, <1>4, QuietCommand

LEMMA ReadFileInv ==
  ASSUME IInv, NEW d \in Images, ReadFile(d)
  PROVE  IInv'
<1> DEFINE s == gnd.slot
           p == InProgress(s)
           q == gnd.at
           v == reg[s].name \notin Checked
           b == [buf EXCEPT ![q].data = d]
<1>1. s \in Slots /\ gnd' = NoCmd
      /\ UNCHANGED <<lastReg, hnd, lastHnd, seen, lastLoad, cds, dmp, val, lock, at, job>>
  BY Types DEF ReadFile, userVars, askVars, CmdType
<1>2. RegQuiet
  BY <1>1, UnstaleQuiet, QuietSame DEF ReadFile
<1>3. b \in [Places -> BufType] /\ \A r \in Places : b[r].id = buf[r].id
  <2>1. d \in Data /\ buf \in [Places -> BufType]
    BY Types DEF Data
  <2> HIDE DEF q
  <2> QED
    BY <2>1 DEF BufType
<1>4. buf' \in [Places -> BufType] /\ \A r \in Places : buf'[r].id = buf[r].id
  <2>1. CASE buf' = b
    BY <1>3, <2>1
  <2>2. CASE buf' = [b EXCEPT ![p].valid = v]
    <3>1. v \in BOOLEAN
      OBVIOUS
    <3> HIDE DEF b, p, v
    <3> QED
      BY <1>3, <2>2, <3>1 DEF BufType
  <2> QED
    BY <2>1, <2>2 DEF ReadFile
<1>5. TypeOK'
  BY <1>1, <1>2, <1>4, Types, NextTypes DEF RegQuiet
<1> QED
  BY <1>1, <1>2, <1>4, <1>5, NoCommand, QuietCommand

LEMMA AbortLoadCmdInv ==
  ASSUME IInv, AbortLoadCmd
  PROVE  IInv'
<1> DEFINE s == gnd.slot
<1>1. s \in Slots /\ gnd' = NoCmd
      /\ UNCHANGED <<lastReg, hnd, lastHnd, seen, lastLoad, cds, dmp, val, lock, at, job>>
  BY Types DEF AbortLoadCmd, userVars, askVars, CmdType
<1>2. RegQuiet
  BY <1>1, QuietNext, QuietSame DEF AbortLoadCmd
<1>3. buf' \in [Places -> BufType] /\ \A r \in Places : buf'[r].id \in {buf[r].id, NoBuf}
  BY <1>1, DiscardedFacts, Types DEF AbortLoadCmd
<1>4. TypeOK'
  BY <1>1, <1>2, <1>3, Types, NextTypes DEF RegQuiet
<1> QED
  BY <1>1, <1>2, <1>3, <1>4, NoCommand, QuietCommand

LEMMA ValidateCmdInv ==
  ASSUME IInv, NEW active \in BOOLEAN, ValidateCmd(active)
  PROVE  IInv'
<1> DEFINE s == gnd.slot
           r == IF active THEN reg ELSE Unstale(s)
<1>1. s \in Slots /\ gnd' = NoCmd
      /\ UNCHANGED <<lastReg, hnd, lastHnd, seen, buf, lastLoad, cds, dmp, lock, at, job>>
  BY Types DEF ValidateCmd, userVars, storeVars, CmdType
<1>2. r \in [Slots -> RegType]
      /\ \A t \in Slots : /\ r[t].id = reg[t].id /\ r[t].name = reg[t].name /\ r[t].owner = reg[t].owner
                          /\ r[t].active = reg[t].active /\ r[t].next \in {reg[t].next, NoBuf}
                          /\ r[t].dump = reg[t].dump
  BY <1>1, UnstaleFacts, Types
<1>3. DOMAIN val = 1 .. MaxValidations
  BY Types
<1>4. \/ reg' = r
      \/ \E v \in 1 .. MaxValidations : reg' = [r EXCEPT ![s].vAct = v] \/ reg' = [r EXCEPT ![s].vInact = v]
  BY <1>3 DEF ValidateCmd
<1>5. val' \in [1 .. MaxValidations -> {"free", "pending", "performed"}]
  BY <1>3, Types DEF ValidateCmd
<1> HIDE DEF r
<1>6. RegQuiet
  <2>1. CASE reg' = r
    BY <1>2, <2>1 DEF RegQuiet
  <2>2. ASSUME NEW v \in 1 .. MaxValidations,
               reg' = [r EXCEPT ![s].vAct = v] \/ reg' = [r EXCEPT ![s].vInact = v]
        PROVE  RegQuiet
    <3> DEFINE z == r[s]
    <3>1. z \in RegType /\ v \in 0 .. MaxValidations
      BY <1>1, <1>2, <2>2, Constants
    <3>2. PICK x \in {[z EXCEPT !.vAct = v], [z EXCEPT !.vInact = v]} : reg' = [r EXCEPT ![s] = x]
      BY <1>1, <1>2, <2>2
    <3> HIDE DEF z
    <3>3. /\ x \in RegType /\ x.id = z.id /\ x.name = z.name /\ x.owner = z.owner
          /\ x.active = z.active /\ x.next = z.next /\ x.dump = z.dump
      BY <3>1, <3>2 DEF RegType
    <3>4. reg' \in [Slots -> RegType] /\ reg'[s] = x /\ \A t \in Slots : t # s => reg'[t] = r[t]
      BY <1>1, <1>2, <3>2, <3>3
    <3> QED
      BY <1>1, <1>2, <3>3, <3>4 DEF z, RegQuiet
  <2> QED
    BY <1>4, <2>1, <2>2
<1>7. TypeOK'
  BY <1>1, <1>5, <1>6, Types, NextTypes DEF RegQuiet
<1> QED
  BY <1>1, <1>6, <1>7, NoCommand, QuietCommand

LEMMA SendHkCmdInv ==
  ASSUME IInv, SendHkCmd
  PROVE  IInv'
<1>1. gnd = NoCmd
      /\ UNCHANGED <<reg, lastReg, hnd, lastHnd, seen, lastLoad, cds, lock, at, job, gnd>>
  BY DEF SendHkCmd, userVars, taskVars
<1>2. val' \in [1 .. MaxValidations -> {"free", "pending", "performed"}]
  BY Types DEF SendHkCmd
<1>3. ASSUME NEW p \in Places
      PROVE  buf'[p] \in BufType /\ buf'[p].id \in {buf[p].id, NoBuf}
  <2> DEFINE x == buf[p]
  <2> DEFINE y == buf'[p]
  <2>1. x \in BufType /\ y \in {x, [x EXCEPT !.id = NoBuf]}
    BY Types DEF SendHkCmd
  <2> HIDE DEF x, y
  <2>2. y \in BufType /\ y.id \in {x.id, NoBuf}
    BY <2>1, BufFreed
  <2> QED
    BY <2>2 DEF x, y
<1>4. buf' \in [Places -> BufType]
  <2>1. buf' = [p \in Places |-> buf'[p]]
    BY DEF SendHkCmd
  <2> QED
    BY <1>3, <2>1
<1>5. ASSUME NEW d \in 1 .. LastDump
      PROVE  /\ dmp'[d] \in DmpType /\ dmp'[d].buf = dmp[d].buf
             /\ dmp'[d].state = "unused" <=> dmp[d].state = "unused"
  <2>1. dmp[d] \in DmpType /\ DOMAIN dmp = 1 .. LastDump
    BY Types
  <2>2. dmp'[d] = dmp[d] \/ (dmp[d].state = "performed" /\ dmp'[d] = [dmp[d] EXCEPT !.state = "free"])
    BY <2>1 DEF SendHkCmd
  <2> QED
    BY <2>1, <2>2 DEF DmpType
<1>6. dmp' \in [1 .. LastDump -> DmpType]
  <2>1. dmp' = [d \in 1 .. LastDump |-> dmp'[d]]
    BY Types DEF SendHkCmd
  <2> QED
    BY <1>5, <2>1
<1>7. TypeOK'
  BY <1>1, <1>2, <1>4, <1>6, Types, NextTypes
<1> QED
  BY <1>1, <1>3, <1>5, <1>7, NoCommand, QuietSame, QuietCommand

LEMMA SelectedFacts ==
  ASSUME IInv, NEW s \in Slots, NEW active \in BOOLEAN
  PROVE  /\ Selected(s, active) \in SomePlace
         /\ Selected(s, active) # NoBuf => buf[Selected(s, active)].id \in BufIds
<1>1. reg[s].active \in BufIds /\ reg[s].prev \in BufIds
  BY Types DEF RegType
<1>2. InProgress(s) \in SomePlace /\ Place(reg[s].active) \in SomePlace /\ Place(reg[s].prev) \in SomePlace
  BY <1>1, LoadFacts, PlaceNow, PlaceType
<1>3. Selected(s, active) \in SomePlace
  BY <1>2 DEF Selected
<1> QED
  BY <1>3, Types DEF SomePlace, BufType

LEMMA DumpRefs ==
  ASSUME IInv, NEW t \in Slots, reg[t].dump # 0
  PROVE  /\ reg[t].dump \in 1 .. LastDump /\ dmp[reg[t].dump].buf \in Shared
         /\ dmp[reg[t].dump].state # "unused"
<1>1. reg[t].dump \in 1 .. LastDump
  BY Types, Constants DEF RegType
<1> QED
  BY <1>1 DEF IInv, DumpsOK

LEMMA DumpCmdInv ==
  ASSUME IInv, NEW n \in Names, NEW active \in BOOLEAN, DumpCmd(n, active)
  PROVE  IInv'
<1>1. gnd = NoCmd
      /\ UNCHANGED <<lastReg, hnd, lastHnd, seen, buf, lastLoad, cds, val, lock, at, job>>
  BY DEF DumpCmd, userVars, storeVars
<1>2. PICK s \in Slots, d \in 1 .. LastDump :
        /\ Selected(s, active) # NoBuf
        /\ dmp[d].state = "unused" /\ \A e \in 1 .. d - 1 : dmp[e].state # "unused"
        /\ dmp' = [dmp EXCEPT ![d] = [state |-> "taken", source |-> buf[Selected(s, active)].id,
                                      buf |-> NoBuf]]
        /\ gnd' = [NoCmd EXCEPT !.cmd = "prepare", !.slot = s, !.dump = d]
        /\ reg' = IF active THEN reg ELSE Unstale(s)
  <2>1. DOMAIN dmp = 1 .. LastDump
    BY Types
  <2> QED
    BY <2>1 DEF DumpCmd, Named
<1>3. RegQuiet /\ \A t \in Slots : reg'[t].dump = reg[t].dump
  BY <1>2, UnstaleQuiet, QuietSame, UnstaleFacts
<1>4. KeepLinks /\ KeepIds
  BY <1>1, <1>3 DEF RegQuiet, KeepLinks, KeepIds
<1>5. dmp' \in [1 .. LastDump -> DmpType] /\ dmp'[d].state = "taken" /\ dmp'[d].buf = NoBuf
      /\ \A e \in 1 .. LastDump : e # d => dmp'[e] = dmp[e]
  BY <1>2, SelectedFacts, NoBufId, Types DEF DmpType
<1>6. gnd' \in CmdType /\ gnd'.cmd = "prepare" /\ gnd'.dump = d
  <2>1. NoCmd \in CmdType /\ d \in 0 .. LastDump /\ "prepare" \in CmdSteps
    BY <1>2, NoCommand, Constants DEF CmdSteps
  <2>2. gnd' = [NoCmd EXCEPT !.cmd = "prepare", !.slot = s, !.dump = d]
    BY <1>2
  <2> QED
    BY <2>1, <2>2 DEF CmdType
<1>7. DumpsOK'
  <2>1. \A t \in Slots : reg'[t].dump # 0 =>
          /\ reg[t].dump \in 1 .. LastDump /\ reg'[t].dump = reg[t].dump /\ reg[t].dump # d
          /\ dmp[reg[t].dump].buf \in Shared /\ dmp[reg[t].dump].state # "unused"
    BY <1>2, <1>3, DumpRefs
  <2>2. \A t \in Slots : reg'[t].dump # 0 => dmp'[reg'[t].dump].buf \in Shared /\ dmp'[reg'[t].dump].state # "unused"
    BY <1>5, <2>1
  <2>3. ASSUME NEW e \in 1 .. LastDump, NEW f \in 1 .. LastDump, e < f, dmp'[e].state = "unused"
        PROVE  dmp'[f].state = "unused"
    <3>1. e # d /\ dmp[e].state = "unused"
      BY <1>5, <2>3
    <3>2. dmp[f].state = "unused"
      BY <2>3, <3>1 DEF IInv, DumpsOK
    <3>3. f # d
      <4>1. SUFFICES ASSUME f = d PROVE FALSE
        OBVIOUS
      <4>2. e \in 1 .. d - 1
        BY <2>3, <4>1
      <4> QED
        BY <1>2, <3>1, <4>2
    <3> QED
      BY <1>5, <3>2, <3>3
  <2>4. \A e \in 1 .. LastDump : dmp'[e].buf \in Shared \cup {NoBuf}
    BY <1>5 DEF IInv, DumpsOK
  <2> QED
    BY <1>5, <1>6, <2>2, <2>3, <2>4 DEF DumpsOK
<1>8. LoadsBounded'
  BY <1>1, <1>2, <1>5, <1>6 DEF IInv, LoadsBounded
<1>9. TypeOK'
  BY <1>1, <1>3, <1>5, Types, NextTypes DEF RegQuiet
<1> QED
  BY <1>1, <1>4, <1>6, <1>7, <1>8, <1>9, CommandStep DEF CommandKeeps

LEMMA PrepareRoom ==
  ASSUME IInv, gnd.cmd = "prepare", FreeShared # {}
  PROVE  /\ gnd.dump \in 1 .. LastDump /\ dmp[gnd.dump].state # "unused"
         /\ NextShared \in 1 .. LastLoad + MaxLoads * LastDump /\ NextShared > lastLoad
         /\ \A e \in 1 .. LastDump : dmp[e].state = "unused" => NextShared <= LastLoad + MaxLoads * (e - 1)
<1> DEFINE d == gnd.dump
           k == NextShared
           R(e) == MaxLoads * (e - 1)
           T == MaxLoads * LastDump
<1>1. d \in 1 .. LastDump /\ dmp[d].state # "unused"
  BY DEF IInv, DumpsOK
<1>2. lastLoad <= LastLoad + R(d) /\ lastLoad \in Nat
  BY <1>1, Types DEF IInv, LoadsBounded
<1>3. k \in Nat /\ k > lastLoad /\ k <= lastLoad + MaxLoads
  BY SharedFacts
<1>4. ASSUME NEW e \in 1 .. LastDump, dmp[e].state = "unused"
      PROVE  d < e
  <2>1. d # e /\ ~(e < d)
    BY <1>1, <1>4 DEF IInv, DumpsOK
  <2> QED
    BY <1>1, <2>1
<1> DEFINE Q == MaxLoads * d
<1>5. R(d) + MaxLoads = Q /\ R(d) \in Nat /\ Q <= T
  BY <1>1, DumpRoom
<1>6. \A e \in 1 .. LastDump : d < e => Q <= R(e)
  BY <1>1, DumpRoom
<1>7. \A e \in 1 .. LastDump : R(e) \in Nat
  BY DumpRoom
<1>8. T \in Nat
  BY SharedSerials
<1> HIDE DEF d, k, R, Q, T
<1>9. k <= LastLoad + Q
  BY <1>2, <1>3, <1>5, Constants
<1>10. k \in 1 .. LastLoad + T
  BY <1>2, <1>3, <1>5, <1>8, <1>9, Constants
<1>11. ASSUME NEW e \in 1 .. LastDump, dmp[e].state = "unused"
       PROVE  k <= LastLoad + R(e)
  <2>1. Q <= R(e) /\ R(e) \in Nat /\ R(d) \in Nat
    BY <1>1, <1>4, <1>6, <1>7, <1>11
  <2> QED
    BY <1>3, <1>5, <1>9, <2>1, Constants
<1> QED
  BY <1>1, <1>3, <1>10, <1>11 DEF d, k, R, T

LEMMA PrepareDumpInv ==
  ASSUME IInv, PrepareDump
  PROVE  IInv'
<1> DEFINE s == gnd.slot
           d == gnd.dump
           k == NextShared
           i == <<-1, k>>
           p == Place(i)
<1>1. s \in Slots /\ gnd.cmd = "prepare" /\ gnd' = NoCmd
      /\ UNCHANGED <<lastReg, hnd, lastHnd, seen, cds, val, lock, at, job>>
  BY Types DEF PrepareDump, userVars, CmdType
<1>2. CASE FreeShared = {}
  <2>1. UNCHANGED <<reg, buf, lastLoad, dmp>>
    BY <1>2 DEF PrepareDump
  <2>2. TypeOK'
    BY <1>1, <2>1, Types, NextTypes
  <2> QED
    BY <1>1, <2>1, <2>2, NoCommand, QuietSame, QuietCommand
<1>3. CASE FreeShared # {}
  <2>1. /\ d \in 1 .. LastDump /\ dmp[d].state # "unused"
        /\ k \in 1 .. LastLoad + MaxLoads * LastDump /\ k > lastLoad
        /\ \A e \in 1 .. LastDump : dmp[e].state = "unused" => k <= LastLoad + MaxLoads * (e - 1)
    BY <1>1, <1>3, PrepareRoom
  <2>2. lastLoad' = k
    BY <1>3 DEF PrepareDump
  <2>3. i \in BufIds /\ i # NoBuf /\ i[1] = -1 /\ i[2] = k
    BY <2>1, SharedIds
  <2>4. p = PlaceIn(reg, i) /\ p \in Shared /\ p \in Places /\ p # NoBuf
    BY <2>3, PlaceNow, PlaceType, SharedPlaces
  <2> HIDE DEF k, i, p
  <2>5. reg' \in [Slots -> RegType]
        /\ \A t \in Slots : /\ reg'[t].id = reg[t].id /\ reg'[t].name = reg[t].name
                            /\ reg'[t].owner = reg[t].owner /\ reg'[t].active = reg[t].active
                            /\ reg'[t].next = reg[t].next
                            /\ reg'[t].dump = reg[t].dump \/ (reg'[t].dump = d /\ dmp'[d].buf = p)
    <3>1. CASE reg' = reg
      BY <3>1, Types
    <3>2. CASE reg' = [reg EXCEPT ![s].dump = d] /\ dmp' = [dmp EXCEPT ![d].state = "pending", ![d].buf = p]
      <4> DEFINE x == [reg[s] EXCEPT !.dump = d]
      <4>0. reg \in [Slots -> RegType]
        BY Types
      <4>1. reg' = [reg EXCEPT ![s] = x] /\ d \in 0 .. LastDump
        <5>1. d \in 0 .. LastDump
          BY <2>1, Constants
        <5> QED
          BY <3>2, <4>0, <5>1
      <4>2. x \in RegType /\ x.dump = d /\ x.id = reg[s].id /\ x.name = reg[s].name
            /\ x.owner = reg[s].owner /\ x.active = reg[s].active /\ x.next = reg[s].next
        BY <1>1, <4>0, <4>1, RegDump
      <4>3. dmp'[d].buf = p
        BY <2>1, <3>2, Types DEF DmpType
      <4> HIDE DEF x, d
      <4> QED
        BY <1>1, <4>0, <4>1, <4>2, <4>3
    <3> QED
      BY <1>3, <3>1, <3>2 DEF PrepareDump, p, i, k
  <2>6. /\ buf' \in [Places -> BufType]
        /\ \A q \in Places : buf'[q].id = buf[q].id \/ (buf'[q].id = i /\ q = p)
    <3>1. CASE buf' = buf
      BY <3>1, Types
    <3> DEFINE b == [buf EXCEPT ![p].id = i, ![p].reg = reg[s].id]
               x == [buf[p] EXCEPT !.id = i, !.reg = reg[s].id]
               c == buf[Place(dmp[d].source)].data
    <3>2. x \in BufType /\ x.id = i
      <4>1. buf[p] \in BufType /\ reg[s].id \in 0 .. LastReg
        BY <1>1, <2>4, Types DEF RegType
      <4> QED
        BY <2>3, <4>1 DEF BufType
    <3>3. b = [buf EXCEPT ![p] = x]
      BY <2>4, Types
    <3>4. b \in [Places -> BufType] /\ b[p].id = i /\ \A q \in Places : q # p => b[q].id = buf[q].id
      <4> HIDE DEF b, x
      <4> QED
        BY <2>4, <3>2, <3>3, Types
    <3>5. CASE buf' = b
      BY <3>4, <3>5
    <3>6. CASE buf' = [b EXCEPT ![p].data = c] /\ IsMatch(dmp[d].source)
      <4>1. dmp[d].source \in BufIds /\ dmp[d].source # NoBuf
        BY <2>1, <3>6, Types DEF DmpType, IsMatch
      <4>2. c \in Data
        BY <4>1, PlaceType, PlaceNow, Types DEF BufType
      <4> HIDE DEF b, c
      <4> QED
        BY <2>4, <3>4, <3>6, <4>2 DEF BufType
    <3> QED
      BY <1>3, <3>1, <3>5, <3>6 DEF PrepareDump, p, i, k
  <2>7. /\ dmp' \in [1 .. LastDump -> DmpType]
        /\ dmp'[d].buf \in Shared \cup {NoBuf} /\ dmp'[d].state # "unused"
        /\ dmp[d].buf \in Shared => dmp'[d].buf \in Shared
        /\ \A e \in 1 .. LastDump : e # d => dmp'[e] = dmp[e]
    <3>0. dmp \in [1 .. LastDump -> DmpType] /\ dmp[d] \in DmpType /\ p \in SomePlace /\ NoBuf \in BufIds
          /\ dmp[d].buf \in Shared \cup {NoBuf}
      BY <2>1, <2>4, Types, NoBufId DEF SomePlace, IInv, DumpsOK
    <3>1. CASE dmp' = dmp
      BY <2>1, <3>0, <3>1
    <3>2. ASSUME NEW x \in DmpType, x.buf = p, x.state # "unused", dmp' = [dmp EXCEPT ![d] = x]
          PROVE  dmp' \in [1 .. LastDump -> DmpType] /\ dmp'[d] = x
                 /\ \A e \in 1 .. LastDump : e # d => dmp'[e] = dmp[e]
      <4> HIDE DEF d
      <4> QED
        BY <2>1, <3>0, <3>2
    <3>3. dmp[d].state # "unused"
      BY <2>1
    <3>4. CASE dmp' = [dmp EXCEPT ![d].state = "pending", ![d].buf = p]
      <4> DEFINE x == [dmp[d] EXCEPT !.state = "pending", !.buf = p]
      <4> HIDE DEF d
      <4>1. dmp' = [dmp EXCEPT ![d] = x]
        BY <2>1, <3>0, <3>4
      <4>2. x \in DmpType /\ x.buf = p /\ x.state # "unused"
        BY <3>0 DEF DmpType
      <4> HIDE DEF x
      <4> QED
        BY <2>4, <3>2, <4>1, <4>2
    <3>5. CASE dmp' = [dmp EXCEPT ![d] = [state |-> "performed", source |-> NoBuf, buf |-> p]]
      <4> DEFINE x == [state |-> "performed", source |-> NoBuf, buf |-> p]
      <4> HIDE DEF d
      <4>1. dmp' = [dmp EXCEPT ![d] = x]
        BY <3>5
      <4>2. x \in DmpType /\ x.buf = p /\ x.state # "unused"
        BY <3>0 DEF DmpType
      <4> HIDE DEF x
      <4> QED
        BY <2>4, <3>2, <4>1, <4>2
    <3>6. CASE dmp' = [dmp EXCEPT ![d].buf = p]
      <4> DEFINE x == [dmp[d] EXCEPT !.buf = p]
      <4> HIDE DEF d
      <4>1. dmp' = [dmp EXCEPT ![d] = x]
        BY <3>6
      <4>2. x \in DmpType /\ x.buf = p /\ x.state # "unused"
        BY <3>0, <3>3 DEF DmpType
      <4> HIDE DEF x
      <4> QED
        BY <2>4, <3>2, <4>1, <4>2
    <3>7. CASE dmp' = dmp
      BY <3>0, <3>3, <3>7
    <3> QED
      BY <1>3, <3>4, <3>5, <3>6, <3>7 DEF PrepareDump, p, i, k
  <2>8. KeepLinks
    BY <1>1, <2>5 DEF KeepLinks
  <2>9. TypeOK'
    BY <1>1, <2>5, <2>6, <2>7, Types, NextTypes
  <2>10. IdsOK'
    <3>1. lastLoad' \in Nat /\ lastLoad' >= lastLoad
      BY <2>1, <2>2, Types, SharedSerials, Constants
    <3> QED
      BY <1>1, <2>2, <2>3, <2>4, <2>5, <2>6, <2>9, <3>1, IdsGrow
  <2>11. JobsOK'
    BY <1>1, <2>8, JobFrame DEF JobsOK
  <2>12. SerialsOK'
    <3>1. \A t \in Slots : Late(t) => Late(t)'
      BY <1>1 DEF Late
    <3> QED
      BY <2>5, <3>1, SerialsFrame DEF IInv
  <2>13. DumpsOK'
    <3>1. ASSUME NEW t \in Slots, reg'[t].dump # 0
          PROVE  dmp'[reg'[t].dump].buf \in Shared /\ dmp'[reg'[t].dump].state # "unused"
      <4>1. CASE reg'[t].dump = d /\ dmp'[d].buf = p
        BY <2>4, <2>7, <4>1
      <4>2. CASE reg'[t].dump = reg[t].dump
        <5>1. reg[t].dump \in 1 .. LastDump /\ dmp[reg[t].dump].buf \in Shared
              /\ dmp[reg[t].dump].state # "unused"
          BY <3>1, <4>2, Types, Constants DEF RegType, IInv, DumpsOK
        <5> QED
          BY <2>7, <4>2, <5>1
      <4> QED
        BY <2>5, <4>1, <4>2
    <3>2. \A e, f \in 1 .. LastDump : e < f /\ dmp'[e].state = "unused" => dmp'[f].state = "unused"
      BY <2>1, <2>7 DEF IInv, DumpsOK
    <3>3. \A e \in 1 .. LastDump : dmp'[e].buf \in Shared \cup {NoBuf}
      BY <2>7 DEF IInv, DumpsOK
    <3> QED
      BY <1>1, <3>1, <3>2, <3>3, NoCommand DEF DumpsOK
  <2>14. LoadsBounded'
    <3>1. lastLoad' <= LastLoad + MaxLoads * LastDump
      BY <2>1, <2>2
    <3>2. ASSUME NEW e \in 1 .. LastDump, dmp'[e].state = "unused"
          PROVE  lastLoad' <= LastLoad + MaxLoads * (e - 1)
      <4>1. dmp[e].state = "unused"
        BY <2>7, <3>2
      <4> QED
        BY <2>1, <2>2, <4>1
    <3> QED
      BY <1>1, <3>1, <3>2, NoCommand DEF LoadsBounded
  <2>15. TasksOK'
    BY <1>1, <2>1, <2>2, Types, NoCommand, SharedSerials, Constants DEF TasksOK
  <2> QED
    BY <2>8, <2>9, <2>10, <2>11, <2>12, <2>13, <2>14, <2>15, LinksFrame DEF IInv
<1> QED
  BY <1>2, <1>3

\* A step of a call of which the parts are shown one by one.
LEMMA CallStep ==
  ASSUME IInv, NEW a \in Apps, NEW l, NEW j, Moves(a, l, j), JobOK(a)', TypeOK', KeepLinks,
         gnd' = gnd, lastLoad' \in Nat, IdsOK', SerialsOK', DumpsOK', LoadsBounded'
  PROVE  IInv'
<1>1. TasksOK'
  BY MovesFacts, Types DEF TasksOK
<1>2. JobsOK'
  BY MovesFacts, JobFrame DEF JobsOK
<1> QED
  BY <1>1, <1>2, LinksFrame DEF IInv

LEMMA ActivateInv ==
  ASSUME IInv, NEW a \in Apps, Activate(a)
  PROVE  IInv'
<1>0. PICK s \in Slots : s = HSlot(a)
  BY JobFacts DEF Activate
<1> DEFINE i == buf[job[a].to].id
           z == reg[s]
           k == z.active
           x == [z EXCEPT !.prev = k, !.active = i]
<1>1. /\ s \in Slots /\ s = hnd[job[a].h].slot /\ at[a] = "activate"
      /\ UNCHANGED <<lastReg, hnd, lastHnd, seen, buf, lastLoad, cds, dmp, val, lock, job, gnd>>
  BY <1>0, JobFacts DEF Activate, userVars, storeVars, askVars
<1>2. job[a].to \in Own(s) /\ job[a].to \in Places
  <2>1. job[a].to \in Own(s)
    BY <1>1 DEF IInv, JobsOK, JobOK
  <2> QED
    BY <1>1, <2>1, OwnPlaces
<1>3. i \in BufIds /\ (i # NoBuf => i[1] = s)
  <2>1. i \in BufIds
    BY <1>2, Types DEF BufType
  <2>2. ASSUME i # NoBuf PROVE i[1] = s
    <3>1. PlaceIn(reg, i) = job[a].to
      BY <1>2, <2>2 DEF IInv, IdsOK
    <3>2. CASE i[1] = -1
      <4>1. job[a].to \in Shared
        BY <2>1, <2>2, <3>1, <3>2, PlaceType
      <4>2. Own(s) \cap Shared = {}
        BY <1>1, OwnPlaces
      <4> QED
        BY <1>2, <4>1, <4>2
    <3>3. CASE i[1] # -1
      <4>1. job[a].to \in Own(i[1]) /\ i[1] \in Slots
        BY <2>1, <2>2, <3>1, <3>3, PlaceType
      <4> DEFINE r == i[1]
                 p == job[a].to
      <4>2. p[1] = r
        <5>1. p \in Own(r) /\ r \in Slots
          BY <4>1
        <5> HIDE DEF r, p
        <5> QED
          BY <5>1, OwnPlaces
      <4>3. job[a].to[1] = s
        BY <1>1, <1>2, OwnPlaces
      <4> QED
        BY <4>2, <4>3
    <3> QED
      BY <3>2, <3>3
  <2> QED
    BY <2>1, <2>2
<1>4. /\ reg' = [reg EXCEPT ![s] = x] /\ x \in RegType /\ x.id = reg[s].id /\ x.name = reg[s].name
      /\ x.owner = reg[s].owner /\ x.active = i /\ x.next = reg[s].next /\ x.dump = reg[s].dump
  <2>1. reg[s] \in RegType /\ reg[s].active \in BufIds
    BY <1>1, Types DEF RegType
  <2>2. reg' = [reg EXCEPT ![s].prev = reg[s].active, ![s].active = i]
    BY <1>0 DEF Activate
  <2>3. reg' = [reg EXCEPT ![s] = x]
    BY <1>1, <2>2, Types
  <2>4. z \in RegType /\ k \in BufIds
    BY <2>1
  <2>5. x = [z EXCEPT !.prev = k, !.active = i]
    OBVIOUS
  <2> HIDE DEF i, z, k, x
  <2>6. /\ x \in RegType /\ x.id = z.id /\ x.name = z.name /\ x.owner = z.owner
        /\ x.active = i /\ x.next = z.next /\ x.dump = z.dump
    BY <1>3, <2>4, <2>5 DEF RegType
  <2>7. z = reg[s]
    BY DEF z
  <2> QED
    BY <2>3, <2>6, <2>7
<1> HIDE DEF i, z, k, x
<1>5. /\ reg' \in [Slots -> RegType] /\ reg'[s] = x /\ \A r \in Slots : r # s => reg'[r] = reg[r]
  BY <1>1, <1>4, OneReg, Types
<1>6. KeepLinks /\ KeepDumps
  BY <1>1, <1>4, <1>5 DEF KeepLinks, KeepDumps
<1>7. Moves(a, "notify", job[a])
  BY <1>1, GotoMoves DEF Activate, Where
<1>8. JobOK(a)'
  BY <1>1, <1>6, <1>7, NextJob DEF OwnerSteps
<1>9. TypeOK'
  BY <1>1, <1>5, Types, NextTypes
<1>10. IdsOK'
  <2>1. \A id \in BufIds : PlaceIn(reg', id) = PlaceIn(reg, id)
    BY <1>6, Types, PlacesFrame
  <2>2. \A p \in Places : buf[p].id \in BufIds
    BY Types DEF BufType
  <2>3. \A p \in Places : (buf[p].id # NoBuf)' => PlaceIn(reg', buf'[p].id) = p
    BY <1>1, <2>1, <2>2 DEF IInv, IdsOK
  <2>4. \A t \in Slots : /\ reg'[t].active # NoBuf => reg'[t].active[1] = t
                         /\ reg'[t].next # NoBuf => reg'[t].next[1] \in {t, -1}
    BY <1>1, <1>3, <1>4, <1>5 DEF IInv, IdsOK
  <2> QED
    BY <1>1, <2>3, <2>4 DEF IInv, IdsOK
<1>11. SerialsOK'
  <2>1. Late(s)'
    <3>1. at'[a] = "notify" /\ job'[a] = job[a]
      BY <1>7, MovesFacts
    <3> QED
      BY <1>1, <3>1 DEF Late, LateSteps
  <2>2. ASSUME NEW t \in Slots, t # s, (reg[t].next # NoBuf /\ reg[t].next[1] = -1 /\ ~Late(t))'
        PROVE  NextIn(reg', t)[2] <= LastGen
    <3>1. reg'[t] = reg[t]
      BY <1>5, <2>2
    <3>2. ~Late(t)
      <4>1. SUFFICES ASSUME Late(t) PROVE FALSE
        OBVIOUS
      <4>2. PICK b \in Apps : at[b] \in LateSteps /\ hnd[job[b].h].slot = t
        BY <4>1 DEF Late
      <4>3. b # a
        BY <1>1, <4>2 DEF LateSteps
      <4>4. at'[b] = at[b] /\ job'[b] = job[b]
        BY <1>7, <4>3, MovesFacts
      <4> QED
        BY <1>1, <2>2, <4>2, <4>4 DEF Late
    <3>3. NextIn(reg, t)[2] <= LastGen
      BY <2>2, <3>1, <3>2 DEF IInv, SerialsOK
    <3> QED
      BY <3>1, <3>3 DEF NextIn
  <2> QED
    BY <2>1, <2>2 DEF SerialsOK
<1>12. DumpsOK' /\ LoadsBounded'
  BY <1>6, Types, DumpsFrame DEF IInv
<1> QED
  BY <1>1, <1>6, <1>7, <1>8, <1>9, <1>10, <1>11, <1>12, CallStep, Types

\* A buffer that is claimed.
LEMMA ClaimFacts ==
  ASSUME IInv, NEW s \in Slots, NEW p \in Places, NEW i \in BufIds, NEW copy \in BOOLEAN,
         copy => reg[s].active # NoBuf, Claim(s, p, i, copy)
  PROVE  /\ buf' \in [Places -> BufType] /\ buf'[p].id = i
         /\ buf'[p].valid = (IF copy THEN FALSE ELSE buf[p].valid)
         /\ buf'[p].data = (IF copy THEN buf[PlaceIn(reg, reg[s].active)].data ELSE buf[p].data)
         /\ \A q \in Places : q # p => buf'[q] = buf[q]
<1> DEFINE c == buf[Place(reg[s].active)].data
           x == [id |-> i, reg |-> reg[s].id, valid |-> IF copy THEN FALSE ELSE buf[p].valid,
                 data |-> IF copy THEN c ELSE buf[p].data]
<1>1. buf \in [Places -> BufType] /\ reg[s] \in RegType
  BY Types
<1>2. c = buf[PlaceIn(reg, reg[s].active)].data
  BY PlaceNow
<1>3. copy => c \in Data
  <2>1. reg[s].active \in BufIds
    BY <1>1 DEF RegType
  <2> QED
    BY <1>1, <1>2, <2>1, PlaceType DEF BufType
<1>4. buf' = [buf EXCEPT ![p] = x]
  BY DEF Claim
<1> HIDE DEF c
<1>5. x \in BufType
  BY <1>1, <1>3 DEF BufType, RegType
<1>6. x.id = i /\ x.valid = (IF copy THEN FALSE ELSE buf[p].valid) /\ x.data = (IF copy THEN c ELSE buf[p].data)
  OBVIOUS
<1> HIDE DEF x
<1> QED
  BY <1>1, <1>2, <1>4, <1>5, <1>6

LEMMA ExclusiveFacts ==
  ASSUME IInv, NEW s \in Slots, NextIn(reg, s)[2] <= LastGen, Exclusive(s) # NoBuf
  PROVE  /\ Exclusive(s) = PlaceIn(reg, NextIn(reg, s)) /\ Exclusive(s) \in Own(s) /\ Exclusive(s) \in Places
         /\ NextIn(reg, s) \in BufIds /\ NextIn(reg, s) # NoBuf /\ NextIn(reg, s)[1] = s /\ s # -1
         /\ LockedBy(Exclusive(s), s) => buf[Exclusive(s)].id \in {NextIn(reg, s), NoBuf}
<1>1. NextIn(reg, s) \in BufIds /\ NextIn(reg, s) # NoBuf /\ NextIn(reg, s)[1] = s /\ s # -1
  BY NextType, Types, Constants DEF Slots
<1>2. Exclusive(s) = PlaceIn(reg, NextIn(reg, s))
      /\ (LockedBy(Exclusive(s), s) => buf[Exclusive(s)].id \in {NextIn(reg, s), NoBuf})
  BY PlaceNow, NextNow DEF Exclusive
<1>3. Exclusive(s) \in Own(s)
  BY <1>1, <1>2, PlaceType
<1> QED
  BY <1>1, <1>2, <1>3, OwnPlaces

LEMMA ReserveInv ==
  ASSUME IInv, NEW a \in Apps, Reserve(a)
  PROVE  IInv'
<1>0. PICK s \in Slots : s = HSlot(a)
  BY JobFacts DEF Reserve
<1> DEFINE p == InProgress(s)
<1>1. /\ at[a] = "reserve" /\ reg' = Unstale(s) /\ s = hnd[job[a].h].slot /\ reg[s].owner = a
      /\ UNCHANGED <<lastReg, hnd, lastHnd, seen, lastLoad, cds, dmp, val, gnd>>
  BY <1>0, JobFacts DEF Reserve, userVars, askVars, OwnerSteps
<1>2. CASE Return(a) /\ UNCHANGED buf
  <2>1. RegQuiet
    BY <1>1, UnstaleQuiet
  <2>2. KeepLinks /\ KeepIds /\ KeepDumps
    BY <1>1, <1>2, <2>1, QuietKeeps
  <2>3. Moves(a, "idle", NoJob) /\ JobOK(a)' /\ lock' \in Apps \cup {None}
    BY <1>2, ReturnMoves
  <2>4. TypeOK'
    BY <1>1, <1>2, <2>1, <2>3, Types, NextTypes DEF RegQuiet
  <2> QED
    BY <1>1, <2>2, <2>3, <2>4, TaskStep DEF LateSteps
<1>3. CASE /\ p # NoBuf /\ IsPrivate(reg[s].next, s)
           /\ Goto(a, "activate") /\ job' = [job EXCEPT ![a].to = p] /\ UNCHANGED <<buf, lock>>
  <2> DEFINE j == [job[a] EXCEPT !.to = p]
  <2>1. RegQuiet
    BY <1>1, UnstaleQuiet
  <2>2. KeepLinks /\ KeepIds /\ KeepDumps
    BY <1>1, <1>3, <2>1, QuietKeeps
  <2>3. p \in Own(s) /\ p \in SomePlace
    BY <1>3, LoadFacts DEF IsPrivate
  <2>4. j \in JobType /\ j.h = job[a].h /\ j.to = p
    <3> HIDE DEF p
    <3> QED
      BY <2>3, Types DEF JobType
  <2>5. Moves(a, "activate", j)
    BY <1>3, <2>4 DEF Moves, Goto, Where
  <2> HIDE DEF p, j
  <2>6. JobOK(a)'
    <3>1. at'[a] = "activate" /\ job'[a].h = job[a].h /\ job'[a].to = p
      BY <2>4, <2>5, MovesFacts
    <3>2. job[a].h \in Hs /\ hnd[job[a].h].used /\ hnd[job[a].h].app = a
      BY <1>1, JobFacts, MineFacts
    <3>3. reg'[s].owner = a /\ hnd' = hnd
      BY <1>1, <2>1 DEF RegQuiet
    <3> QED
      BY <1>1, <2>3, <3>1, <3>2, <3>3 DEF JobOK
  <2>7. TypeOK'
    BY <1>1, <1>3, <2>1, Types, NextTypes DEF RegQuiet
  <2> QED
    BY <1>1, <2>2, <2>5, <2>6, <2>7, TaskStep DEF LateSteps
<1>4. CASE /\ p # NoBuf /\ ~IsPrivate(reg[s].next, s) /\ Exclusive(s) # NoBuf
           /\ Claim(s, Exclusive(s), NextLocal(s), FALSE)
           /\ Goto(a, "copy") /\ job' = [job EXCEPT ![a].from = p, ![a].to = Exclusive(s)]
           /\ UNCHANGED lock
  <2>1. p \in Places /\ reg' = reg /\ reg[s].next # NoBuf /\ reg[s].next[1] = -1
    BY <1>1, <1>4, LoadFacts DEF IsPrivate
  <2>2. ~Late(s)
    <3>1. SUFFICES ASSUME NEW b \in Apps, at[b] \in LateSteps, hnd[job[b].h].slot = s
                   PROVE  FALSE
      BY DEF Late
    <3>2. reg[s].owner = b
      BY <3>1, JobFacts DEF LateSteps, OwnerSteps
    <3> QED
      BY <1>1, <3>1, <3>2 DEF LateSteps
  <2>3. NextIn(reg, s)[2] <= LastGen
    BY <2>1, <2>2 DEF IInv, SerialsOK
  <2>4. PICK q \in Places, i \in BufIds : /\ q = Exclusive(s) /\ i = NextLocal(s)
                                          /\ q = PlaceIn(reg, i) /\ q \in Own(s) /\ i # NoBuf /\ i[1] = s
    BY <1>4, <2>3, ExclusiveFacts, NextNow
  <2>5. s # -1
    BY Constants DEF Slots
  <2>6. /\ buf' \in [Places -> BufType] /\ buf'[q].id = i
        /\ \A r \in Places : r # q => buf'[r] = buf[r]
    BY <1>4, <2>4, ClaimFacts
  <2> DEFINE j == [job[a] EXCEPT !.from = p, !.to = q]
  <2>7. j \in JobType /\ j.h = job[a].h /\ j.to = q /\ j.from = p /\ job' = [job EXCEPT ![a] = j]
    <3>1. job' = [job EXCEPT ![a].from = p, ![a].to = q]
      BY <1>4, <2>4
    <3> HIDE DEF p
    <3> QED
      BY <2>1, <2>4, <3>1, Types DEF JobType, SomePlace
  <2>8. Moves(a, "copy", j)
    BY <1>4, <2>7 DEF Moves, Goto, Where
  <2> HIDE DEF p, j
  <2>9. KeepLinks /\ KeepDumps
    BY <1>1, <2>1 DEF KeepLinks, KeepDumps
  <2>10. JobOK(a)'
    <3>1. at'[a] = "copy" /\ job'[a].h = job[a].h /\ job'[a].to = q /\ job'[a].from = p
      BY <2>7, <2>8, MovesFacts
    <3>2. job[a].h \in Hs /\ hnd[job[a].h].used /\ hnd[job[a].h].app = a
      BY <1>1, JobFacts, MineFacts
    <3> QED
      BY <1>1, <2>1, <2>4, <3>1, <3>2 DEF JobOK
  <2>11. TypeOK'
    BY <1>1, <1>4, <2>1, <2>6, Types, NextTypes
  <2>12. IdsOK'
    <3>1. \A r \in Places : buf'[r].id \in {buf[r].id, NoBuf} \/ (buf'[r].id = i /\ r = PlaceIn(reg, i))
      BY <2>4, <2>6
    <3>2. \A t \in Slots : /\ reg'[t].name = reg[t].name /\ reg'[t].active = reg[t].active
                           /\ reg'[t].next \in {reg[t].next, NoBuf}
      BY <2>1
    <3>3. lastLoad' \in Nat /\ lastLoad' >= lastLoad
      BY <1>1, Types
    <3> QED
      BY <2>4, <2>5, <2>11, <3>1, <3>2, <3>3, IdsGrow
  <2>13. SerialsOK'
    <3>1. ASSUME NEW t \in Slots, Late(t)
          PROVE  Late(t)'
      <4>1. PICK b \in Apps : at[b] \in LateSteps /\ hnd[job[b].h].slot = t
        BY <3>1 DEF Late
      <4>2. b # a
        BY <1>1, <4>1 DEF LateSteps
      <4> QED
        BY <1>1, <2>8, <4>1, <4>2, MovesFacts DEF Late
    <3> QED
      BY <2>1, <3>1, SerialsFrame DEF IInv
  <2>14. DumpsOK' /\ LoadsBounded'
    BY <2>9, Types, DumpsFrame DEF IInv
  <2> QED
    BY <1>1, <2>8, <2>9, <2>10, <2>11, <2>12, <2>13, <2>14, CallStep, Types
<1> QED
  BY <1>0, <1>2, <1>3, <1>4 DEF Reserve

\* A working buffer is reserved: which one, and under which identifier.
WorkingAt(s, i, q) ==
  /\ i # NoBuf /\ i[1] \in {s, -1} /\ (i[1] = -1 => i[2] <= lastLoad')
  /\ q = PlaceIn(reg, i) /\ reg' = [reg EXCEPT ![s].next = i]
  /\ buf' \in [Places -> BufType] /\ buf'[q].id = i
  /\ \A r \in Places : r # q => buf'[r] = buf[r]
  /\ \/ /\ lastLoad' = lastLoad /\ i = NextIn(reg, s) /\ (reg[s].active = NoBuf \/ IsDouble(s))
        /\ q = Exclusive(s)
     \/ /\ lastLoad' \in Nat /\ lastLoad' <= LastLoad /\ lastLoad' > lastLoad
        /\ i = <<-1, lastLoad'>> /\ reg[s].active # NoBuf /\ ~IsDouble(s) /\ buf[q].id = NoBuf
  /\ buf'[q].data = (IF reg[s].active # NoBuf THEN buf[PlaceIn(reg, reg[s].active)].data ELSE buf[q].data)
  /\ buf'[q].valid = (IF reg[s].active # NoBuf THEN FALSE ELSE buf[q].valid)
  /\ NextIn(reg, s)[2] <= LastGen

LEMMA WorkingFacts ==
  ASSUME IInv, NEW s \in Slots, reg[s].next = NoBuf, GetWorkingBuffer(s)
  PROVE  \E i \in BufIds, q \in Places : WorkingAt(s, i, q)
<1>1. NextIn(reg, s)[2] <= LastGen
  BY NextNow DEF GetWorkingBuffer
<1>2. CASE /\ reg[s].active = NoBuf \/ IsDouble(s)
           /\ Exclusive(s) # NoBuf
           /\ Claim(s, Exclusive(s), NextLocal(s), reg[s].active # NoBuf)
           /\ reg' = [reg EXCEPT ![s].next = NextLocal(s)]
           /\ UNCHANGED lastLoad
  <2>1. PICK q \in Places, i \in BufIds : /\ q = Exclusive(s) /\ i = NextLocal(s) /\ i = NextIn(reg, s)
                                          /\ q = PlaceIn(reg, i) /\ i # NoBuf /\ i[1] = s /\ s # -1
    BY <1>1, <1>2, ExclusiveFacts, NextNow
  <2>2. PICK c \in BOOLEAN : c = (reg[s].active # NoBuf) /\ Claim(s, q, i, c)
    BY <1>2, <2>1
  <2>3. /\ buf' \in [Places -> BufType] /\ buf'[q].id = i
        /\ buf'[q].valid = (IF c THEN FALSE ELSE buf[q].valid)
        /\ buf'[q].data = (IF c THEN buf[PlaceIn(reg, reg[s].active)].data ELSE buf[q].data)
        /\ \A r \in Places : r # q => buf'[r] = buf[r]
    BY <2>2, ClaimFacts
  <2>4. /\ buf'[q].valid = (IF reg[s].active # NoBuf THEN FALSE ELSE buf[q].valid)
        /\ buf'[q].data = (IF reg[s].active # NoBuf THEN buf[PlaceIn(reg, reg[s].active)].data ELSE buf[q].data)
    BY <2>2, <2>3
  <2> QED
    BY <1>1, <1>2, <2>1, <2>3, <2>4 DEF WorkingAt
<1>3. CASE /\ reg[s].active # NoBuf /\ ~IsDouble(s)
           /\ FreeShared # {} /\ NextShared <= LastLoad
           /\ Claim(s, Place(<<-1, NextShared>>), <<-1, NextShared>>, TRUE)
           /\ reg' = [reg EXCEPT ![s].next = <<-1, NextShared>>]
           /\ lastLoad' = NextShared
  <2>1. NextShared \in Nat /\ NextShared > lastLoad /\ lastLoad \in Nat
        /\ buf[Place(<<-1, NextShared>>)].id = NoBuf
    BY <1>3, SharedFacts, Types
  <2>2. PICK k \in 1 .. LastLoad + MaxLoads * LastDump : k = NextShared
    BY <1>3, <2>1, Constants, SharedSerials
  <2>3. PICK i \in BufIds, q \in Places : /\ i = <<-1, k>> /\ i # NoBuf /\ i[1] = -1 /\ i[2] = k
                                          /\ q = PlaceIn(reg, i) /\ q = Place(i)
    BY SharedIds, PlaceType, PlaceNow
  <2>4. /\ buf' \in [Places -> BufType] /\ buf'[q].id = i /\ buf'[q].valid = FALSE
        /\ buf'[q].data = buf[PlaceIn(reg, reg[s].active)].data
        /\ \A r \in Places : r # q => buf'[r] = buf[r]
    <3>1. PICK c \in BOOLEAN : c = TRUE
      OBVIOUS
    <3>2. Claim(s, q, i, c)
      BY <1>3, <2>2, <2>3, <3>1
    <3>3. /\ buf' \in [Places -> BufType] /\ buf'[q].id = i
          /\ buf'[q].valid = (IF c THEN FALSE ELSE buf[q].valid)
          /\ buf'[q].data = (IF c THEN buf[PlaceIn(reg, reg[s].active)].data ELSE buf[q].data)
          /\ \A r \in Places : r # q => buf'[r] = buf[r]
      BY <1>3, <3>2, ClaimFacts
    <3> QED
      BY <3>1, <3>3
  <2>5. lastLoad' = k /\ lastLoad' \in Nat /\ lastLoad' <= LastLoad /\ lastLoad' > lastLoad
    BY <1>3, <2>1, <2>2, Constants
  <2>6. reg' = [reg EXCEPT ![s].next = i] /\ buf[q].id = NoBuf
    BY <1>3, <2>1, <2>2, <2>3
  <2>7. i[2] <= lastLoad' /\ i = <<-1, lastLoad'>>
    BY <2>3, <2>5
  <2> QED
    BY <1>1, <1>3, <2>3, <2>4, <2>5, <2>6, <2>7 DEF WorkingAt
<1> QED
  BY <1>2, <1>3 DEF GetWorkingBuffer

LEMMA LoadInv ==
  ASSUME IInv, NEW a \in Apps, NEW h \in Mine(a), NEW d \in Images, Load(a, h, d)
  PROVE  IInv'
<1>0. PICK s \in Slots : s = hnd[h].slot
  BY MineFacts
<1>1. /\ h \in Hs /\ hnd[h].used /\ hnd[h].app = a /\ at[a] = "idle" /\ reg[s].owner = a
      /\ reg[s].next = NoBuf /\ GetWorkingBuffer(s)
      /\ UNCHANGED <<lastReg, hnd, lastHnd, seen, cds, dmp, val, lock, gnd>>
  BY <1>0, MineFacts DEF Load, Begin, userVars, askVars
<1>2a. PICK i \in BufIds, q \in Places : WorkingAt(s, i, q)
  BY <1>1, WorkingFacts
<1>2. /\ i # NoBuf /\ i[1] \in {s, -1} /\ (i[1] = -1 => i[2] <= lastLoad')
      /\ q = PlaceIn(reg, i) /\ reg' = [reg EXCEPT ![s].next = i]
      /\ buf' \in [Places -> BufType] /\ buf'[q].id = i
      /\ \A r \in Places : r # q => buf'[r] = buf[r]
      /\ lastLoad' = lastLoad \/ (lastLoad' \in Nat /\ lastLoad' <= LastLoad /\ lastLoad' > lastLoad)
      /\ NextIn(reg, s)[2] <= LastGen
  BY <1>2a DEF WorkingAt
<1>3. lastLoad' \in Nat /\ lastLoad' >= lastLoad
  BY <1>2, Types
<1>4. /\ reg' \in [Slots -> RegType] /\ reg'[s].next = i
      /\ \A t \in Slots : /\ reg'[t].id = reg[t].id /\ reg'[t].name = reg[t].name
                          /\ reg'[t].owner = reg[t].owner /\ reg'[t].active = reg[t].active
                          /\ reg'[t].dump = reg[t].dump /\ (t # s => reg'[t].next = reg[t].next)
  <2> DEFINE z == reg[s]
             x == [z EXCEPT !.next = i]
  <2>1. reg \in [Slots -> RegType] /\ z \in RegType
    BY Types
  <2>2. reg' = [reg EXCEPT ![s] = x]
    BY <1>2
  <2> HIDE DEF z
  <2>3. x \in RegType /\ x.next = i /\ x.id = z.id /\ x.name = z.name
        /\ x.owner = z.owner /\ x.active = z.active /\ x.dump = z.dump
    BY <2>1, RegNext
  <2> HIDE DEF x
  <2> QED
    BY <2>1, <2>2, <2>3 DEF z
<1>5. KeepLinks
  BY <1>1, <1>4 DEF KeepLinks
<1> DEFINE j == [job[a] EXCEPT !.h = h, !.data = d]
<1>6. j \in JobType /\ j.h = h /\ job' = [job EXCEPT ![a] = j]
  <2>1. job' = [job EXCEPT ![a] = j]
    BY DEF Load
  <2>2. job[a] \in JobType /\ d \in Data
    BY Types DEF Data
  <2> QED
    BY <1>1, <2>1, <2>2 DEF JobType
<1>7. Moves(a, "write", j)
  BY <1>6 DEF Load, Moves, Goto, Where
<1> HIDE DEF j
<1>8. JobOK(a)'
  <2>1. at'[a] = "write" /\ job'[a].h = h
    BY <1>6, <1>7, MovesFacts
  <2> QED
    BY <1>0, <1>1, <1>4, <2>1 DEF JobOK
<1>9. TypeOK'
  BY <1>1, <1>2, <1>4, Types, NextTypes
<1>10. IdsOK'
  <2>1. \A r \in Places : buf'[r].id \in {buf[r].id, NoBuf} \/ (buf'[r].id = i /\ r = PlaceIn(reg, i))
    BY <1>2
  <2>2. \A t \in Slots : reg'[t].next \in {reg[t].next, NoBuf} \/ (t = s /\ reg'[t].next = i)
    BY <1>4
  <2> QED
    BY <1>2, <1>3, <1>4, <1>9, <2>1, <2>2, IdsGrow
<1>11. SerialsOK'
  <2> SUFFICES ASSUME NEW t \in Slots, (reg[t].next # NoBuf /\ reg[t].next[1] = -1 /\ ~Late(t))'
               PROVE  NextIn(reg', t)[2] <= LastGen
    BY DEF SerialsOK
  <2>1. NextIn(reg', t) = NextIn(reg, t)
    BY <1>4 DEF NextIn
  <2>2. CASE t = s
    BY <1>2, <2>1, <2>2
  <2>3. CASE t # s
    <3>1. Late(t) => Late(t)'
      <4>1. SUFFICES ASSUME NEW b \in Apps, at[b] \in LateSteps, hnd[job[b].h].slot = t
                     PROVE  Late(t)'
        BY DEF Late
      <4>2. b # a
        BY <1>1, <4>1 DEF LateSteps
      <4> QED
        BY <1>1, <1>7, <4>1, <4>2, MovesFacts DEF Late
    <3>2. NextIn(reg, t)[2] <= LastGen
      BY <1>4, <2>3, <3>1 DEF IInv, SerialsOK
    <3> QED
      BY <2>1, <3>2
  <2> QED
    BY <2>2, <2>3
<1>12. DumpsOK'
  <2>1. ASSUME NEW t \in Slots, reg'[t].dump # 0
        PROVE  dmp'[reg'[t].dump].buf \in Shared /\ dmp'[reg'[t].dump].state # "unused"
    BY <1>1, <1>4, <2>1 DEF IInv, DumpsOK
  <2> QED
    BY <1>1, <2>1 DEF IInv, DumpsOK
<1>13. LoadsBounded'
  <2>1. CASE lastLoad' = lastLoad
    BY <1>1, <2>1 DEF IInv, LoadsBounded
  <2>2. CASE lastLoad' <= LastLoad
    <3>1. \A e \in 1 .. LastDump : MaxLoads * (e - 1) \in Nat
      BY DumpRoom
    <3>2. \A e \in 1 .. LastDump : lastLoad' <= LastLoad + MaxLoads * (e - 1)
      BY <1>3, <2>2, <3>1, Constants
    <3>3. lastLoad' <= LastLoad + MaxLoads * LastDump
      BY <1>3, <2>2, SharedSerials, Constants
    <3> QED
      BY <3>2, <3>3 DEF LoadsBounded
  <2> QED
    BY <1>2, <2>1, <2>2
<1> QED
  BY <1>1, <1>3, <1>5, <1>7, <1>8, <1>9, <1>10, <1>11, <1>12, <1>13, CallStep

-----------------------------------------------------------------------------
(* Descriptors that come and go                                            *)

\* The next identifier of a descriptor is of none in use.
Unmade == \A h \in Hs : hnd[h].used => h <= lastHnd
Inv    == IInv /\ Unmade

LEMMA UnmadeStep ==
  ASSUME IInv, Unmade, TypeOK', lastHnd' = lastHnd,
         \A h \in Hs : hnd'[h].used => hnd[h].used
  PROVE  Unmade'
BY DEF Unmade

LEMMA ConnectFacts ==
  ASSUME Inv, NEW a \in Apps \cup {None}, NEW s \in Slots, NEW i \in 0 .. LastReg, NEW u \in BOOLEAN,
         Connect(a, s, i, u)
  PROVE  \E h \in Hs : /\ lastHnd' = h /\ h = lastHnd + 1 /\ ~hnd[h].used
                       /\ hnd' \in [Hs -> HndType]
                       /\ hnd'[h].used /\ hnd'[h].app = a /\ hnd'[h].slot = s /\ hnd'[h].reg = i
                       /\ hnd'[h].updated = u /\ ~hnd'[h].locked
                       /\ \A g \in Hs : g # h => hnd'[g] = hnd[g]
                       /\ lastHnd' \in 0 .. LastHandle /\ Unmade'
<1>1. PICK h \in Hs : h = lastHnd + 1
  BY Types, Constants DEF Connect, Inv, Hs
<1>2. ~hnd[h].used
  BY <1>1, Types DEF Inv, Unmade, Hs
<1> DEFINE x == [NoHnd EXCEPT !.used = TRUE, !.app = a, !.slot = s, !.reg = i, !.updated = u]
<1>3. hnd' = [hnd EXCEPT ![h] = x] /\ lastHnd' = h
  BY <1>1 DEF Connect
<1>4. /\ x.used /\ x.app = a /\ x.slot = s /\ x.reg = i /\ x.updated = u /\ ~x.locked /\ x \in HndType
  BY NoBufId DEF NoHnd, HndType
<1> HIDE DEF x
<1>5. hnd' \in [Hs -> HndType] /\ hnd'[h] = x /\ \A g \in Hs : g # h => hnd'[g] = hnd[g]
  BY <1>3, <1>4, OneHnd, Types DEF Inv
<1>6. Unmade'
  BY <1>1, <1>3, <1>5, Types DEF Inv, Unmade, Hs
<1>7. lastHnd' \in 0 .. LastHandle
  BY <1>3, Constants DEF Hs
<1> QED
  BY <1>1, <1>2, <1>3, <1>4, <1>5, <1>6, <1>7

\* A step that adds a descriptor, or takes one away, disturbs no other call.
LEMMA OthersKeep ==
  ASSUME IInv, UNCHANGED <<at, job>>, NEW h \in Hs, \A g \in Hs : g # h => hnd'[g] = hnd[g],
         NEW b \in Apps, hnd[h].used => hnd[h].app # b \/ at[b] \in {"idle", "cleanup"},
         at[b] \in OwnerSteps => reg'[hnd[job[b].h].slot].owner = b
  PROVE  JobOK(b)'
<1>1. CASE at[b] \in {"idle", "cleanup"}
  BY <1>1, IdleJob
<1>2. CASE at[b] \notin {"idle", "cleanup"}
  <2>1. job[b].h \in Hs /\ hnd[job[b].h].used /\ hnd[job[b].h].app = b /\ JobOK(b)
    BY <1>2, JobFacts, MineFacts DEF IInv, JobsOK
  <2>2. job[b].h # h
    BY <1>2, <2>1
  <2> QED
    BY <1>2, <2>1, <2>2 DEF JobOK
<1> QED
  BY <1>1, <1>2

LEMMA ShareInv ==
  ASSUME Inv, NEW a \in Apps, NEW n \in Names, Share(a, n)
  PROVE  Inv'
<1>1. UNCHANGED <<reg, lastReg, buf, lastLoad, cds, dmp, val, lock, at, job, gnd, seen>>
  BY DEF Share, storeVars, askVars, taskVars
<1>2. PICK s \in Slots, u \in BOOLEAN : Used(s) /\ Connect(a, s, reg[s].id, u)
  <2>1. PICK s \in Slots : Used(s) /\ Connect(a, s, reg[s].id, n \notin DumpOnly /\ reg[s].active # NoBuf)
    BY DEF Share, Named
  <2>2. PICK u \in BOOLEAN : u = (n \notin DumpOnly /\ reg[s].active # NoBuf)
    OBVIOUS
  <2> QED
    BY <2>1, <2>2
<1>3. PICK i \in 0 .. LastReg : i = reg[s].id
  BY Types DEF Inv, RegType
<1>4. PICK h \in Hs : /\ ~hnd[h].used /\ hnd' \in [Hs -> HndType]
                      /\ hnd'[h].used /\ hnd'[h].app = a /\ hnd'[h].slot = s /\ hnd'[h].reg = i
                      /\ \A g \in Hs : g # h => hnd'[g] = hnd[g]
                      /\ lastHnd' \in 0 .. LastHandle /\ Unmade'
  BY <1>2, <1>3, ConnectFacts
<1>5. TypeOK'
  BY <1>1, <1>4, Types, NextTypes DEF Inv
<1>6. TasksOK'
  BY <1>1 DEF Inv, IInv, TasksOK
<1>7. JobsOK'
  <2>1. ASSUME NEW b \in Apps
        PROVE  JobOK(b)'
    <3>1. at[b] \in OwnerSteps => reg'[hnd[job[b].h].slot].owner = b
      BY <1>1 DEF Inv, IInv, JobsOK, JobOK
    <3> QED
      BY <1>1, <1>4, <3>1, OthersKeep DEF Inv
  <2> QED
    BY <2>1 DEF JobsOK
<1>8. IdsOK'
  BY <1>1 DEF Inv, IInv, IdsOK
<1>9. SerialsOK'
  <2>1. ASSUME NEW t \in Slots, Late(t)
        PROVE  Late(t)'
    <3>1. PICK b \in Apps : at[b] \in LateSteps /\ hnd[job[b].h].slot = t
      BY <2>1 DEF Late
    <3>2. job[b].h \in Hs /\ hnd[job[b].h].used
      BY <3>1, JobFacts, MineFacts DEF Inv, LateSteps
    <3>3. hnd'[job[b].h] = hnd[job[b].h]
      BY <1>4, <3>2
    <3> QED
      BY <1>1, <3>1, <3>3 DEF Late
  <2> QED
    BY <1>1, <2>1, SerialsFrame DEF Inv, IInv
<1>10. DumpsOK' /\ LoadsBounded'
  BY <1>1 DEF Inv, IInv, DumpsOK, LoadsBounded
<1>11. DescriptorsLinked'
  <2>1. ASSUME NEW g \in Hs, (hnd[g].used /\ hnd[g].app # None)'
        PROVE  (reg[hnd[g].slot].id = hnd[g].reg /\ Used(hnd[g].slot))'
    BY <1>1, <1>2, <1>3, <1>4, <2>1 DEF Inv, IInv, DescriptorsLinked, Used
  <2>2. ASSUME NEW t \in Slots, (Used(t) /\ reg[t].name # None)'
        PROVE  /\ (reg[t].owner # None)' => \E g \in Links(t)' : hnd'[g].app = reg'[t].owner
               /\ Links(t)' # {}
    <3>1. /\ reg[t].owner # None => \E g \in Links(t) : hnd[g].app = reg[t].owner
          /\ Links(t) # {}
      BY <1>1, <2>2 DEF Inv, IInv, DescriptorsLinked, Used
    <3>2. \A g \in Links(t) : g \in Links(t)' /\ hnd'[g] = hnd[g]
      BY <1>4 DEF Links
    <3> QED
      BY <1>1, <3>1, <3>2
  <2> QED
    BY <2>1, <2>2 DEF DescriptorsLinked
<1> QED
  BY <1>4, <1>5, <1>6, <1>7, <1>8, <1>9, <1>10, <1>11 DEF Inv, IInv

\* A free record is taken for a table; its own buffers are cleared or reserved.
LEMMA RegisterStep ==
  ASSUME Inv, NEW s \in Slots, reg[s].id = 0, TypeOK', Unmade',
         UNCHANGED <<lastLoad, dmp, at, job, gnd>>,
         \A t \in Slots : t # s => reg'[t] = reg[t],
         reg'[s].id # 0, reg'[s].dump = 0,
         reg'[s].active \in {NoBuf, <<s, 1>>}, reg'[s].next \in {NoBuf, <<s, 1>>},
         \A p \in Places : p \notin Own(s) => buf'[p] = buf[p],
         \A p \in Own(s) : buf'[p].id = NoBuf \/ (buf'[p].id = <<s, 1>> /\ p = PlaceIn(reg', <<s, 1>>)),
         \A g \in Hs : hnd[g].used => hnd'[g] = hnd[g],
         \A g \in Hs : hnd'[g].used /\ ~hnd[g].used /\ hnd'[g].app # None
                         => hnd'[g].slot = s /\ hnd'[g].reg = reg'[s].id,
         reg'[s].name # None =>
           \E g \in Hs : hnd'[g].used /\ hnd'[g].app = reg'[s].owner /\ reg'[s].owner # None /\ hnd'[g].slot = s
  PROVE  Inv'
<1> USE DEF Inv
<1>0. s # -1 /\ <<s, 1>> \in BufIds /\ <<s, 1>> # NoBuf /\ <<s, 1>>[1] = s
  BY OwnIds, Constants
<1>1. \A g \in Hs : hnd[g].used /\ hnd[g].app # None =>
        /\ hnd[g].slot \in Slots /\ hnd[g].slot # s /\ hnd'[g] = hnd[g]
        /\ reg'[hnd[g].slot] = reg[hnd[g].slot]
  <2> TAKE g \in Hs
  <2> HAVE hnd[g].used /\ hnd[g].app # None
  <2>1. hnd[g].slot \in Slots /\ Used(hnd[g].slot)
    BY Types DEF IInv, DescriptorsLinked, HndType
  <2>2. hnd[g].slot # s
    BY <2>1 DEF Used
  <2> QED
    BY <2>1, <2>2
<1>2. TasksOK'
  BY DEF IInv, TasksOK
<1>3. JobsOK'
  <2>1. ASSUME NEW b \in Apps, at[b] \notin {"idle", "cleanup"}
        PROVE  JobOK(b)'
    <3>1. job[b].h \in Hs /\ hnd[job[b].h].used /\ hnd[job[b].h].app = b /\ b # None /\ JobOK(b)
      BY <2>1, JobFacts, MineFacts DEF IInv, JobsOK
    <3>2. hnd'[job[b].h] = hnd[job[b].h] /\ reg'[hnd[job[b].h].slot] = reg[hnd[job[b].h].slot]
      BY <1>1, <3>1
    <3> QED
      BY <2>1, <3>1, <3>2 DEF JobOK
  <2>2. ASSUME NEW b \in Apps, at[b] \in {"idle", "cleanup"}
        PROVE  JobOK(b)'
    BY <2>2, IdleJob
  <2> QED
    BY <2>1, <2>2 DEF JobsOK
<1>4. IdsOK'
  <2>1. ASSUME NEW t \in Slots
        PROVE  /\ reg'[t].active # NoBuf => reg'[t].active[1] = t
               /\ reg'[t].next # NoBuf => reg'[t].next[1] \in {t, -1}
    BY <1>0 DEF IInv, IdsOK
  <2>2. ASSUME NEW p \in Places, p \notin Own(s), buf'[p].id # NoBuf
        PROVE  PlaceIn(reg', buf'[p].id) = p
    <3>1. buf'[p] = buf[p] /\ buf[p].id \in BufIds /\ PlaceIn(reg, buf[p].id) = p
      BY <2>2, Types DEF BufType, IInv, IdsOK
    <3>2. buf[p].id[1] # s
      <4>1. SUFFICES ASSUME buf[p].id[1] = s PROVE FALSE
        OBVIOUS
      <4> QED
        BY <1>0, <2>2, <3>1, <4>1, PlaceType
    <3>3. buf[p].id # NoBuf /\ buf[p].id[1] # -1 => buf[p].id[1] \in Slots
      BY <3>1, IdForms
    <3>4. buf[p].id # NoBuf /\ buf[p].id[1] # -1 => reg[buf[p].id[1]].name = reg'[buf[p].id[1]].name
      BY <3>2, <3>3
    <3> QED
      BY <3>1, <3>4, PlaceSame
  <2>3. ASSUME NEW p \in Own(s), buf'[p].id # NoBuf
        PROVE  PlaceIn(reg', buf'[p].id) = p
    BY <2>3
  <2>4. \A p \in Shared : p \in Places /\ p \notin Own(s)
    BY OwnPlaces, SharedPlaces
  <2> QED
    BY <2>1, <2>2, <2>3, <2>4 DEF IInv, IdsOK
<1>5. SerialsOK'
  <2> SUFFICES ASSUME NEW t \in Slots, (reg[t].next # NoBuf /\ reg[t].next[1] = -1 /\ ~Late(t))'
               PROVE  NextIn(reg', t)[2] <= LastGen
    BY DEF SerialsOK
  <2>1. t # s
    BY <1>0
  <2>2. Late(t) => Late(t)'
    <3>1. SUFFICES ASSUME NEW b \in Apps, at[b] \in LateSteps, hnd[job[b].h].slot = t
                   PROVE  Late(t)'
      BY DEF Late
    <3>2. job[b].h \in Hs /\ hnd[job[b].h].used
      BY <3>1, JobFacts, MineFacts DEF LateSteps
    <3> QED
      BY <3>1, <3>2 DEF Late
  <2>3. NextIn(reg, t)[2] <= LastGen
    BY <2>1, <2>2 DEF IInv, SerialsOK
  <2> QED
    BY <2>1, <2>3 DEF NextIn
<1>6. DumpsOK' /\ LoadsBounded'
  BY DEF IInv, DumpsOK, LoadsBounded
<1>7. DescriptorsLinked'
  <2>1. ASSUME NEW g \in Hs, (hnd[g].used /\ hnd[g].app # None)'
        PROVE  (reg[hnd[g].slot].id = hnd[g].reg /\ Used(hnd[g].slot))'
    <3>1. CASE hnd[g].used
      <4>1. hnd'[g] = hnd[g] /\ hnd[g].app # None
        BY <2>1, <3>1
      <4> QED
        BY <1>1, <3>1, <4>1 DEF IInv, DescriptorsLinked, Used
    <3>2. CASE ~hnd[g].used
      BY <2>1, <3>2 DEF Used
    <3> QED
      BY <3>1, <3>2
  <2>2. ASSUME NEW t \in Slots, (Used(t) /\ reg[t].name # None)'
        PROVE  /\ (reg[t].owner # None)' => \E g \in Links(t)' : hnd'[g].app = reg'[t].owner
               /\ Links(t)' # {}
    <3>1. CASE t = s
      BY <2>2, <3>1 DEF Links
    <3>2. CASE t # s
      <4>1. /\ reg[t].owner # None => \E g \in Links(t) : hnd[g].app = reg[t].owner
            /\ Links(t) # {} /\ reg'[t] = reg[t]
        BY <2>2, <3>2 DEF IInv, DescriptorsLinked, Used
      <4>2. \A g \in Links(t) : g \in Links(t)' /\ hnd'[g] = hnd[g]
        BY DEF Links
      <4> QED
        BY <4>1, <4>2
    <3> QED
      BY <3>1, <3>2
  <2> QED
    BY <2>1, <2>2 DEF DescriptorsLinked
<1> QED
  BY <1>2, <1>3, <1>4, <1>5, <1>6, <1>7 DEF IInv

LEMMA ClearFacts ==
  ASSUME NEW b \in [Places -> BufType], NEW s \in Slots
  PROVE  /\ ClearOwn(b, s) \in [Places -> BufType]
         /\ \A p \in Places : p \notin Own(s) => ClearOwn(b, s)[p] = b[p]
         /\ \A p \in Own(s) : /\ ClearOwn(b, s)[p].id = NoBuf /\ ~ClearOwn(b, s)[p].valid
                              /\ ClearOwn(b, s)[p].data = b[p].data
<1>1. ASSUME NEW p \in Places
      PROVE  /\ ClearOwn(b, s)[p] \in BufType
             /\ p \notin Own(s) => ClearOwn(b, s)[p] = b[p]
             /\ p \in Own(s) => /\ ClearOwn(b, s)[p].id = NoBuf /\ ~ClearOwn(b, s)[p].valid
                                /\ ClearOwn(b, s)[p].data = b[p].data
  <2> DEFINE x == b[p]
  <2>1. x \in BufType
    OBVIOUS
  <2>2. ClearOwn(b, s)[p] = IF p[1] = s THEN [x EXCEPT !.id = NoBuf, !.valid = FALSE] ELSE x
    BY DEF ClearOwn
  <2>3. p[1] = s <=> p \in Own(s)
    BY OwnPlaces
  <2> HIDE DEF x
  <2>4. /\ ClearOwn(b, s)[p] \in BufType
        /\ p \notin Own(s) => ClearOwn(b, s)[p] = x
        /\ p \in Own(s) => /\ ClearOwn(b, s)[p].id = NoBuf /\ ~ClearOwn(b, s)[p].valid
                           /\ ClearOwn(b, s)[p].data = x.data
    BY <2>1, <2>2, <2>3, NoBufId DEF BufType
  <2> QED
    BY <2>4 DEF x
<1>2. Own(s) \subseteq Places
  BY OwnPlaces
<1>3. ClearOwn(b, s) = [p \in Places |-> ClearOwn(b, s)[p]]
  BY DEF ClearOwn
<1>4. ClearOwn(b, s) \in [Places -> BufType]
  BY <1>1, <1>3
<1> QED
  BY <1>1, <1>2, <1>4

LEMMA NewRegFacts ==
  ASSUME NEW k \in 0 .. LastReg
  PROVE  /\ NewReg(k) \in RegType /\ NewReg(k).id = k /\ NewReg(k).name = None /\ NewReg(k).owner = None
         /\ NewReg(k).active = NoBuf /\ NewReg(k).next = NoBuf /\ NewReg(k).prev = NoBuf
         /\ NewReg(k).dump = 0 /\ NewReg(k).vAct = 0 /\ NewReg(k).vInact = 0
BY NoBufId, Constants DEF NewReg, NoReg, RegType

LEMMA RegisterFailsInv ==
  ASSUME Inv, NEW a \in Apps, NEW n \in Names, RegisterFails(a, n)
  PROVE  Inv'
<1> USE DEF Inv
<1>1. PICK k \in 0 .. LastReg, s \in Slots : k = NextReg /\ s = NextReg % MaxTables /\ k # 0 /\ reg[s].id = 0
  BY RegFacts, Constants DEF RegisterFails
<1>2. /\ reg' = [reg EXCEPT ![s] = NewReg(k)] /\ lastReg' = k /\ buf' = ClearOwn(buf, s)
      /\ UNCHANGED <<lastLoad, cds, dmp, val, at, job, gnd, lock, seen>>
  BY <1>1 DEF RegisterFails, askVars, taskVars
<1>3. /\ reg' \in [Slots -> RegType] /\ reg'[s] = NewReg(k) /\ \A t \in Slots : t # s => reg'[t] = reg[t]
  BY <1>2, NewRegFacts, OneReg, Types
<1>4. /\ buf' \in [Places -> BufType] /\ \A p \in Places : p \notin Own(s) => buf'[p] = buf[p]
      /\ \A p \in Own(s) : buf'[p].id = NoBuf
  BY <1>2, ClearFacts, Types
<1>5. /\ hnd' \in [Hs -> HndType] /\ \A g \in Hs : hnd[g].used => hnd'[g] = hnd[g]
      /\ \A g \in Hs : hnd'[g].used /\ ~hnd[g].used => hnd'[g].app = None
      /\ lastHnd' \in 0 .. LastHandle /\ Unmade'
  <2>1. CASE UNCHANGED <<hnd, lastHnd>>
    BY <2>1, Types DEF Unmade
  <2>2. CASE Connect(None, 0, 0, FALSE)
    <3>1. 0 \in Slots /\ 0 \in 0 .. LastReg
      BY Constants DEF Slots
    <3>2. PICK c \in Apps \cup {None}, u \in BOOLEAN : c = None /\ u = FALSE /\ Connect(c, 0, 0, u)
      BY <2>2
    <3>3. PICK h \in Hs : /\ ~hnd[h].used /\ hnd' \in [Hs -> HndType] /\ hnd'[h].app = c
                          /\ \A g \in Hs : g # h => hnd'[g] = hnd[g]
                          /\ lastHnd' \in 0 .. LastHandle /\ Unmade'
      BY <3>1, <3>2, ConnectFacts
    <3> QED
      BY <3>2, <3>3
  <2> QED
    BY <2>1, <2>2 DEF RegisterFails
<1>6. TypeOK'
  BY <1>2, <1>3, <1>4, <1>5, Types, NextTypes
<1>7. /\ reg'[s].id # 0 /\ reg'[s].dump = 0 /\ reg'[s].active = NoBuf /\ reg'[s].next = NoBuf
      /\ reg'[s].name = None
  BY <1>1, <1>3, NewRegFacts
<1> QED
  BY <1>1, <1>2, <1>3, <1>4, <1>5, <1>6, <1>7, RegisterStep

LEMMA RegisteredReg ==
  ASSUME NEW z \in RegType, NEW n \in Names, NEW a \in Apps, NEW i \in BufIds, NEW k \in BufIds, NEW x,
         x = [[z EXCEPT !.name = n, !.owner = a] EXCEPT !.next = i, !.active = k]
  PROVE  /\ x \in RegType /\ x.id = z.id /\ x.name = n /\ x.owner = a /\ x.active = k /\ x.next = i
         /\ x.prev = z.prev /\ x.dump = z.dump
BY DEF RegType

\* A table is registered: where, its first buffer, and what it starts with.
FirstPlace(n, s) == <<s, IF n \in Double THEN 1 ELSE 0>>
RegisteredAs(n, s) ==
  \/ /\ reg'[s].active = NoBuf /\ reg'[s].next = NoBuf /\ \A p \in Own(s) : buf'[p].id = NoBuf
     /\ n \notin DumpOnly
     /\ cds' = IF n \in Critical THEN [cds EXCEPT ![n].made = TRUE] ELSE cds
  \/ /\ buf'[FirstPlace(n, s)].id = <<s, 1>> /\ ~buf'[FirstPlace(n, s)].valid
     /\ \A q \in Own(s) : q # FirstPlace(n, s) => buf'[q].id = NoBuf
     /\ reg'[s].next # NoBuf /\ reg'[s].active # NoBuf =>
          cds[n].loaded /\ buf'[FirstPlace(n, s)].data = cds[n].data
     /\ cds' = cds
     /\ \/ reg'[s].active = <<s, 1>> /\ reg'[s].next = NoBuf /\ n \in DumpOnly
        \/ reg'[s].next = <<s, 1>> /\ n \in Critical
RegisteredAt(a, n, s) ==
  /\ reg[s].id = 0 /\ s = NextReg % MaxTables
  /\ reg' \in [Slots -> RegType] /\ \A t \in Slots : t # s => reg'[t] = reg[t]
  /\ reg'[s].id # 0 /\ reg'[s].name = n /\ reg'[s].owner = a /\ reg'[s].dump = 0
  /\ reg'[s].active \in {NoBuf, <<s, 1>>} /\ reg'[s].next \in {NoBuf, <<s, 1>>}
  /\ lastReg' \in 0 .. LastReg /\ UNCHANGED <<lastLoad, dmp, val, at, job, gnd, lock, seen>>
  /\ buf' \in [Places -> BufType] /\ \A p \in Places : p \notin Own(s) => buf'[p] = buf[p]
  /\ cds' \in [Critical -> CdsType]
  /\ \E u \in BOOLEAN : Connect(a, s, reg'[s].id, u)
  /\ RegisteredAs(n, s)

LEMMA RegisteredFacts ==
  ASSUME IInv, NEW a \in Apps, NEW n \in Names, Register(a, n)
  PROVE  \E s \in Slots : RegisteredAt(a, n, s)
<1>1. PICK k \in 0 .. LastReg, s \in Slots : k = NextReg /\ s = NextReg % MaxTables /\ k # 0 /\ reg[s].id = 0
  BY RegFacts, Constants DEF Register
<1> DEFINE first == <<s, 1>>
           p     == FirstPlace(n, s)
           z     == NewReg(k)
           new   == [z EXCEPT !.name = n, !.owner = a]
           c     == ClearOwn(buf, s)
<1>2. lastReg' = k /\ UNCHANGED <<lastLoad, dmp, val, at, job, gnd, lock, seen>>
  BY <1>1 DEF Register, askVars, taskVars
<1>3. first \in BufIds /\ first # NoBuf /\ p \in Own(s) /\ p \in Places /\ NoBuf \in BufIds
  <2>1. 1 \in 1 .. LastGen
    BY Constants
  <2>2. first \in BufIds /\ first # NoBuf
    BY <2>1, OwnIds
  <2>3. p \in Own(s)
    BY DEF Own, FirstPlace
  <2> QED
    BY <2>2, <2>3, OwnPlaces, NoBufId
<1>4. z \in RegType /\ z.id = k /\ z.active = NoBuf /\ z.next = NoBuf /\ z.dump = 0
  BY NewRegFacts
<1>5. /\ c \in [Places -> BufType] /\ \A q \in Places : q \notin Own(s) => c[q] = buf[q]
      /\ \A q \in Own(s) : c[q].id = NoBuf /\ ~c[q].valid
  BY ClearFacts, Types
<1>6. reg \in [Slots -> RegType] /\ cds \in [Critical -> CdsType]
  BY Types
<1>7. CASE /\ n \notin DumpOnly
           /\ reg' = [reg EXCEPT ![s] = new] /\ buf' = c
           /\ cds' = IF n \in Critical THEN [cds EXCEPT ![n].made = TRUE] ELSE cds
           /\ Connect(a, s, k, FALSE)
  <2> HIDE DEF z, c
  <2>1. new \in RegType /\ new.id = k /\ new.name = n /\ new.owner = a /\ new.active = NoBuf
        /\ new.next = NoBuf /\ new.dump = 0
    BY <1>4 DEF RegType
  <2>2. cds' \in [Critical -> CdsType]
    BY <1>6, <1>7 DEF CdsType
  <2>3. PICK u \in BOOLEAN : u = FALSE
    OBVIOUS
  <2> HIDE DEF new
  <2>4. reg' \in [Slots -> RegType] /\ reg'[s] = new /\ \A t \in Slots : t # s => reg'[t] = reg[t]
    BY <1>6, <1>7, <2>1
  <2>5. Connect(a, s, reg'[s].id, u)
    BY <1>7, <2>1, <2>3, <2>4
  <2> QED
    BY <1>1, <1>2, <1>5, <1>7, <2>1, <2>2, <2>4, <2>5 DEF RegisteredAt, RegisteredAs
<1>8. CASE /\ n \in DumpOnly
           /\ reg' = [reg EXCEPT ![s] = [new EXCEPT !.active = first]]
           /\ buf' = [c EXCEPT ![p].id = first, ![p].reg = k]
           /\ Connect(a, s, k, FALSE) /\ UNCHANGED cds
  <2> DEFINE x == [new EXCEPT !.active = first]
             y == c[p]
             w == [y EXCEPT !.id = first, !.reg = k]
  <2> HIDE DEF z, c
  <2>1. x \in RegType /\ x.id = k /\ x.name = n /\ x.owner = a /\ x.active = first
        /\ x.next = NoBuf /\ x.dump = 0
    <3> HIDE DEF first
    <3> QED
      BY <1>3, <1>4 DEF RegType
  <2>2. PICK u \in BOOLEAN : u = FALSE
    OBVIOUS
  <2>3. reg' = [reg EXCEPT ![s] = x]
    BY <1>8
  <2> HIDE DEF new, x
  <2>4. reg' \in [Slots -> RegType] /\ reg'[s] = x /\ \A t \in Slots : t # s => reg'[t] = reg[t]
    BY <1>6, <2>1, <2>3
  <2>5. Connect(a, s, reg'[s].id, u)
    BY <1>8, <2>1, <2>2, <2>4
  <2>6. buf' = [c EXCEPT ![p] = w]
    <3> HIDE DEF p, first
    <3> QED
      BY <1>3, <1>5, <1>8
  <2>7. w \in BufType /\ w.id = first /\ w.data = y.data /\ w.valid = y.valid /\ ~y.valid
    <3>1. y \in BufType /\ ~y.valid
      BY <1>3, <1>5
    <3> HIDE DEF y, first, p
    <3> QED
      BY <1>3, <3>1 DEF BufType
  <2>8. /\ buf' \in [Places -> BufType] /\ buf'[p] = w /\ \A q \in Places : q # p => buf'[q] = c[q]
    <3> HIDE DEF p, w
    <3> QED
      BY <1>3, <1>5, <2>6, <2>7
  <2> HIDE DEF w, y
  <2>9. \A q \in Own(s) : q \in Places
    BY OwnPlaces
  <2>10. first # NoBuf
    BY <1>3
  <2> QED
    <3> HIDE DEF p, first
    <3>1. RegisteredAs(n, s)
      <4>1. reg'[s].active = <<s, 1>> /\ reg'[s].next = NoBuf
        BY <2>1, <2>4 DEF first
      <4>2. buf'[p].id = <<s, 1>> /\ ~buf'[p].valid
        BY <2>7, <2>8 DEF first
      <4>3. \A q \in Own(s) : q # p => buf'[q].id = NoBuf
        BY <1>5, <2>8, <2>9
      <4> QED
        BY <1>8, <4>1, <4>2, <4>3 DEF RegisteredAs, p
    <3>2. reg'[s].active \in {NoBuf, <<s, 1>>} /\ reg'[s].next \in {NoBuf, <<s, 1>>}
      BY <2>1, <2>4 DEF first
    <3>3. \A q \in Places : q \notin Own(s) => buf'[q] = buf[q]
      BY <1>3, <1>5, <2>8
    <3>4. cds' \in [Critical -> CdsType]
      BY <1>6, <1>8
    <3> QED
      BY <1>1, <1>2, <2>1, <2>4, <2>5, <2>8, <3>1, <3>2, <3>3, <3>4 DEF RegisteredAt
<1>9. CASE /\ n \in Critical
           /\ \E restored \in {TRUE, FALSE} :
                LET ok == restored /\ cds[n].loaded IN
                  /\ reg' = [reg EXCEPT ![s] = [new EXCEPT !.next = first,
                                                  !.active = IF ok THEN first ELSE NoBuf]]
                  /\ buf' = [c EXCEPT ![p].id = first, ![p].reg = k,
                               ![p].data = IF restored THEN cds[n].data ELSE @]
                  /\ Connect(a, s, k, ok)
           /\ UNCHANGED cds
  <2>1. PICK r \in BOOLEAN :
          /\ reg' = [reg EXCEPT ![s] = [new EXCEPT !.next = first,
                                           !.active = IF r /\ cds[n].loaded THEN first ELSE NoBuf]]
          /\ buf' = [c EXCEPT ![p].id = first, ![p].reg = k,
                       ![p].data = IF r THEN cds[n].data ELSE @]
          /\ Connect(a, s, k, r /\ cds[n].loaded)
    BY <1>9
  <2>2. PICK u \in BOOLEAN : u = (r /\ cds[n].loaded)
    OBVIOUS
  <2> DEFINE i == IF u THEN first ELSE NoBuf
             y == c[p]
             e == IF r THEN cds[n].data ELSE y.data
             x == [new EXCEPT !.next = first, !.active = i]
             w == [y EXCEPT !.id = first, !.reg = k, !.data = e]
  <2> HIDE DEF z, c
  <2>3. i \in BufIds /\ i \in {NoBuf, first} /\ (i # NoBuf <=> u)
    BY <1>3
  <2>4. x \in RegType /\ x.id = k /\ x.name = n /\ x.owner = a /\ x.active = i
        /\ x.next = first /\ x.dump = 0
    <3> HIDE DEF first, i
    <3> QED
      BY <1>3, <1>4, <2>3 DEF RegType
  <2>5. reg' = [reg EXCEPT ![s] = x]
    BY <2>1, <2>2
  <2> HIDE DEF new, x
  <2>6. reg' \in [Slots -> RegType] /\ reg'[s] = x /\ \A t \in Slots : t # s => reg'[t] = reg[t]
    BY <1>6, <2>4, <2>5
  <2>7. Connect(a, s, reg'[s].id, u)
    BY <2>1, <2>2, <2>4, <2>6
  <2>8. y \in BufType /\ ~y.valid /\ e \in Data
    BY <1>3, <1>5, <1>6, <1>9 DEF BufType, CdsType
  <2>9. buf' = [c EXCEPT ![p] = w]
    <3> HIDE DEF p, first
    <3> QED
      BY <1>3, <1>5, <2>1
  <2>10. w \in BufType /\ w.id = first /\ w.data = e /\ w.valid = y.valid
    <3> HIDE DEF y, first, p, e
    <3> QED
      BY <1>3, <2>8 DEF BufType
  <2>11. /\ buf' \in [Places -> BufType] /\ buf'[p] = w /\ \A q \in Places : q # p => buf'[q] = c[q]
    <3> HIDE DEF p, w
    <3> QED
      BY <1>3, <1>5, <2>9, <2>10
  <2>12. u => cds[n].loaded /\ e = cds[n].data
    BY <2>2
  <2> HIDE DEF w, y, i, e
  <2>13. \A q \in Own(s) : q \in Places
    BY OwnPlaces
  <2> QED
    <3> HIDE DEF p, first
    <3>1. RegisteredAs(n, s)
      <4>1. reg'[s].next = <<s, 1>> /\ (reg'[s].active # NoBuf => u)
        BY <2>3, <2>4, <2>6 DEF first
      <4>2. buf'[p].id = <<s, 1>> /\ ~buf'[p].valid /\ buf'[p].data = e
        BY <2>8, <2>10, <2>11 DEF first
      <4>3. \A q \in Own(s) : q # p => buf'[q].id = NoBuf
        BY <1>5, <2>11, <2>13
      <4> QED
        BY <1>9, <2>12, <4>1, <4>2, <4>3 DEF RegisteredAs, p
    <3>2. reg'[s].active \in {NoBuf, <<s, 1>>} /\ reg'[s].next \in {NoBuf, <<s, 1>>}
      BY <2>3, <2>4, <2>6 DEF first
    <3>3. \A q \in Places : q \notin Own(s) => buf'[q] = buf[q]
      BY <1>3, <1>5, <2>11
    <3>4. cds' \in [Critical -> CdsType]
      BY <1>6, <1>9
    <3> QED
      BY <1>1, <1>2, <2>4, <2>6, <2>7, <2>11, <3>1, <3>2, <3>3, <3>4 DEF RegisteredAt
<1> QED
  BY <1>1, <1>7, <1>8, <1>9 DEF Register, FirstPlace

LEMMA RegisterInv ==
  ASSUME Inv, NEW a \in Apps, NEW n \in Names, Register(a, n)
  PROVE  Inv'
<1> USE DEF Inv
<1>1. PICK s \in Slots : RegisteredAt(a, n, s)
  BY RegisteredFacts
<1>2. PICK u \in BOOLEAN, i \in 0 .. LastReg : i = reg'[s].id /\ Connect(a, s, i, u)
  <2>1. reg'[s].id \in 0 .. LastReg
    BY <1>1 DEF RegisteredAt, RegType
  <2> QED
    BY <1>1, <2>1 DEF RegisteredAt
<1>3. PICK h \in Hs : /\ ~hnd[h].used /\ hnd' \in [Hs -> HndType]
                      /\ hnd'[h].used /\ hnd'[h].app = a /\ hnd'[h].slot = s /\ hnd'[h].reg = i
                      /\ \A g \in Hs : g # h => hnd'[g] = hnd[g]
                      /\ lastHnd' \in 0 .. LastHandle /\ Unmade'
  BY <1>2, ConnectFacts
<1>4. TypeOK'
  BY <1>1, <1>3, Types, NextTypes DEF RegisteredAt
<1>5. \A p \in Own(s) : buf'[p].id = NoBuf \/ (buf'[p].id = <<s, 1>> /\ p = PlaceIn(reg', <<s, 1>>))
  <2>1. PlaceIn(reg', <<s, 1>>) = FirstPlace(n, s)
    <3>0. 1 \in 1 .. LastGen
      BY Constants
    <3>1. <<s, 1>> # NoBuf /\ s # -1
      BY <3>0, OwnIds
    <3>2. reg'[s].name = n
      BY <1>1 DEF RegisteredAt
    <3> QED
      BY <3>1, <3>2 DEF PlaceIn, FirstPlace
  <2> QED
    BY <1>1, <2>1 DEF RegisteredAt, RegisteredAs
<1>6. a # None
  BY Constants
<1> QED
  BY <1>1, <1>2, <1>3, <1>4, <1>5, <1>6, RegisterStep DEF RegisteredAt

\* A descriptor is released: its record is freed, or loses its owner at most.
Freed(s, h) ==
  /\ Links(s) = {h} /\ buf' = ClearOwn(Discarded(s), s)
  /\ reg'[s].id = 0 /\ reg'[s].owner = None /\ reg'[s].next = NoBuf
Left(a, s, h) ==
  /\ buf' = buf /\ reg'[s].id = reg[s].id /\ reg'[s].next = reg[s].next
  /\ reg'[s].owner = (IF reg[s].owner = a THEN None ELSE reg[s].owner)
  /\ reg'[s].owner # None \/ Links(s) # {h}
ReleasedAt(a, h, s) ==
  /\ s = hnd[h].slot /\ h \in Links(s) /\ reg[s].id = hnd[h].reg /\ reg[s].id # 0
  /\ reg' \in [Slots -> RegType] /\ \A t \in Slots : t # s => reg'[t] = reg[t]
  /\ reg'[s].name = reg[s].name /\ reg'[s].active = reg[s].active /\ reg'[s].dump = reg[s].dump
  /\ Freed(s, h) \/ Left(a, s, h)
  /\ hnd' \in [Hs -> HndType] /\ hnd'[h] = NoHnd /\ \A g \in Hs : g # h => hnd'[g] = hnd[g]
  /\ UNCHANGED <<lastReg, lastHnd, lastLoad, cds, val, lock, job, gnd>>
  /\ seen' \in [Hs -> Data] /\ \A g \in Hs : g # h => seen'[g] = seen[g]

LEMMA ReleaseFacts ==
  ASSUME IInv, NEW a \in Apps, NEW h \in Mine(a), ReleaseAccDesc(a, h)
  PROVE  \E s \in Slots : ReleasedAt(a, h, s)
<1>1. PICK s \in Slots : /\ s = hnd[h].slot /\ h \in Links(s) /\ reg[s].id = hnd[h].reg /\ reg[s].id # 0
                         /\ h \in Hs
  BY MineFacts DEF Links, IInv, DescriptorsLinked
<1>2. NoHnd \in HndType
  <2>1. 0 \in Slots /\ 0 \in 0 .. LastReg
    BY Constants DEF Slots
  <2> QED
    BY <2>1, NoBufId DEF NoHnd, HndType
<1>3. /\ hnd' \in [Hs -> HndType] /\ hnd'[h] = NoHnd /\ \A g \in Hs : g # h => hnd'[g] = hnd[g]
  BY <1>1, <1>2, OneHnd, Types DEF ReleaseAccDesc
<1>4. seen' \in [Hs -> Data] /\ \A g \in Hs : g # h => seen'[g] = seen[g]
  BY Types DEF ReleaseAccDesc, Data
<1> DEFINE z == reg[s]
           o == IF z.owner = a THEN None ELSE z.owner
<1>5. z \in RegType /\ o \in Apps \cup {None} /\ reg \in [Slots -> RegType]
  BY Types DEF RegType
<1>6. CASE /\ o = None /\ Links(s) = {h}
           /\ reg' = [reg EXCEPT ![s] = [@ EXCEPT !.id = 0, !.owner = None, !.next = NoBuf]]
           /\ buf' = ClearOwn(Discarded(s), s)
  <2> DEFINE x == [z EXCEPT !.id = 0, !.owner = None, !.next = NoBuf]
  <2>1. reg' = [reg EXCEPT ![s] = x]
    BY <1>6
  <2> HIDE DEF z, o
  <2>2. /\ x \in RegType /\ x.id = 0 /\ x.owner = None /\ x.next = NoBuf
        /\ x.name = z.name /\ x.active = z.active /\ x.dump = z.dump
    <3>1. z \in RegType /\ 0 \in 0 .. LastReg /\ NoBuf \in BufIds
      BY <1>5, NoBufId, Constants
    <3> QED
      BY <3>1 DEF RegType
  <2> HIDE DEF x
  <2>3. reg' \in [Slots -> RegType] /\ reg'[s] = x /\ \A t \in Slots : t # s => reg'[t] = reg[t]
    BY <1>5, <2>1, <2>2
  <2>4. Freed(s, h)
    BY <1>6, <2>2, <2>3 DEF Freed
  <2> QED
    BY <1>1, <1>3, <1>4, <2>2, <2>3, <2>4 DEF ReleasedAt, ReleaseAccDesc, z
<1>7. CASE /\ ~(o = None /\ Links(s) = {h})
           /\ reg' = [reg EXCEPT ![s].owner = o] /\ UNCHANGED buf
  <2> DEFINE x == [z EXCEPT !.owner = o]
  <2>1. reg' = [reg EXCEPT ![s] = x]
    BY <1>5, <1>7
  <2> HIDE DEF z, o
  <2>2. /\ x \in RegType /\ x.id = z.id /\ x.owner = o /\ x.next = z.next
        /\ x.name = z.name /\ x.active = z.active /\ x.dump = z.dump
    BY <1>5 DEF RegType
  <2> HIDE DEF x
  <2>3. reg' \in [Slots -> RegType] /\ reg'[s] = x /\ \A t \in Slots : t # s => reg'[t] = reg[t]
    BY <1>5, <2>1, <2>2
  <2>4. Left(a, s, h)
    BY <1>7, <2>2, <2>3 DEF Left, z, o
  <2> QED
    BY <1>1, <1>3, <1>4, <2>2, <2>3, <2>4 DEF ReleasedAt, ReleaseAccDesc, z
<1> QED
  BY <1>1, <1>6, <1>7 DEF ReleaseAccDesc

LEMMA ReleaseInv ==
  ASSUME Inv, NEW a \in Apps, NEW h \in Mine(a), ReleaseAccDesc(a, h), at[a] \in {"idle", "cleanup"},
         UNCHANGED <<at, dmp>>
  PROVE  Inv'
<1> USE DEF Inv
<1>1. PICK s \in Slots : ReleasedAt(a, h, s)
  BY ReleaseFacts
<1>2. h \in Hs /\ hnd[h].used /\ hnd[h].app = a /\ a # None
  BY MineFacts
<1>3. /\ buf' \in [Places -> BufType]
      /\ \A p \in Places : buf'[p].id \in {buf[p].id, NoBuf}
  <2>1. CASE Freed(s, h)
    <3>1. \A p \in Places : Discarded(s)[p].id \in {buf[p].id, NoBuf}
      BY DiscardedFacts
    <3>2. Discarded(s) \in [Places -> BufType]
      BY DiscardedFacts
    <3> QED
      BY <2>1, <3>1, <3>2, ClearFacts DEF Freed
  <2>2. CASE Left(a, s, h)
    BY <2>2, Types DEF Left
  <2> QED
    BY <1>1, <2>1, <2>2 DEF ReleasedAt
<1>4. \A t \in Slots : reg'[t].name = reg[t].name /\ reg'[t].active = reg[t].active
                       /\ reg'[t].dump = reg[t].dump /\ reg'[t].next \in {reg[t].next, NoBuf}
  BY <1>1 DEF ReleasedAt, Freed, Left
<1>5. TypeOK'
  BY <1>1, <1>3, Types, NextTypes DEF ReleasedAt
<1>6. TasksOK'
  BY <1>1 DEF IInv, TasksOK, ReleasedAt
<1>7. JobsOK'
  <2>1. ASSUME NEW b \in Apps
        PROVE  JobOK(b)'
    <3>1. CASE at[b] \in {"idle", "cleanup"}
      BY <3>1, IdleJob
    <3>2. CASE at[b] \notin {"idle", "cleanup"}
      <4>1. job[b].h \in Hs /\ hnd[job[b].h].used /\ hnd[job[b].h].app = b /\ b # a /\ b # None
            /\ hnd[job[b].h].slot \in Slots
        BY <3>2, JobFacts, MineFacts
      <4>2. at[b] \in OwnerSteps => reg'[hnd[job[b].h].slot].owner = b
        <5>1. SUFFICES ASSUME at[b] \in OwnerSteps PROVE reg'[hnd[job[b].h].slot].owner = b
          OBVIOUS
        <5>2. reg[hnd[job[b].h].slot].owner = b
          BY <3>2, <5>1 DEF IInv, JobsOK, JobOK
        <5>3. CASE hnd[job[b].h].slot # s
          BY <1>1, <4>1, <5>2, <5>3 DEF ReleasedAt
        <5>4. CASE hnd[job[b].h].slot = s
          <6>1. job[b].h \in Links(s) /\ job[b].h # h
            BY <1>2, <4>1, <5>4 DEF Links
          <6>2. Left(a, s, h)
            BY <1>1, <6>1 DEF ReleasedAt, Freed
          <6> QED
            BY <4>1, <5>2, <5>4, <6>2 DEF Left
        <5> QED
          BY <5>3, <5>4
      <4>3. \A g \in Hs : g # h => hnd'[g] = hnd[g]
        BY <1>1 DEF ReleasedAt
      <4> QED
        BY <1>1, <1>2, <4>1, <4>2, <4>3, OthersKeep DEF ReleasedAt
    <3> QED
      BY <3>1, <3>2
  <2> QED
    BY <2>1 DEF JobsOK
<1>8. IdsOK'
  <2>1. \A id \in BufIds : PlaceIn(reg', id) = PlaceIn(reg, id)
    <3> TAKE id \in BufIds
    <3>1. id # NoBuf /\ id[1] # -1 => id[1] \in Slots
      BY IdForms
    <3> QED
      BY <1>4, <3>1, PlaceSame
  <2>2. \A p \in Places : (buf[p].id # NoBuf)' => buf'[p].id = buf[p].id /\ buf[p].id \in BufIds
    BY <1>3, Types DEF BufType
  <2>3. \A p \in Places : (buf[p].id # NoBuf)' => PlaceIn(reg', buf'[p].id) = p
    BY <2>1, <2>2 DEF IInv, IdsOK
  <2>4. \A p \in Shared : (buf[p].id # NoBuf)' => buf'[p].id[2] <= lastLoad'
    BY <1>1, <2>2, SharedPlaces DEF IInv, IdsOK, ReleasedAt
  <2> QED
    BY <1>4, <2>3, <2>4 DEF IInv, IdsOK
<1>9. SerialsOK'
  <2>1. ASSUME NEW t \in Slots, Late(t)
        PROVE  Late(t)'
    <3>1. PICK b \in Apps : at[b] \in LateSteps /\ hnd[job[b].h].slot = t
      BY <2>1 DEF Late
    <3>2. job[b].h \in Hs /\ hnd[job[b].h].app = b /\ b # a
      BY <3>1, JobFacts, MineFacts DEF LateSteps
    <3>3. hnd'[job[b].h] = hnd[job[b].h]
      BY <1>1, <1>2, <3>2 DEF ReleasedAt
    <3> QED
      BY <1>1, <3>1, <3>3 DEF Late, ReleasedAt
  <2> QED
    BY <1>4, <2>1, SerialsFrame DEF IInv
<1>10. DumpsOK' /\ LoadsBounded'
  <2>1. ASSUME NEW t \in Slots, reg'[t].dump # 0
        PROVE  dmp'[reg'[t].dump].buf \in Shared /\ dmp'[reg'[t].dump].state # "unused"
    BY <1>4, <2>1 DEF IInv, DumpsOK
  <2> QED
    BY <1>1, <2>1 DEF IInv, DumpsOK, LoadsBounded, ReleasedAt
<1>11. DescriptorsLinked'
  <2>1. ASSUME NEW g \in Hs, (hnd[g].used /\ hnd[g].app # None)'
        PROVE  (reg[hnd[g].slot].id = hnd[g].reg /\ Used(hnd[g].slot))'
    <3>1. g # h /\ hnd'[g] = hnd[g]
      BY <1>1, <2>1 DEF ReleasedAt, NoHnd
    <3>2. hnd[g].slot \in Slots /\ reg[hnd[g].slot].id = hnd[g].reg /\ reg[hnd[g].slot].id # 0
      BY <2>1, <3>1, Types DEF HndType, IInv, DescriptorsLinked, Used
    <3>3. reg'[hnd[g].slot].id = reg[hnd[g].slot].id
      <4>1. CASE hnd[g].slot # s
        BY <1>1, <3>2, <4>1 DEF ReleasedAt
      <4>2. CASE hnd[g].slot = s
        <5>1. g \in Links(s)
          BY <2>1, <3>1, <4>2 DEF Links
        <5>2. Left(a, s, h)
          BY <1>1, <3>1, <5>1 DEF ReleasedAt, Freed
        <5> QED
          BY <4>2, <5>2 DEF Left
      <4> QED
        BY <4>1, <4>2
    <3> QED
      BY <3>1, <3>2, <3>3 DEF Used
  <2>2. ASSUME NEW t \in Slots, (Used(t) /\ reg[t].name # None)'
        PROVE  /\ (reg[t].owner # None)' => \E g \in Links(t)' : hnd'[g].app = reg'[t].owner
               /\ Links(t)' # {}
    <3>0. \A g \in Links(t) : g # h => g \in Links(t)' /\ hnd'[g] = hnd[g]
      BY <1>1 DEF Links, ReleasedAt
    <3>1. CASE t # s
      <4>1. /\ reg[t].owner # None => \E g \in Links(t) : hnd[g].app = reg[t].owner
            /\ Links(t) # {} /\ reg'[t] = reg[t]
        BY <1>1, <2>2, <3>1 DEF IInv, DescriptorsLinked, Used, ReleasedAt
      <4>2. h \notin Links(t)
        BY <1>1, <3>1 DEF ReleasedAt, Links
      <4> QED
        BY <3>0, <4>1, <4>2
    <3>2. CASE t = s
      <4>1. Left(a, s, h)
        BY <1>1, <2>2, <3>2 DEF ReleasedAt, Freed, Used
      <4>2. /\ reg[s].owner # None => \E g \in Links(s) : hnd[g].app = reg[s].owner
            /\ h \in Links(s)
        BY <1>1, <2>2, <3>2, <4>1 DEF IInv, DescriptorsLinked, Used, ReleasedAt, Left
      <4>3. CASE reg'[s].owner # None
        <5>1. reg'[s].owner = reg[s].owner /\ reg[s].owner # a /\ reg[s].owner # None
          BY <4>1, <4>3 DEF Left
        <5>2. PICK g \in Links(s) : hnd[g].app = reg[s].owner
          BY <4>2, <5>1
        <5> QED
          BY <1>2, <3>0, <3>2, <5>1, <5>2
      <4>4. CASE reg'[s].owner = None
        <5>1. PICK g \in Links(s) : g # h
          BY <4>1, <4>2, <4>4 DEF Left
        <5> QED
          BY <3>0, <3>2, <4>4, <5>1
      <4> QED
        BY <4>3, <4>4
    <3> QED
      BY <3>1, <3>2
  <2> QED
    BY <2>1, <2>2 DEF DescriptorsLinked
<1>12. Unmade'
  BY <1>1 DEF Unmade, ReleasedAt, NoHnd
<1> QED
  BY <1>5, <1>6, <1>7, <1>8, <1>9, <1>10, <1>11, <1>12 DEF IInv

\* The steps that write a descriptor, but for its links.
LEMMA HandlesKept ==
  ASSUME IInv, NEW a \in Apps,
         \/ \E h \in Mine(a) : GetAddress(a, h) \/ ReleaseAddress(a, h) \/ (\E d \in Images : Modified(a, h, d))
         \/ AddressStatus(a) \/ Notify(a)
  PROVE  lastHnd' = lastHnd /\ \A h \in Hs : hnd'[h].used <=> hnd[h].used
<1>1. hnd \in [Hs -> HndType]
  BY Types
<1>2. ASSUME NEW h \in Mine(a), GetAddress(a, h)
      PROVE  \A g \in Hs : hnd'[g].used <=> hnd[g].used
  BY <1>1, <1>2 DEF GetAddress, HndType
<1>3. ASSUME NEW h \in Mine(a), ReleaseAddress(a, h)
      PROVE  \A g \in Hs : hnd'[g].used <=> hnd[g].used
  BY <1>1, <1>3 DEF ReleaseAddress, HndType
<1>4. ASSUME NEW h \in Mine(a), NEW d \in Images, Modified(a, h, d)
      PROVE  \A g \in Hs : hnd'[g].used <=> hnd[g].used
  BY <1>1, <1>4 DEF Modified, HndType
<1>5. ASSUME AddressStatus(a)
      PROVE  \A g \in Hs : hnd'[g].used <=> hnd[g].used
  BY <1>1, <1>5 DEF AddressStatus, HndType
<1>6. ASSUME Notify(a)
      PROVE  \A g \in Hs : hnd'[g].used <=> hnd[g].used
  BY <1>1, <1>6 DEF Notify, HndType
<1> QED
  BY <1>2, <1>3, <1>4, <1>5, <1>6 DEF GetAddress, ReleaseAddress, Modified, AddressStatus, Notify

LEMMA HandledInv ==
  ASSUME Inv, IInv', lastHnd' = lastHnd, \A h \in Hs : hnd'[h].used <=> hnd[h].used
  PROVE  Inv'
BY DEF Inv, Unmade

LEMMA StartInv ==
  ASSUME Inv, NEW a \in Apps, Start(a)
  PROVE  Inv'
<1> USE DEF Inv
<1>1. ASSUME NEW n \in Names, Register(a, n) \/ RegisterFails(a, n) \/ Share(a, n)
      PROVE  Inv'
  BY <1>1, RegisterInv, RegisterFailsInv, ShareInv
<1>2. ASSUME NEW h \in Mine(a), Unregister(a, h)
      PROVE  Inv'
  BY <1>2, ReleaseInv DEF Unregister, Begin
<1>3. ASSUME NEW h \in Mine(a),
             GetAddress(a, h) \/ ReleaseAddress(a, h) \/ (\E d \in Images : Modified(a, h, d))
      PROVE  Inv'
  <2>1. IInv'
    BY <1>3, GetAddressInv, ReleaseAddressInv, ModifiedInv
  <2> QED
    BY <1>3, <2>1, HandlesKept, HandledInv
<1>4. ASSUME NEW h \in Mine(a), Manage(a, h)
      PROVE  Inv'
  BY <1>4, ManageInv, HandledInv DEF Manage, userVars
<1>5. ASSUME NEW h \in Mine(a), NEW d \in Images, Load(a, h, d)
      PROVE  Inv'
  BY <1>5, LoadInv, HandledInv DEF Load, userVars
<1>6. ASSUME NEW h \in Mine(a), Update(a, h) \/ Validate(a, h) \/ DumpToBuffer(a, h)
      PROVE  Inv'
  BY <1>6, UpdateInv, ValidateInv, DumpToBufferInv, HandledInv DEF Update, Validate, DumpToBuffer, userVars
<1>7. ASSUME Exit(a)
      PROVE  Inv'
  BY <1>7, ExitInv, HandledInv DEF Exit, userVars
<1> QED
  BY <1>1, <1>2, <1>3, <1>4, <1>5, <1>6, <1>7 DEF Start

LEMMA ContinueInv ==
  ASSUME Inv, NEW a \in Apps, Continue(a)
  PROVE  Inv'
<1> USE DEF Inv
<1>1. ASSUME AddressStatus(a) \/ Notify(a)
      PROVE  Inv'
  BY <1>1, AddressStatusInv, NotifyInv, HandlesKept, HandledInv
<1>2. ASSUME LoadWrite(a) \/ LoadCheck(a) \/ Reserve(a) \/ Copy(a) \/ Activate(a)
      PROVE  Inv'
  <2>1. IInv'
    BY <1>2, LoadWriteInv, LoadCheckInv, ReserveInv, CopyInv, ActivateInv
  <2>2. UNCHANGED <<hnd, lastHnd>>
    BY <1>2 DEF LoadWrite, LoadCheck, Reserve, Copy, Activate, userVars
  <2> QED
    BY <2>1, <2>2, HandledInv
<1>3. ASSUME PickActive(a) \/ Save(a) \/ Discard(a) \/ ValidateFunction(a) \/ CleanUpEnd(a)
      PROVE  Inv'
  <2>1. IInv'
    BY <1>3, PickActiveInv, SaveInv, DiscardInv, ValidateFunctionInv, CleanUpEndInv
  <2>2. UNCHANGED <<hnd, lastHnd>>
    BY <1>3 DEF PickActive, Save, Discard, ValidateFunction, CleanUpEnd, userVars
  <2> QED
    BY <2>1, <2>2, HandledInv
<1>4. ASSUME NEW h \in Mine(a), CleanUpHandle(a, h)
      PROVE  Inv'
  BY <1>4, ReleaseInv DEF CleanUpHandle
<1>5. ASSUME NEW h \in Mine(a), Update(a, h) \/ Validate(a, h) \/ DumpToBuffer(a, h)
      PROVE  Inv'
  BY <1>5, UpdateInv, ValidateInv, DumpToBufferInv, HandledInv DEF Update, Validate, DumpToBuffer, userVars
<1> QED
  BY <1>1, <1>2, <1>3, <1>4, <1>5 DEF Continue

LEMMA GroundInv ==
  ASSUME Inv, Command \/ Carry \/ SendHkCmd
  PROVE  Inv'
<1> USE DEF Inv
<1>1. ASSUME NEW n \in Names, NEW b \in {TRUE, FALSE},
             FindTable("load", n) \/ FindTable("abort", n) \/ FindTable("validate", n) \/ DumpCmd(n, b)
      PROVE  Inv'
  <2>1. IInv'
    BY <1>1, FindTableInv, DumpCmdInv
  <2>2. UNCHANGED <<hnd, lastHnd>>
    BY <1>1 DEF FindTable, DumpCmd, userVars
  <2> QED
    BY <2>1, <2>2, HandledInv
<1>2. ASSUME Carry
      PROVE  Inv'
  <2>1. IInv'
    BY <1>2, LoadCmdInv, ReadFileInv, AbortLoadCmdInv, ValidateCmdInv, PrepareDumpInv DEF Carry
  <2>2. UNCHANGED <<hnd, lastHnd>>
    BY <1>2 DEF Carry, LoadCmd, ReadFile, AbortLoadCmd, ValidateCmd, PrepareDump, userVars
  <2> QED
    BY <2>1, <2>2, HandledInv
<1>3. ASSUME SendHkCmd
      PROVE  Inv'
  BY <1>3, SendHkCmdInv, HandledInv DEF SendHkCmd, userVars
<1> QED
  BY <1>1, <1>2, <1>3 DEF Command

LEMMA NextInv ==
  ASSUME Inv, [Next]_vars
  PROVE  Inv'
<1>1. CASE UNCHANGED vars
  BY <1>1 DEF vars, Inv, Unmade, IInv, TypeOK, TasksOK, JobsOK, JobOK, IdsOK, SerialsOK, DumpsOK, Late,
              LoadsBounded, DescriptorsLinked, Links, Used
<1> QED
  BY <1>1, StartInv, ContinueInv, GroundInv DEF Next

LEMMA InitInv ==
  ASSUME Init
  PROVE  Inv
<1>1. NoReg \in RegType /\ NoReg.id = 0 /\ NoReg.active = NoBuf /\ NoReg.next = NoBuf /\ NoReg.dump = 0
  BY NoBufId, Constants DEF NoReg, RegType
<1>2. 0 \in Slots /\ 0 \in 0 .. LastReg /\ 0 \in 0 .. LastHandle
  BY Constants DEF Slots
<1>3. NoHnd \in HndType /\ ~NoHnd.used
  BY <1>2, NoBufId DEF NoHnd, HndType
<1>4. [id |-> NoBuf, reg |-> 0, data |-> Blank, valid |-> FALSE] \in BufType
  BY <1>2, NoBufId DEF BufType, Data
<1>5. [state |-> "unused", source |-> NoBuf, buf |-> NoBuf] \in DmpType
  BY NoBufId DEF DmpType
<1>6. NoJob \in JobType /\ NoCmd \in CmdType /\ NoCmd.cmd = None /\ None # "prepare"
  BY NoCommand, NoBufId, Constants DEF NoJob, JobType, Data
<1>7. reg = [s \in Slots |-> NoReg] /\ hnd = [h \in Hs |-> NoHnd]
      /\ buf = [p \in Places |-> [id |-> NoBuf, reg |-> 0, data |-> Blank, valid |-> FALSE]]
      /\ dmp = [d \in 1 .. LastDump |-> [state |-> "unused", source |-> NoBuf, buf |-> NoBuf]]
      /\ lastLoad = 0 /\ gnd = NoCmd /\ at = [a \in Apps |-> "idle"] /\ job = [a \in Apps |-> NoJob]
  BY DEF Init
<1>8. TypeOK
  <2>1. cds \in [Critical -> CdsType] /\ val \in [1 .. MaxValidations -> {"free", "pending", "performed"}]
        /\ lock \in Apps \cup {None} /\ seen \in [Hs -> Data] /\ lastReg \in 0 .. LastReg
        /\ lastHnd \in 0 .. LastHandle
    BY <1>2 DEF Init, CdsType, Data
  <2> QED
    BY <1>1, <1>3, <1>4, <1>5, <1>7, <2>1, ShortTypes
<1>9. TasksOK /\ JobsOK
  BY <1>6, <1>7 DEF TasksOK, JobsOK, JobOK, Where, OwnerSteps
<1>10. IdsOK /\ SerialsOK
  <2>1. \A p \in Shared : p \in Places
    BY SharedPlaces
  <2> QED
    BY <1>1, <1>7, <2>1 DEF IdsOK, SerialsOK
<1>11. DumpsOK /\ LoadsBounded
  <2>1. \A d \in 1 .. LastDump : MaxLoads * (d - 1) \in Nat
    BY DumpRoom
  <2>2. \A d \in 1 .. LastDump : 0 <= LastLoad + MaxLoads * (d - 1)
    BY <2>1, Constants
  <2>3. 0 <= LastLoad + MaxLoads * LastDump
    BY SharedSerials, Constants
  <2> QED
    BY <1>1, <1>6, <1>7, <2>2, <2>3 DEF DumpsOK, LoadsBounded
<1>12. DescriptorsLinked /\ Unmade
  BY <1>1, <1>3, <1>7 DEF DescriptorsLinked, Used, Unmade
<1> QED
  BY <1>8, <1>9, <1>10, <1>11, <1>12 DEF Inv, IInv

LEMMA Invariance == Spec => []Inv
<1>1. Init => Inv
  BY InitInv
<1>2. Inv /\ [Next]_vars => Inv'
  BY NextInv
<1> QED
  BY <1>1, <1>2, PTL DEF Spec

\* The variables keep their types, the identifiers of buffers among them: within the
\* bounds, whatever the applications and the ground do (cfe_tbl_internal.h).
THEOREM TypesKept == Spec => []TypeOK
<1>1. Inv => TypeOK
  BY DEF Inv, IInv
<1> QED
  BY <1>1, Invariance, PTL

\* A descriptor leads to the record it was made for, and a registered table stays as
\* long as it has an owner or a user (CFE_TBL_TxnReleaseAccDesc).
THEOREM DescriptorsKept == Spec => []DescriptorsLinked
<1>1. Inv => DescriptorsLinked
  BY DEF Inv, IInv
<1> QED
  BY <1>1, Invariance, PTL
=============================================================================
