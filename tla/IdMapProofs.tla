----------------------------- MODULE IdMapProofs -----------------------------
(***************************************************************************)
(* Proofs about the OSAL object map, for any number of tasks, records,     *)
(* names, attempts and calls, and any range of serial numbers.             *)
(***************************************************************************)
EXTENDS IdMap, FiniteSetTheorems, WellFoundedInduction, TLAPS

-----------------------------------------------------------------------------
(* The invariant                                                           *)

Holders(i) == {t \in Tasks : Holds(t, i)}

\* What a task is creating or deleting, or waits to delete.
Owns(t, i) == HoldsExclusive(t, i) \/ Reserving(t, i)

\* A token fits the place its task has come to.
TokenOK(t) ==
  LET k == tok[t] IN
  /\ pc[t] \notin {"idle", "iterate"} => k.call \in DOMAIN Mode
  /\ pc[t] = "start" /\ k.call \in ById => k.id \in Serials
  /\ pc[t] \in {"allocated", "held", "finish", "waiting"} =>
       k.id \in Serials /\ SlotOf(k.id) = k.idx
  /\ pc[t] = "waiting" =>
       k.expected = k.id \/ (k.expected = RESERVED /\ Mode[k.call] = "EXCLUSIVE")
  /\ pc[t] = "finish" =>
       k.expected \in IF Mode[k.call] = "EXCLUSIVE" THEN {UNDEFINED, k.id} ELSE {RESERVED}
TokensOK == \A t \in Tasks : TokenOK(t)

OwnedReserved == \A t \in Tasks, i \in Slots : Owns(t, i) => active[i] = RESERVED
OneOwner == \A t, u \in Tasks, i \in Slots : Owns(t, i) /\ Owns(u, i) => t = u

\* Who shares a record that is to be deleted has asked for the same object.
SameId ==
  \A t, u \in Tasks, i \in Slots : Holds(t, i) /\ Reserving(u, i) => tok[t].id = tok[u].id

Ownership == OwnedReserved /\ OneOwner /\ SameId

IInv == TypeOK /\ TokensOK /\ Ownership /\ HoldersSafe /\ RecordsUsable

-----------------------------------------------------------------------------
(* Constants, serial numbers and counts                                    *)

LEMMA Constants ==
  /\ MaxObjects \in Nat \ {0} /\ IndexMask \in Nat /\ IndexMask >= 2 * MaxObjects - 1
  /\ MaxAttempts \in Nat \ {0} /\ MaxCalls \in [Tasks -> Nat]
  /\ NoTask \notin Tasks /\ NoName \notin Names /\ IsFiniteSet(Tasks)
BY TableAssumption, AttemptsAssumption, BoundAssumption, NullAssumption, FiniteAssumption

LEMMA Modes ==
  /\ DOMAIN Mode = {"create", "delete", "use", "info", "find", "translate", "rmfs"}
  /\ Mode["create"] = "EXCLUSIVE"
  /\ "none" \notin DOMAIN Mode
  /\ ById \subseteq DOMAIN Mode \ {"create"} /\ ByName \subseteq DOMAIN Mode \ {"create"}
BY DEF Mode, ById, ByName

\* A slot is a remainder.
LEMMA SlotOfType ==
  ASSUME NEW n \in Nat
  PROVE  SlotOf(n) \in Slots
BY Constants DEF SlotOf, Slots

\* A serial number that is tried is one, and its slot is a slot.
LEMMA ProbeType ==
  ASSUME lastIssued \in Serials, NEW k \in 1 .. MaxObjects
  PROVE  /\ Probe[k].serial \in Serials /\ Probe[k].slot \in Slots
         /\ SlotOf(Probe[k].serial) = Probe[k].slot
<1> DEFINE n == lastIssued + k
<1>1. n \in Nat /\ n < IndexMask + MaxObjects
  BY Constants DEF Serials
<1>2. SlotOf(IndexMask) \in 0 .. MaxObjects - 1
  BY SlotOfType, Constants DEF Slots
<1>3. Wrapped(n) \in Serials
  BY <1>1, <1>2, Constants DEF Wrapped, Serials
<1>4. Wrapped(n) \in Nat
  BY <1>3, Constants DEF Serials
<1> QED
  BY <1>3, <1>4, SlotOfType DEF Probe

\* The first record, or probe, of several is one of them.
LEMMA MinOf ==
  ASSUME NEW S \in SUBSET Nat, S # {}
  PROVE  Min(S) \in S
<1>1. PICK x \in S : \A y \in S : <<y, x>> \notin OpToRel(<, Nat)
  BY WFMin, NatLessThanWellFounded
<1>2. \A y \in S : ~(y < x)
  BY <1>1, Zenon DEF OpToRel
<1>3. \A y \in S : x <= y
  BY <1>2
<1> QED
  BY <1>3 DEF Min

\* How many tasks there are in a set of tasks.
LEMMA CountOf ==
  ASSUME NEW S \in SUBSET Tasks
  PROVE  /\ IsFiniteSet(S) /\ Cardinality(S) \in 0 .. Cardinality(Tasks)
         /\ Cardinality(S) = 0 <=> S = {}
<1>1. IsFiniteSet(Tasks)
  BY Constants
<1>2. IsFiniteSet(S) /\ Cardinality(S) \in Nat /\ Cardinality(Tasks) \in Nat
      /\ Cardinality(S) <= Cardinality(Tasks)
  BY <1>1, FS_Subset, FS_CardinalityType
<1> QED
  BY <1>2, FS_EmptySet

\* ... and in one more or one less.
LEMMA CountStep ==
  ASSUME NEW S \in SUBSET Tasks, NEW t \in Tasks
  PROVE  /\ t \notin S => Cardinality(S \cup {t}) = Cardinality(S) + 1
         /\ t \in S => Cardinality(S \ {t}) = Cardinality(S) - 1
BY CountOf, FS_AddElement, FS_RemoveElement

-----------------------------------------------------------------------------
(* Steps that change who holds nothing                                     *)

Records == Ownership /\ HoldersSafe /\ RecordsUsable

\* Nobody takes or leaves a record, and no record changes.
LEMMA Still ==
  ASSUME TypeOK, Records, UNCHANGED <<active, refcount>>,
         \A u \in Tasks, i \in Slots :
           /\ Holds(u, i)' <=> Holds(u, i)
           /\ HoldsExclusive(u, i)' <=> HoldsExclusive(u, i)
           /\ Reserving(u, i)' <=> Reserving(u, i)
           /\ Holds(u, i) \/ Reserving(u, i) => tok'[u].id = tok[u].id
  PROVE  Records'
<1> USE DEF Records
<1>1. Ownership'
  BY DEF Ownership, OwnedReserved, OneOwner, SameId, Owns
<1>2. HoldersSafe'
  BY DEF HoldersSafe, ExclusiveAlone, HeldKeepsId
<1>3. RefcountExact'
  <2>1. ASSUME NEW i \in Slots
        PROVE  {t \in Tasks : Holds(t, i)}' = {t \in Tasks : Holds(t, i)}
    BY <2>1
  <2> QED
    BY <2>1 DEF RecordsUsable, RefcountExact
<1>4. ReservedHasOwner' /\ SerialFindsSlot'
  BY DEF RecordsUsable, ReservedHasOwner, SerialFindsSlot
<1> QED
  BY <1>1, <1>2, <1>3, <1>4 DEF RecordsUsable

\* Task t has no record, and has not reserved one.
HasNothing(t) == \A i \in Slots : ~Holds(t, i) /\ ~Reserving(t, i)

LEMMA Nothing ==
  ASSUME NEW t \in Tasks
  PROVE  /\ pc[t] \in {"idle", "start", "iterate", "refused"} => HasNothing(t)
         /\ pc[t] = "waiting" /\ tok[t].expected # RESERVED => HasNothing(t)
BY DEF HasNothing, Holds, Reserving

\* Task t goes from one place where it has nothing to another.
LEMMA Aside ==
  ASSUME TypeOK, TokensOK, Records, UNCHANGED <<active, refcount>>, NEW t \in Tasks,
         NEW place \in {"idle", "start", "iterate"}, NEW token \in TokenType,
         HasNothing(t),
         pc' = [pc EXCEPT ![t] = place], tok' = [tok EXCEPT ![t] = token],
         place = "start" => token.call \in DOMAIN Mode,
         place = "start" /\ token.call \in ById => token.id \in Serials
  PROVE  /\ TokensOK' /\ Records'
         /\ pc' \in [Tasks -> {"idle", "start", "waiting", "allocated", "held", "finish",
                               "refused", "iterate"}]
         /\ tok' \in [Tasks -> TokenType]
<1>1. /\ \A u \in Tasks : u # t => pc'[u] = pc[u] /\ tok'[u] = tok[u]
      /\ pc'[t] = place /\ tok'[t] = token
  BY DEF TypeOK
<1>2. TokensOK'
  <2>1. ASSUME NEW u \in Tasks
        PROVE  TokenOK(u)'
    <3>1. CASE u = t
      BY <1>1, <3>1 DEF TokenOK
    <3>2. CASE u # t
      BY <1>1, <2>1, <3>2 DEF TokenOK, TokensOK
    <3> QED
      BY <3>1, <3>2
  <2> QED
    BY <2>1 DEF TokensOK
<1>3. Records'
  <2>1. ASSUME NEW u \in Tasks, NEW i \in Slots
        PROVE  /\ Holds(u, i)' <=> Holds(u, i)
               /\ HoldsExclusive(u, i)' <=> HoldsExclusive(u, i)
               /\ Reserving(u, i)' <=> Reserving(u, i)
               /\ Holds(u, i) \/ Reserving(u, i) => tok'[u].id = tok[u].id
    <3>1. CASE u = t
      BY <1>1, <2>1, <3>1 DEF Holds, HoldsExclusive, Reserving, HasNothing
    <3>2. CASE u # t
      BY <1>1, <2>1, <3>2 DEF Holds, HoldsExclusive, Reserving
    <3> QED
      BY <3>1, <3>2
  <2> QED
    BY <2>1, Still
<1> QED
  BY <1>2, <1>3 DEF TypeOK

\* The token of no call, and of a call that begins.
LEMMA TokenTypes ==
  /\ NoToken \in TokenType
  /\ \A c \in DOMAIN Mode : [NoToken EXCEPT !.call = c] \in TokenType
  /\ \A c \in DOMAIN Mode, n \in Names : [NoToken EXCEPT !.call = c, !.name = n] \in TokenType
  /\ \A c \in DOMAIN Mode, id \in Serials : [NoToken EXCEPT !.call = c, !.id = id] \in TokenType
<1>1. 0 \in Slots /\ 0 \in 0 .. MaxAttempts - 1
  BY Constants DEF Slots
<1> QED
  BY <1>1 DEF NoToken, TokenType

LEMMA StepBegin ==
  ASSUME IInv, NEW t \in Tasks, CallBegins(t)
  PROVE  IInv'
<1> USE DEF IInv, Records
<1>1. ASSUME NEW token \in TokenType, Begin(t, token), token.call \in DOMAIN Mode,
             token.call \in ById => token.id \in Serials
      PROVE  IInv'
  <2>1. /\ pc[t] = "idle" /\ pc' = [pc EXCEPT ![t] = "start"]
        /\ tok' = [tok EXCEPT ![t] = token]
        /\ UNCHANGED <<active, name, refcount, lastIssued, lock, iter, shutdown>>
        /\ budget[t] > 0 /\ budget' = [budget EXCEPT ![t] = @ - 1]
    BY <1>1 DEF Begin, tableVars
  <2>2. budget' \in [Tasks -> Nat]
    BY <2>1 DEF TypeOK
  <2> QED
    BY <1>1, <2>1, <2>2, Aside, Nothing DEF TypeOK
<1>2. CASE BeginCreate(t)
  <2>1. PICK n \in Names : Begin(t, [NoToken EXCEPT !.call = "create", !.name = n])
    BY <1>2 DEF BeginCreate
  <2> DEFINE token == [NoToken EXCEPT !.call = "create", !.name = n]
  <2>2. token.call = "create" /\ "create" \notin ById
    BY DEF NoToken, ById
  <2> QED
    BY <1>1, <2>1, <2>2, TokenTypes, Modes
<1>3. CASE BeginById(t)
  <2>1. PICK c \in ById \cap Calls[t], id \in Serials :
          Begin(t, [NoToken EXCEPT !.call = c, !.id = id])
    BY <1>3 DEF BeginById
  <2> DEFINE token == [NoToken EXCEPT !.call = c, !.id = id]
  <2>2. token.call = c /\ token.id = id
    BY DEF NoToken
  <2> QED
    BY <1>1, <2>1, <2>2, TokenTypes, Modes
<1>4. CASE BeginByName(t)
  <2>1. PICK c \in ByName \cap Calls[t], n \in Names :
          Begin(t, [NoToken EXCEPT !.call = c, !.name = n])
    BY <1>4 DEF BeginByName
  <2> DEFINE token == [NoToken EXCEPT !.call = c, !.name = n]
  <2>2. token.call = c /\ c \notin ById
    BY DEF NoToken, ById, ByName
  <2> QED
    BY <1>1, <2>1, <2>2, TokenTypes, Modes
<1>5. CASE BeginForEach(t)
  <2>1. /\ pc[t] = "idle" /\ pc' = [pc EXCEPT ![t] = "iterate"]
        /\ iter' = [iter EXCEPT ![t] = -1] /\ budget[t] > 0
        /\ budget' = [budget EXCEPT ![t] = @ - 1]
        /\ UNCHANGED <<active, name, refcount, lastIssued, lock, tok, shutdown>>
    BY <1>5 DEF BeginForEach, tableVars
  <2>2. tok' = [tok EXCEPT ![t] = tok[t]] /\ tok[t] \in TokenType
    BY <2>1 DEF TypeOK
  <2>3. iter' \in [Tasks -> Slots \cup {-1, NoIter}] /\ budget' \in [Tasks -> Nat]
    BY <2>1 DEF TypeOK
  <2> QED
    BY <2>1, <2>2, <2>3, Aside, Nothing DEF TypeOK
<1> QED
  BY <1>2, <1>3, <1>4, <1>5 DEF CallBegins

LEMMA StepShutdown ==
  ASSUME IInv, Shutdown
  PROVE  IInv'
<1>1. shutdown' \in BOOLEAN /\ UNCHANGED <<active, name, refcount, lastIssued, lock, pc, tok, iter, budget>>
  BY DEF Shutdown, tableVars
<1>2. TypeOK' /\ TokensOK'
  BY <1>1 DEF IInv, TypeOK, TokensOK, TokenOK
<1>3. Records'
  BY <1>1, Still DEF IInv, Records, Holds, HoldsExclusive, Reserving
<1> QED
  BY <1>2, <1>3 DEF IInv, Records

\* A call that has come to nothing returns.
LEMMA StepReturn ==
  ASSUME IInv, NEW t \in Tasks, pc[t] = "start", Return(t), lock' \in Tasks \cup {NoTask},
         UNCHANGED <<active, name, refcount, lastIssued, iter, shutdown, budget>>
  PROVE  IInv'
<1>1. PICK place \in {"idle", "iterate"} : pc' = [pc EXCEPT ![t] = place]
  BY DEF Return
<1> QED
  BY <1>1, Aside, Nothing, TokenTypes DEF IInv, Records, TypeOK, Return

LEMMA StepFail ==
  ASSUME IInv, NEW t \in Tasks, AllocateFail(t) \/ SearchFail(t) \/ SearchReserved(t)
  PROVE  IInv'
<1>1. lock \in Tasks \cup {NoTask}
  BY DEF IInv, TypeOK
<1> QED
  BY <1>1, StepReturn DEF AllocateFail, SearchFail, SearchReserved, tableVars

LEMMA StepIterator ==
  ASSUME IInv, NEW t \in Tasks, IteratorNext(t) \/ IteratorDestroy(t)
  PROVE  IInv'
<1> USE DEF IInv, Records
<1>1. CASE IteratorNext(t)
  <2> DEFINE rest == {i \in Slots : i > iter[t] /\ active[i] \in Serials}
             i    == Min(rest)
             token == [NoToken EXCEPT !.call = "delete", !.id = active[i]]
  <2>1. /\ pc[t] = "iterate" /\ rest # {} /\ iter' = [iter EXCEPT ![t] = i]
        /\ tok' = [tok EXCEPT ![t] = token] /\ pc' = [pc EXCEPT ![t] = "start"]
        /\ UNCHANGED <<active, name, refcount, lastIssued, lock, shutdown, budget>>
    BY <1>1 DEF IteratorNext, tableVars
  <2>2. rest \in SUBSET Nat
    BY Constants DEF Slots
  <2>3. i \in rest
    <3> HIDE DEF rest
    <3> QED
      BY <2>1, <2>2, MinOf
  <2>4. i \in Slots /\ active[i] \in Serials
    BY <2>3
  <2>5. iter' \in [Tasks -> Slots \cup {-1, NoIter}]
    <3> HIDE DEF i
    <3> QED
      BY <2>1, <2>4 DEF TypeOK
  <2>6. token \in TokenType /\ token.call = "delete" /\ token.id = active[i]
    <3> HIDE DEF i
    <3> QED
      BY <2>4, TokenTypes, Modes DEF NoToken
  <2> HIDE DEF token, i
  <2> QED
    BY <2>1, <2>4, <2>5, <2>6, Aside, Nothing, Modes DEF TypeOK
<1>2. CASE IteratorDestroy(t)
  <2>1. /\ pc[t] = "iterate" /\ pc' = [pc EXCEPT ![t] = "idle"]
        /\ iter' = [iter EXCEPT ![t] = NoIter]
        /\ UNCHANGED <<active, name, refcount, lastIssued, lock, tok, shutdown, budget>>
    BY <1>2 DEF IteratorDestroy, tableVars
  <2>2. tok' = [tok EXCEPT ![t] = tok[t]] /\ tok[t] \in TokenType
    BY <2>1 DEF TypeOK
  <2>3. iter' \in [Tasks -> Slots \cup {-1, NoIter}]
    BY <2>1 DEF TypeOK
  <2> QED
    BY <2>1, <2>2, <2>3, Aside, Nothing DEF TypeOK
<1> QED
  BY <1>1, <1>2

LEMMA StepSetName ==
  ASSUME IInv, NEW t \in Tasks, SetName(t)
  PROVE  IInv'
<1> USE DEF IInv
<1>1. /\ pc[t] = "allocated" /\ pc' = [pc EXCEPT ![t] = "held"]
      /\ name' = [name EXCEPT ![tok[t].idx] = tok[t].name]
      /\ UNCHANGED <<active, refcount, lastIssued, lock, tok, iter, shutdown, budget>>
  BY DEF SetName
<1>2. TypeOK'
  BY <1>1 DEF TypeOK, TokenType
<1>3. TokensOK'
  BY <1>1 DEF TypeOK, TokensOK, TokenOK
<1>4. Records'
  BY <1>1, Still DEF Records, TypeOK, Holds, HoldsExclusive, Reserving
<1> QED
  BY <1>2, <1>3, <1>4 DEF Records

LEMMA StepOperate ==
  ASSUME IInv, NEW t \in Tasks, Operate(t)
  PROVE  IInv'
<1> USE DEF IInv
<1>1. PICK final \in IF Mode[tok[t].call] = "EXCLUSIVE" THEN {UNDEFINED, tok[t].id} ELSE {RESERVED} :
        tok' = [tok EXCEPT ![t].expected = final]
  BY DEF Operate
<1>2. /\ pc[t] = "held" /\ pc' = [pc EXCEPT ![t] = "finish"]
      /\ UNCHANGED <<active, name, refcount, lastIssued, lock, iter, shutdown, budget>>
  BY DEF Operate, tableVars
<1>3. final \in Serials \cup {UNDEFINED, RESERVED}
  BY <1>1 DEF TypeOK, TokenType
<1>4. /\ \A u \in Tasks : u # t => pc'[u] = pc[u] /\ tok'[u] = tok[u]
      /\ pc'[t] = "finish" /\ tok'[t] = [tok[t] EXCEPT !.expected = final]
      /\ tok'[t] \in TokenType /\ tok[t] \in TokenType
  BY <1>1, <1>2, <1>3 DEF TypeOK, TokenType
<1>5. /\ tok'[t].expected = final /\ tok'[t].call = tok[t].call
      /\ tok'[t].id = tok[t].id /\ tok'[t].idx = tok[t].idx
  BY <1>4 DEF TokenType
<1>6. TypeOK'
  BY <1>1, <1>2, <1>4 DEF TypeOK
<1>7. ASSUME NEW u \in Tasks
      PROVE  TokenOK(u)'
  <2>1. CASE u = t
    BY <1>1, <1>2, <1>4, <1>5, <2>1 DEF TokensOK, TokenOK
  <2>2. CASE u # t
    BY <1>4, <1>7, <2>2 DEF TokensOK, TokenOK
  <2> QED
    BY <2>1, <2>2
<1>8. Records'
  <2>1. ASSUME NEW u \in Tasks, NEW i \in Slots
        PROVE  /\ Holds(u, i)' <=> Holds(u, i)
               /\ HoldsExclusive(u, i)' <=> HoldsExclusive(u, i)
               /\ Reserving(u, i)' <=> Reserving(u, i)
               /\ Holds(u, i) \/ Reserving(u, i) => tok'[u].id = tok[u].id
    <3>1. CASE u = t
      BY <1>2, <1>4, <1>5, <3>1 DEF Holds, HoldsExclusive, Reserving
    <3>2. CASE u # t
      BY <1>4, <2>1, <3>2 DEF Holds, HoldsExclusive, Reserving
    <3> QED
      BY <3>1, <3>2
  <2> QED
    BY <1>2, <2>1, Still DEF Records
<1> QED
  BY <1>6, <1>7, <1>8 DEF Records, TokensOK

-----------------------------------------------------------------------------
(* Steps that take a record, and steps that let go of one                  *)

LEMMA Distinct == UNDEFINED \notin Serials /\ RESERVED \notin Serials /\ UNDEFINED # RESERVED
BY DEF Serials, UNDEFINED, RESERVED

\* A record nobody holds has a count of zero, and only such a record.
LEMMA NoHolder ==
  ASSUME IInv, NEW i \in Slots
  PROVE  refcount[i] = 0 <=> \A u \in Tasks : ~Holds(u, i)
<1>1. Holders(i) \in SUBSET Tasks /\ refcount[i] = Cardinality(Holders(i))
  BY DEF Holders, IInv, RecordsUsable, RefcountExact
<1> QED
  BY <1>1, CountOf DEF Holders

Places == {"idle", "start", "waiting", "allocated", "held", "finish", "refused", "iterate"}

\* Task t gets record i, with token k: the record has its ID and is not
\* reserved by another, or t is the only one there.
LEMMA Takes ==
  ASSUME IInv, NEW t \in Tasks, NEW i \in Slots, NEW k \in TokenType,
         NEW place \in {"allocated", "held"}, k.idx = i,
         pc[t] \in {"start", "waiting"}, \A j \in Slots : Reserving(t, j) => j = i,
         pc' = [pc EXCEPT ![t] = place], tok' = [tok EXCEPT ![t] = k],
         \A u \in Tasks : u # t => ~Owns(u, i),
         refcount' = [refcount EXCEPT ![i] = @ + 1],
         \/ /\ Mode[k.call] = "EXCLUSIVE" /\ \A u \in Tasks : ~Holds(u, i)
            /\ active' = [active EXCEPT ![i] = RESERVED]
         \/ /\ Mode[k.call] # "EXCLUSIVE" /\ active[i] = k.id /\ ~Reserving(t, i)
            /\ active[i] # RESERVED /\ active' = active
  PROVE  Records' /\ refcount' \in [Slots -> 0 .. Cardinality(Tasks)]
<1> USE DEF IInv
<1>1. /\ \A u \in Tasks : u # t => pc'[u] = pc[u] /\ tok'[u] = tok[u]
      /\ pc'[t] = place /\ tok'[t] = k
  BY DEF TypeOK
<1>2. ASSUME NEW u \in Tasks, u # t, NEW j \in Slots
      PROVE  /\ Holds(u, j)' <=> Holds(u, j)
             /\ HoldsExclusive(u, j)' <=> HoldsExclusive(u, j)
             /\ Reserving(u, j)' <=> Reserving(u, j)
             /\ Owns(u, j)' <=> Owns(u, j)
             /\ tok'[u].id = tok[u].id
  BY <1>1, <1>2 DEF Holds, HoldsExclusive, Reserving, Owns
<1>3. ASSUME NEW j \in Slots
      PROVE  /\ ~Holds(t, j) /\ ~HoldsExclusive(t, j)
             /\ Holds(t, j)' <=> j = i
             /\ ~Reserving(t, j)'
             /\ HoldsExclusive(t, j)' <=> (j = i /\ Mode[k.call] = "EXCLUSIVE")
             /\ Owns(t, j)' <=> (j = i /\ Mode[k.call] = "EXCLUSIVE")
  BY <1>1 DEF Holds, HoldsExclusive, Reserving, Owns
<1>4. /\ \A j \in Slots : j # i => active'[j] = active[j]
      /\ Mode[k.call] = "EXCLUSIVE" => active'[i] = RESERVED
      /\ Mode[k.call] # "EXCLUSIVE" => active'[i] = k.id /\ active'[i] # RESERVED
  BY DEF TypeOK
<1>5. Ownership'
  <2>1. OwnedReserved'
    <3>1. ASSUME NEW u \in Tasks, NEW j \in Slots, Owns(u, j)'
          PROVE  active'[j] = RESERVED
      <4>1. CASE u = t
        BY <1>3, <1>4, <3>1, <4>1
      <4>2. CASE u # t
        <5>1. Owns(u, j)
          BY <1>2, <3>1, <4>2
        <5> QED
          BY <1>4, <3>1, <4>2, <5>1 DEF Ownership, OwnedReserved
      <4> QED
        BY <4>1, <4>2
    <3> QED
      BY <3>1 DEF OwnedReserved
  <2>2. OneOwner'
    <3>1. ASSUME NEW u \in Tasks, NEW v \in Tasks, NEW j \in Slots,
                 Owns(u, j)', Owns(v, j)'
          PROVE  u = v
      <4>1. CASE u # t /\ v # t
        BY <1>2, <3>1, <4>1 DEF Ownership, OneOwner
      <4>2. CASE u = t \/ v = t
        <5>1. j = i
          BY <1>3, <3>1, <4>2
        <5>2. \A w \in Tasks : Owns(w, i)' => w = t
          BY <1>2
        <5> QED
          BY <3>1, <5>1, <5>2
      <4> QED
        BY <4>1, <4>2
    <3> QED
      BY <3>1 DEF OneOwner
  <2>3. SameId'
    <3>1. ASSUME NEW u \in Tasks, NEW v \in Tasks, NEW j \in Slots,
                 Holds(u, j)', Reserving(v, j)'
          PROVE  tok'[u].id = tok'[v].id
      BY <1>2, <1>3, <3>1 DEF Ownership, SameId, Owns
    <3> QED
      BY <3>1 DEF SameId
  <2> QED
    BY <2>1, <2>2, <2>3 DEF Ownership
<1>6. ExclusiveAlone'
  BY <1>2, <1>3 DEF HoldersSafe, ExclusiveAlone, Owns
<1>7. HeldKeepsId'
  <2>1. ASSUME NEW u \in Tasks, NEW j \in Slots, Holds(u, j)', ~HoldsExclusive(u, j)'
        PROVE  active'[j] = tok'[u].id \/ \E v \in Tasks : Reserving(v, j)'
    <3>1. CASE u = t
      BY <1>1, <1>3, <1>4, <2>1, <3>1
    <3>2. CASE u # t
      <4>1. Holds(u, j) /\ ~HoldsExclusive(u, j)
        BY <1>2, <2>1, <3>2
      <4>2. active[j] = tok[u].id \/ \E v \in Tasks : Reserving(v, j)
        BY <4>1 DEF HoldersSafe, HeldKeepsId
      <4>3. ~Reserving(t, j) /\ active'[j] = active[j]
        BY <1>4, <4>1
      <4> QED
        BY <1>2, <3>2, <4>2, <4>3
    <3> QED
      BY <3>1, <3>2
  <2> QED
    BY <2>1 DEF HeldKeepsId
<1>8. RefcountExact' /\ refcount' \in [Slots -> 0 .. Cardinality(Tasks)]
  <2>1. ASSUME NEW j \in Slots
        PROVE  refcount'[j] = Cardinality(Holders(j)') /\ Holders(j)' \in SUBSET Tasks
    <3>1. refcount[j] = Cardinality(Holders(j)) /\ Holders(j) \in SUBSET Tasks
      BY DEF RecordsUsable, RefcountExact, Holders
    <3>2. CASE j = i
      <4>1. Holders(j)' = Holders(j) \cup {t} /\ t \notin Holders(j)
        BY <1>2, <1>3, <3>2 DEF Holders
      <4>2. refcount'[j] = refcount[j] + 1
        BY <3>2 DEF TypeOK
      <4> QED
        BY <3>1, <4>1, <4>2, CountStep DEF Holders
    <3>3. CASE j # i
      <4>1. Holders(j)' = Holders(j)
        BY <1>2, <1>3, <3>3 DEF Holders
      <4>2. refcount'[j] = refcount[j]
        BY <3>3 DEF TypeOK
      <4> QED
        BY <3>1, <4>1, <4>2 DEF Holders
    <3> QED
      BY <3>2, <3>3
  <2>2. RefcountExact'
    BY <2>1 DEF RefcountExact, Holders
  <2>3. refcount' = [j \in Slots |-> refcount'[j]]
    BY DEF TypeOK
  <2>4. \A j \in Slots : refcount'[j] \in 0 .. Cardinality(Tasks)
    BY <2>1, CountOf
  <2> QED
    BY <2>2, <2>3, <2>4
<1>9. ReservedHasOwner'
  <2>1. ASSUME NEW j \in Slots, active'[j] = RESERVED
        PROVE  \E u \in Tasks : (HoldsExclusive(u, j) \/ Reserving(u, j))'
    <3>1. CASE j = i
      BY <1>3, <1>4, <2>1, <3>1
    <3>2. CASE j # i
      BY <1>2, <1>3, <1>4, <2>1, <3>2 DEF RecordsUsable, ReservedHasOwner
    <3> QED
      BY <3>1, <3>2
  <2> QED
    BY <2>1 DEF ReservedHasOwner
<1>10. SerialFindsSlot'
  BY <1>4, Distinct DEF RecordsUsable, SerialFindsSlot
<1> QED
  BY <1>5, <1>6, <1>7, <1>8, <1>9, <1>10 DEF Records, HoldersSafe, RecordsUsable

\* Task t comes away from record i with nothing, and the record gets ID v, which
\* suits those that stay; or it keeps its ID, which t was not changing.
LEMMA Drops ==
  ASSUME IInv, NEW t \in Tasks, NEW i \in Slots, NEW v \in Serials \cup {UNDEFINED, RESERVED},
         NEW place \in {"idle", "iterate", "refused"}, NEW token \in TokenType,
         pc' = [pc EXCEPT ![t] = place], tok' = [tok EXCEPT ![t] = token],
         \A j \in Slots : j # i => ~Holds(t, j) /\ ~Reserving(t, j),
         active' = [active EXCEPT ![i] = v], v \in Serials => SlotOf(v) = i,
         refcount' = [refcount EXCEPT ![i] = IF Holds(t, i) THEN @ - 1 ELSE @],
         \/ v = active[i] /\ ~Owns(t, i)
         \/ /\ v # RESERVED /\ \A u \in Tasks : u # t => ~Owns(u, i)
            /\ \A u \in Tasks : u # t /\ Holds(u, i) => tok[u].id = v
  PROVE  Records' /\ refcount' \in [Slots -> 0 .. Cardinality(Tasks)]
<1> USE DEF IInv
<1>1. /\ \A u \in Tasks : u # t => pc'[u] = pc[u] /\ tok'[u] = tok[u]
      /\ pc'[t] = place /\ tok'[t] = token
  BY DEF TypeOK
<1>2. ASSUME NEW u \in Tasks, u # t, NEW j \in Slots
      PROVE  /\ Holds(u, j)' <=> Holds(u, j)
             /\ HoldsExclusive(u, j)' <=> HoldsExclusive(u, j)
             /\ Reserving(u, j)' <=> Reserving(u, j)
             /\ Owns(u, j)' <=> Owns(u, j)
             /\ tok'[u].id = tok[u].id
  BY <1>1, <1>2 DEF Holds, HoldsExclusive, Reserving, Owns
<1>3. ASSUME NEW j \in Slots
      PROVE  ~Holds(t, j)' /\ ~HoldsExclusive(t, j)' /\ ~Reserving(t, j)' /\ ~Owns(t, j)'
  BY <1>1 DEF Holds, HoldsExclusive, Reserving, Owns
<1>4. active'[i] = v /\ \A j \in Slots : j # i => active'[j] = active[j]
  BY DEF TypeOK
<1>5. Ownership'
  <2>1. OwnedReserved'
    <3>1. ASSUME NEW u \in Tasks, NEW j \in Slots, Owns(u, j)'
          PROVE  active'[j] = RESERVED
      <4>1. u # t /\ Owns(u, j)
        BY <1>2, <1>3, <3>1
      <4>2. active[j] = RESERVED
        BY <4>1 DEF Ownership, OwnedReserved
      <4> QED
        BY <1>4, <4>1, <4>2
    <3> QED
      BY <3>1 DEF OwnedReserved
  <2>2. OneOwner'
    <3>1. ASSUME NEW u \in Tasks, NEW w \in Tasks, NEW j \in Slots, Owns(u, j)', Owns(w, j)'
          PROVE  u = w
      <4>1. u # t /\ w # t /\ Owns(u, j) /\ Owns(w, j)
        BY <1>2, <1>3, <3>1
      <4> QED
        BY <4>1 DEF Ownership, OneOwner
    <3> QED
      BY <3>1 DEF OneOwner
  <2>3. SameId'
    <3>1. ASSUME NEW u \in Tasks, NEW w \in Tasks, NEW j \in Slots, Holds(u, j)', Reserving(w, j)'
          PROVE  tok'[u].id = tok'[w].id
      <4>1. u # t /\ w # t /\ Holds(u, j) /\ Reserving(w, j)
        BY <1>2, <1>3, <3>1
      <4> QED
        BY <1>2, <4>1 DEF Ownership, SameId
    <3> QED
      BY <3>1 DEF SameId
  <2> QED
    BY <2>1, <2>2, <2>3 DEF Ownership
<1>6. ExclusiveAlone'
  <2>1. ASSUME NEW u \in Tasks, NEW w \in Tasks, NEW j \in Slots, u # w,
               HoldsExclusive(u, j)', Holds(w, j)'
        PROVE  FALSE
    <3>1. u # t /\ w # t /\ HoldsExclusive(u, j) /\ Holds(w, j)
      BY <1>2, <1>3, <2>1
    <3> QED
      BY <2>1, <3>1 DEF HoldersSafe, ExclusiveAlone
  <2> QED
    BY <2>1 DEF ExclusiveAlone
<1>7. HeldKeepsId'
  <2>1. ASSUME NEW u \in Tasks, NEW j \in Slots, Holds(u, j)', ~HoldsExclusive(u, j)'
        PROVE  active'[j] = tok'[u].id \/ \E w \in Tasks : Reserving(w, j)'
    <3>1. u # t /\ Holds(u, j) /\ ~HoldsExclusive(u, j) /\ tok'[u].id = tok[u].id
      BY <1>2, <1>3, <2>1
    <3>2. active[j] = tok[u].id \/ \E w \in Tasks : Reserving(w, j)
      BY <3>1 DEF HoldersSafe, HeldKeepsId
    <3>3. CASE j = i /\ v # active[i]
      BY <1>4, <3>1, <3>3
    <3>4. CASE j = i /\ v = active[i]
      <4>1. CASE Owns(t, i)
        BY <1>4, <3>1, <3>4, <4>1
      <4>2. CASE ~Owns(t, i)
        BY <1>2, <1>4, <3>1, <3>2, <3>4, <4>2 DEF Owns
      <4> QED
        BY <4>1, <4>2
    <3>5. CASE j # i
      BY <1>2, <1>4, <3>1, <3>2, <3>5
    <3> QED
      BY <3>3, <3>4, <3>5
  <2> QED
    BY <2>1 DEF HeldKeepsId
<1>8. RefcountExact' /\ refcount' \in [Slots -> 0 .. Cardinality(Tasks)]
  <2>1. ASSUME NEW j \in Slots
        PROVE  refcount'[j] = Cardinality(Holders(j)') /\ Holders(j)' \in SUBSET Tasks
    <3>1. refcount[j] = Cardinality(Holders(j)) /\ Holders(j) \in SUBSET Tasks
      BY DEF RecordsUsable, RefcountExact, Holders
    <3>2. CASE j = i /\ Holds(t, i)
      <4>1. Holders(j)' = Holders(j) \ {t} /\ t \in Holders(j)
        BY <1>2, <1>3, <3>2 DEF Holders
      <4>2. refcount'[j] = refcount[j] - 1
        BY <3>2 DEF TypeOK
      <4> QED
        BY <3>1, <4>1, <4>2, CountStep DEF Holders
    <3>3. CASE j # i \/ ~Holds(t, i)
      <4>1. Holders(j)' = Holders(j)
        BY <1>2, <1>3, <3>3 DEF Holders
      <4>2. refcount'[j] = refcount[j]
        BY <3>3 DEF TypeOK
      <4> QED
        BY <3>1, <4>1, <4>2 DEF Holders
    <3> QED
      BY <3>2, <3>3
  <2>2. RefcountExact'
    BY <2>1 DEF RefcountExact, Holders
  <2>3. refcount' = [j \in Slots |-> refcount'[j]]
    BY DEF TypeOK
  <2>4. \A j \in Slots : refcount'[j] \in 0 .. Cardinality(Tasks)
    BY <2>1, CountOf
  <2> QED
    BY <2>2, <2>3, <2>4
<1>9. ReservedHasOwner'
  <2>1. ASSUME NEW j \in Slots, active'[j] = RESERVED
        PROVE  \E u \in Tasks : (HoldsExclusive(u, j) \/ Reserving(u, j))'
    <3>1. active[j] = RESERVED /\ ~Owns(t, j)
      BY <1>4, <2>1 DEF Owns, HoldsExclusive
    <3>2. PICK u \in Tasks : HoldsExclusive(u, j) \/ Reserving(u, j)
      BY <3>1 DEF RecordsUsable, ReservedHasOwner
    <3>3. u # t
      BY <3>1, <3>2 DEF Owns
    <3> QED
      BY <1>2, <3>2, <3>3
  <2> QED
    BY <2>1 DEF ReservedHasOwner
<1>10. SerialFindsSlot'
  BY <1>4 DEF RecordsUsable, SerialFindsSlot
<1> QED
  BY <1>5, <1>6, <1>7, <1>8, <1>9, <1>10 DEF Records, HoldersSafe, RecordsUsable

-----------------------------------------------------------------------------
(* OS_ObjectIdConvertToken                                                 *)

\* What a task brings to the conversion of token k: it holds nothing, and if
\* it has reserved a record k is the token it did so with.
CanConvert(t, k) ==
  /\ pc[t] \in {"start", "waiting"}
  /\ k \in TokenType /\ k.call \in DOMAIN Mode
  /\ k.id \in Serials /\ SlotOf(k.id) = k.idx
  /\ \/ k.expected = k.id /\ \A i \in Slots : ~Reserving(t, i)
     \/ /\ k.expected = RESERVED /\ Mode[k.call] = "EXCLUSIVE"
        /\ k = tok[t] /\ Reserving(t, k.idx)

\* What a conversion starts from and what it leaves alone.
Converting(t, k) ==
  /\ t \in Tasks /\ IInv /\ CanConvert(t, k)
  /\ UNCHANGED <<name, lastIssued, iter, shutdown, budget>>

\* Only the token of the task that makes a step has to be looked at.
LEMMA OneToken ==
  ASSUME IInv, NEW t \in Tasks, NEW place \in Places, NEW token \in TokenType,
         pc' = [pc EXCEPT ![t] = place], tok' = [tok EXCEPT ![t] = token],
         TokenOK(t)'
  PROVE  /\ TokensOK' /\ pc' \in [Tasks -> Places] /\ tok' \in [Tasks -> TokenType]
         /\ pc'[t] = place /\ tok'[t] = token
<1> USE DEF IInv
<1>1. \A u \in Tasks : u # t => pc'[u] = pc[u] /\ tok'[u] = tok[u]
  BY DEF TypeOK
<1>2. ASSUME NEW u \in Tasks
      PROVE  TokenOK(u)'
  <2>1. CASE u = t
    BY <2>1
  <2>2. CASE u # t
    BY <1>1, <1>2, <2>2 DEF TokensOK, TokenOK
  <2> QED
    BY <2>1, <2>2
<1> QED
  BY <1>2 DEF TypeOK, Places, TokensOK

LEMMA StepSuccess ==
  ASSUME NEW t, NEW k, Converting(t, k), ConvertSuccess(t, k)
  PROVE  IInv'
<1> USE DEF Converting, CanConvert, IInv
<1> DEFINE i == k.idx
           token == [k EXCEPT !.attempts = 0]
<1>1. /\ Matches(k) /\ i \in Slots /\ t \in Tasks
      /\ Mode[k.call] = "EXCLUSIVE" => refcount[i] = 0
      /\ active' = IF Mode[k.call] = "EXCLUSIVE" THEN [active EXCEPT ![i] = RESERVED] ELSE active
      /\ refcount' = [refcount EXCEPT ![i] = @ + 1]
      /\ lock' \in Tasks \cup {NoTask}
      /\ pc' = [pc EXCEPT ![t] = "held"] /\ tok' = [tok EXCEPT ![t] = token]
  BY DEF ConvertSuccess, TokenType
<1>2. /\ token \in TokenType /\ token.call = k.call /\ token.id = k.id /\ token.idx = i
      /\ token.expected = k.expected
  <2>1. 0 \in 0 .. MaxAttempts - 1
    BY Constants
  <2> QED
    BY <2>1 DEF TokenType
<1>3. \A u \in Tasks : u # t => ~Owns(u, i)
  <2>1. CASE k.expected = k.id
    BY <1>1, <2>1, Distinct DEF Matches, Ownership, OwnedReserved
  <2>2. CASE Reserving(t, i)
    BY <1>1, <2>2 DEF Owns, Ownership, OneOwner
  <2> QED
    BY <2>1, <2>2
<1>4. \A j \in Slots : Reserving(t, j) => j = i
  BY DEF Reserving
<1>5. \/ /\ Mode[token.call] = "EXCLUSIVE" /\ \A u \in Tasks : ~Holds(u, i)
         /\ active' = [active EXCEPT ![i] = RESERVED]
      \/ /\ Mode[token.call] # "EXCLUSIVE" /\ active[i] = token.id /\ ~Reserving(t, i)
         /\ active[i] # RESERVED /\ active' = active
  BY <1>1, <1>2, NoHolder, Distinct DEF Matches
<1> HIDE DEF token, i
<1>6. Records' /\ refcount' \in [Slots -> 0 .. Cardinality(Tasks)]
  BY <1>1, <1>2, <1>3, <1>4, <1>5, Takes
<1>7. pc'[t] = "held" /\ tok'[t] = token
  BY <1>1 DEF TypeOK
<1>8. TokenOK(t)'
  BY <1>2, <1>7 DEF TokenOK, i
<1>9. TokensOK' /\ pc' \in [Tasks -> Places] /\ tok' \in [Tasks -> TokenType]
  BY <1>1, <1>2, <1>8, OneToken DEF Places
<1>10. active' \in [Slots -> Serials \cup {UNDEFINED, RESERVED}]
  BY <1>1 DEF TypeOK
<1>11. TypeOK'
  BY <1>1, <1>6, <1>9, <1>10 DEF TypeOK, Places
<1> QED
  BY <1>6, <1>9, <1>11 DEF Records

LEMMA StepWait ==
  ASSUME NEW t, NEW k, Converting(t, k), ConvertWait(t, k)
  PROVE  IInv'
<1> USE DEF Converting, CanConvert, IInv
<1> DEFINE i == k.idx
           expected == IF Matches(k) THEN RESERVED ELSE k.expected
           token == [k EXCEPT !.attempts = @ + 1, !.expected = expected]
<1>1. /\ Contended(k) /\ k.attempts + 1 < MaxAttempts /\ i \in Slots /\ t \in Tasks
      /\ active' = IF Matches(k) THEN [active EXCEPT ![i] = RESERVED] ELSE active
      /\ pc' = [pc EXCEPT ![t] = "waiting"] /\ lock' = NoTask /\ UNCHANGED refcount
      /\ tok' = [tok EXCEPT ![t] = token]
  BY DEF ConvertWait, TokenType
<1>2. /\ token \in TokenType /\ token.call = k.call /\ token.id = k.id /\ token.idx = i
      /\ token.expected = expected
  <2>1. expected \in Serials \cup {UNDEFINED, RESERVED} /\ k.attempts + 1 \in 0 .. MaxAttempts - 1
    BY <1>1, Constants DEF TokenType
  <2> HIDE DEF expected
  <2> QED
    BY <2>1 DEF TokenType
<1>3. Matches(k) => Mode[k.call] = "EXCLUSIVE"
  BY <1>1 DEF Contended
<1>4. pc'[t] = "waiting" /\ tok'[t] = token
  BY <1>1 DEF TypeOK
<1>5. TokenOK(t)'
  <2>1. expected = k.id \/ (expected = RESERVED /\ Mode[k.call] = "EXCLUSIVE")
    BY <1>3
  <2> HIDE DEF token, expected
  <2> QED
    BY <1>2, <1>4, <2>1 DEF TokenOK
<1>6. TokensOK' /\ pc' \in [Tasks -> Places] /\ tok' \in [Tasks -> TokenType]
  <2> HIDE DEF token
  <2> QED
    BY <1>1, <1>2, <1>5, OneToken DEF Places
<1>7. active' \in [Slots -> Serials \cup {UNDEFINED, RESERVED}]
  BY <1>1 DEF TypeOK
<1>8. TypeOK'
  BY <1>1, <1>6, <1>7 DEF TypeOK, Places
<1>9. ASSUME NEW u \in Tasks, u # t, NEW j \in Slots
      PROVE  /\ Holds(u, j)' <=> Holds(u, j)
             /\ HoldsExclusive(u, j)' <=> HoldsExclusive(u, j)
             /\ Reserving(u, j)' <=> Reserving(u, j)
             /\ Owns(u, j)' <=> Owns(u, j)
             /\ tok'[u].id = tok[u].id
  <2>1. pc'[u] = pc[u] /\ tok'[u] = tok[u]
    BY <1>1, <1>9 DEF TypeOK
  <2> QED
    BY <2>1 DEF Holds, HoldsExclusive, Reserving, Owns
<1>10. ASSUME NEW j \in Slots
       PROVE  /\ ~Holds(t, j) /\ ~HoldsExclusive(t, j) /\ ~Holds(t, j)' /\ ~HoldsExclusive(t, j)'
              /\ Reserving(t, j)' <=> (j = i /\ expected = RESERVED)
              /\ Owns(t, j)' <=> (j = i /\ expected = RESERVED)
  <2> HIDE DEF token, expected
  <2> QED
    BY <1>2, <1>4 DEF Holds, HoldsExclusive, Reserving, Owns
<1> HIDE DEF token
<1>11. CASE expected # RESERVED \/ Reserving(t, i)
  <2>1. active' = active
    BY <1>1, <1>11 DEF TypeOK, Ownership, OwnedReserved, Owns
  <2>2. ASSUME NEW j \in Slots
        PROVE  /\ Reserving(t, j)' <=> Reserving(t, j)
               /\ Reserving(t, j) => tok'[t].id = tok[t].id
    <3>1. CASE expected # RESERVED
      BY <1>10, <3>1
    <3>2. CASE expected = RESERVED /\ Reserving(t, i)
      <4>1. k = tok[t]
        BY <1>1, <3>2
      <4> QED
        BY <1>2, <1>4, <1>10, <3>2, <4>1 DEF Reserving
    <3> QED
      BY <1>11, <3>1, <3>2
  <2>3. ASSUME NEW u \in Tasks, NEW j \in Slots
        PROVE  /\ Holds(u, j)' <=> Holds(u, j)
               /\ HoldsExclusive(u, j)' <=> HoldsExclusive(u, j)
               /\ Reserving(u, j)' <=> Reserving(u, j)
               /\ Holds(u, j) \/ Reserving(u, j) => tok'[u].id = tok[u].id
    <3>1. CASE u = t
      BY <1>10, <2>2, <3>1
    <3>2. CASE u # t
      BY <1>9, <3>2
    <3> QED
      BY <3>1, <3>2
  <2>4. Records'
    BY <1>1, <2>1, <2>3, Still DEF Records
  <2> QED
    BY <1>6, <1>8, <2>4 DEF Records
<1>12. CASE expected = RESERVED /\ ~Reserving(t, i)
  <2>1. /\ Matches(k) /\ k.expected = k.id /\ active[i] = k.id /\ active[i] # RESERVED
        /\ active'[i] = RESERVED /\ \A j \in Slots : j # i => active'[j] = active[j]
    BY <1>1, <1>12, Distinct DEF TypeOK, Matches
  <2>2. \A u \in Tasks : ~Owns(u, i)
    BY <1>1, <2>1 DEF Ownership, OwnedReserved
  <2>3. \A j \in Slots : ~Owns(t, j) /\ ~Holds(t, j)
    BY <1>10, <1>12, <2>1, Distinct DEF Owns
  <2>4. OwnedReserved'
    <3>1. ASSUME NEW u \in Tasks, NEW j \in Slots, Owns(u, j)'
          PROVE  active'[j] = RESERVED
      <4>1. CASE j = i
        BY <2>1, <4>1
      <4>2. CASE j # i
        <5>1. Owns(u, j)
          BY <1>9, <1>10, <3>1, <4>2
        <5> QED
          BY <2>1, <4>2, <5>1 DEF Ownership, OwnedReserved
      <4> QED
        BY <4>1, <4>2
    <3> QED
      BY <3>1 DEF OwnedReserved
  <2>5. OneOwner'
    <3>1. ASSUME NEW u \in Tasks, NEW v \in Tasks, NEW j \in Slots, Owns(u, j)', Owns(v, j)'
          PROVE  u = v
      <4>1. CASE j = i
        <5>1. \A w \in Tasks : w # t => ~Owns(w, i)'
          BY <1>1, <1>9, <2>2
        <5> QED
          BY <3>1, <4>1, <5>1
      <4>2. CASE j # i
        <5>1. Owns(u, j) /\ Owns(v, j)
          BY <1>9, <1>10, <3>1, <4>2
        <5> QED
          BY <5>1 DEF Ownership, OneOwner
      <4> QED
        BY <4>1, <4>2
    <3> QED
      BY <3>1 DEF OneOwner
  <2>6. SameId'
    <3>1. ASSUME NEW u \in Tasks, NEW v \in Tasks, NEW j \in Slots, Holds(u, j)', Reserving(v, j)'
          PROVE  tok'[u].id = tok'[v].id
      <4>1. u # t /\ Holds(u, j) /\ tok'[u].id = tok[u].id
        BY <1>9, <1>10, <3>1
      <4>2. CASE v = t
        <5>1. j = i /\ tok'[v].id = k.id
          BY <1>2, <1>4, <1>10, <3>1, <4>2
        <5>2. active[i] = tok[u].id
          BY <1>1, <2>2, <4>1, <5>1 DEF Owns, HoldersSafe, HeldKeepsId
        <5> QED
          BY <2>1, <4>1, <5>1, <5>2
      <4>3. CASE v # t
        <5>1. Reserving(v, j) /\ tok'[v].id = tok[v].id
          BY <1>9, <3>1, <4>3
        <5> QED
          BY <4>1, <5>1 DEF Ownership, SameId
      <4> QED
        BY <4>2, <4>3
    <3> QED
      BY <3>1 DEF SameId
  <2>7. ExclusiveAlone'
    <3>1. ASSUME NEW u \in Tasks, NEW v \in Tasks, NEW j \in Slots, u # v,
                 HoldsExclusive(u, j)', Holds(v, j)'
          PROVE  FALSE
      <4>1. HoldsExclusive(u, j) /\ Holds(v, j)
        BY <1>9, <1>10, <3>1
      <4> QED
        BY <3>1, <4>1 DEF HoldersSafe, ExclusiveAlone
    <3> QED
      BY <3>1 DEF ExclusiveAlone
  <2>8. HeldKeepsId'
    <3>1. ASSUME NEW u \in Tasks, NEW j \in Slots, Holds(u, j)', ~HoldsExclusive(u, j)'
          PROVE  active'[j] = tok'[u].id \/ \E v \in Tasks : Reserving(v, j)'
      <4>1. u # t /\ Holds(u, j) /\ ~HoldsExclusive(u, j) /\ tok'[u].id = tok[u].id
        BY <1>9, <1>10, <3>1
      <4>2. CASE j = i
        BY <1>1, <1>10, <1>12, <4>2
      <4>3. CASE j # i
        <5>1. active[j] = tok[u].id \/ \E v \in Tasks : Reserving(v, j)
          BY <4>1 DEF HoldersSafe, HeldKeepsId
        <5> QED
          BY <1>9, <2>1, <2>3, <4>1, <4>3, <5>1 DEF Owns
      <4> QED
        BY <4>2, <4>3
    <3> QED
      BY <3>1 DEF HeldKeepsId
  <2>9. RefcountExact'
    <3>1. ASSUME NEW j \in Slots
          PROVE  Holders(j)' = Holders(j)
      BY <1>9, <1>10, <3>1 DEF Holders
    <3> QED
      BY <1>1, <3>1 DEF RecordsUsable, RefcountExact, Holders
  <2>10. ReservedHasOwner'
    <3>1. ASSUME NEW j \in Slots, active'[j] = RESERVED
          PROVE  \E u \in Tasks : (HoldsExclusive(u, j) \/ Reserving(u, j))'
      <4>1. CASE j = i
        BY <1>1, <1>10, <1>12, <4>1
      <4>2. CASE j # i
        <5>1. PICK u \in Tasks : HoldsExclusive(u, j) \/ Reserving(u, j)
          BY <2>1, <3>1, <4>2 DEF RecordsUsable, ReservedHasOwner
        <5>2. u # t
          BY <2>3, <5>1 DEF Owns
        <5> QED
          BY <1>9, <5>1, <5>2
      <4> QED
        BY <4>1, <4>2
    <3> QED
      BY <3>1 DEF ReservedHasOwner
  <2>11. SerialFindsSlot'
    BY <2>1, Distinct DEF RecordsUsable, SerialFindsSlot
  <2> QED
    BY <1>6, <1>8, <2>4, <2>5, <2>6, <2>7, <2>8, <2>9, <2>10, <2>11
    DEF Ownership, HoldersSafe, RecordsUsable
<1> QED
  BY <1>11, <1>12

LEMMA StepGiveUp ==
  ASSUME NEW t, NEW k, Converting(t, k), ConvertFail(t, k)
  PROVE  IInv'
<1> USE DEF Converting, CanConvert, IInv
<1> DEFINE i == k.idx
<1>1. /\ i \in Slots /\ t \in Tasks /\ lock' \in Tasks \cup {NoTask} /\ refcount' = refcount
      /\ active' = IF Matches(k) \/ k.expected = RESERVED THEN [active EXCEPT ![i] = k.id] ELSE active
      /\ tok' = [tok EXCEPT ![t] = NoToken]
  BY DEF ConvertFail, Return, TokenType
<1>2. PICK place \in {"idle", "iterate"} : pc' = [pc EXCEPT ![t] = place]
  BY DEF ConvertFail, Return
<1>3. \A j \in Slots : ~Holds(t, j) /\ (Reserving(t, j) => j = i)
  BY DEF Holds, Reserving
<1>4. refcount' = [refcount EXCEPT ![i] = IF Holds(t, i) THEN @ - 1 ELSE @]
  BY <1>1, <1>3 DEF TypeOK
<1>5. \E v \in Serials \cup {UNDEFINED, RESERVED} :
        /\ active' = [active EXCEPT ![i] = v] /\ (v \in Serials => SlotOf(v) = i)
        /\ \/ v = active[i] /\ ~Owns(t, i)
           \/ /\ v # RESERVED /\ \A u \in Tasks : u # t => ~Owns(u, i)
              /\ \A u \in Tasks : u # t /\ Holds(u, i) => tok[u].id = v
  <2>1. CASE k.expected = RESERVED
    <3>1. k = tok[t] /\ Reserving(t, i)
      BY <2>1, Distinct
    <3>2. \A u \in Tasks : u # t => ~Owns(u, i)
      BY <1>1, <3>1 DEF Owns, Ownership, OneOwner
    <3>3. \A u \in Tasks : Holds(u, i) => tok[u].id = k.id
      BY <1>1, <3>1 DEF Ownership, SameId
    <3>4. active' = [active EXCEPT ![i] = k.id] /\ k.id \in Serials /\ k.id # RESERVED
      BY <1>1, <2>1, Distinct
    <3> QED
      BY <3>2, <3>3, <3>4
  <2>2. CASE k.expected # RESERVED
    <3>1. k.expected = k.id /\ ~Owns(t, i)
      BY <1>1, <1>3, <2>2 DEF Owns, HoldsExclusive
    <3>2. active' = [active EXCEPT ![i] = active[i]] /\ active[i] \in Serials \cup {UNDEFINED, RESERVED}
      BY <1>1, <2>2, <3>1 DEF Matches, TypeOK
    <3>3. active[i] \in Serials => SlotOf(active[i]) = i
      BY <1>1 DEF RecordsUsable, SerialFindsSlot
    <3> QED
      BY <3>1, <3>2, <3>3
  <2> QED
    BY <2>1, <2>2
<1> HIDE DEF i
<1>6. Records' /\ refcount' \in [Slots -> 0 .. Cardinality(Tasks)]
  BY <1>1, <1>2, <1>3, <1>4, <1>5, Drops, TokenTypes
<1>7. active' \in [Slots -> Serials \cup {UNDEFINED, RESERVED}]
  BY <1>5 DEF TypeOK
<1>8. pc'[t] = place /\ tok'[t] = NoToken
  BY <1>1, <1>2 DEF TypeOK
<1>9. TokenOK(t)'
  BY <1>8 DEF TokenOK
<1>10. TokensOK' /\ pc' \in [Tasks -> Places] /\ tok' \in [Tasks -> TokenType]
  BY <1>1, <1>2, <1>9, OneToken, TokenTypes DEF Places
<1>11. TypeOK'
  BY <1>1, <1>6, <1>7, <1>10 DEF TypeOK, Places
<1> QED
  BY <1>6, <1>10, <1>11 DEF Records

LEMMA StepConvert ==
  ASSUME IInv, NEW t \in Tasks, NEW k, CanConvert(t, k), Convert(t, k)
  PROVE  IInv'
<1>1. Converting(t, k)
  BY DEF Converting, Convert
<1> QED
  BY <1>1, StepSuccess, StepWait, StepGiveUp DEF Convert

LEMMA StepGetById ==
  ASSUME IInv, NEW t \in Tasks, GetById(t)
  PROVE  IInv'
<1> DEFINE k == [tok[t] EXCEPT !.idx = SlotOf(tok[t].id), !.expected = tok[t].id]
<1>1. /\ pc[t] = "start" /\ tok[t].call \in ById /\ Convert(t, k)
      /\ tok[t] \in TokenType /\ tok[t].id \in Serials
  BY DEF GetById, IInv, TypeOK, TokensOK, TokenOK
<1>2. SlotOf(tok[t].id) \in Slots
  BY <1>1, SlotOfType, Constants DEF Serials
<1>3. /\ k \in TokenType /\ k.call = tok[t].call /\ k.id = tok[t].id
      /\ k.expected = k.id /\ k.idx = SlotOf(k.id)
  BY <1>1, <1>2 DEF TokenType
<1> HIDE DEF k
<1>4. CanConvert(t, k)
  BY <1>1, <1>3, Modes DEF CanConvert, Reserving
<1> QED
  BY <1>1, <1>4, StepConvert

LEMMA StepGetBySearch ==
  ASSUME IInv, NEW t \in Tasks, GetBySearch(t)
  PROVE  IInv'
<1> DEFINE found == Named(tok[t].name)
           i == Min(found)
           k == [tok[t] EXCEPT !.id = active[i], !.idx = i, !.expected = active[i]]
<1>1. /\ pc[t] = "start" /\ tok[t].call \in ByName /\ found # {} /\ active[i] # RESERVED
      /\ Convert(t, k) /\ tok[t] \in TokenType
  BY DEF GetBySearch, IInv, TypeOK
<1>2. found \in SUBSET Nat /\ \A j \in found : j \in Slots /\ active[j] # UNDEFINED
  BY Constants DEF Named, Slots
<1> HIDE DEF found
<1>3. i \in Slots /\ active[i] # UNDEFINED
  BY <1>1, <1>2, MinOf
<1> HIDE DEF i
<1>4. active[i] \in Serials /\ SlotOf(active[i]) = i
  BY <1>1, <1>3 DEF IInv, TypeOK, RecordsUsable, SerialFindsSlot
<1>5. /\ k \in TokenType /\ k.call = tok[t].call /\ k.id = active[i]
      /\ k.expected = k.id /\ k.idx = i
  BY <1>1, <1>3, <1>4 DEF TokenType
<1> HIDE DEF k
<1>6. CanConvert(t, k)
  BY <1>1, <1>4, <1>5, Modes DEF CanConvert, Reserving
<1> QED
  BY <1>1, <1>6, StepConvert

LEMMA StepRetry ==
  ASSUME IInv, NEW t \in Tasks, Retry(t)
  PROVE  IInv'
<1> DEFINE k == tok[t]
<1>1. pc[t] = "waiting" /\ Convert(t, k) /\ k \in TokenType /\ TokenOK(t)
  BY DEF Retry, IInv, TypeOK, TokensOK
<1>2. /\ k.call \in DOMAIN Mode /\ k.id \in Serials /\ SlotOf(k.id) = k.idx
      /\ k.expected = k.id \/ (k.expected = RESERVED /\ Mode[k.call] = "EXCLUSIVE")
  BY <1>1 DEF TokenOK
<1>3. CanConvert(t, k)
  BY <1>1, <1>2, Distinct DEF CanConvert, Reserving
<1> QED
  BY <1>1, <1>3, StepConvert

-----------------------------------------------------------------------------
(* Creation, and the end of a transaction                                  *)

LEMMA StepAllocate ==
  ASSUME IInv, NEW t \in Tasks, AllocateNew(t)
  PROVE  IInv'
<1> USE DEF IInv
<1> DEFINE n  == Min(FreeProbes)
           id == Probe[n].serial
           i  == Probe[n].slot
           token == [tok[t] EXCEPT !.id = id, !.idx = i]
<1>1. /\ pc[t] = "start" /\ tok[t].call = "create" /\ FreeProbes # {} /\ tok[t] \in TokenType
      /\ lastIssued' = id /\ name' = [name EXCEPT ![i] = NoName]
      /\ tok' = [tok EXCEPT ![t].id = id, ![t].idx = i]
      /\ UNCHANGED <<iter, shutdown, budget>>
  BY DEF AllocateNew, TypeOK
<1>2. \/ /\ active' = [active EXCEPT ![i] = RESERVED] /\ refcount' = [refcount EXCEPT ![i] = 1]
         /\ pc' = [pc EXCEPT ![t] = "allocated"] /\ UNCHANGED lock
      \/ /\ active' = [active EXCEPT ![i] = id] /\ refcount' = [refcount EXCEPT ![i] = 0]
         /\ pc' = [pc EXCEPT ![t] = "refused"] /\ lock' = t
  BY DEF AllocateNew
<1>3. n \in 1 .. MaxObjects /\ active[Probe[n].slot] = UNDEFINED
  <2>1. FreeProbes \in SUBSET Nat
    BY Constants DEF FreeProbes
  <2>2. n \in FreeProbes
    BY <1>1, <2>1, MinOf
  <2> HIDE DEF n
  <2> QED
    BY <2>2 DEF FreeProbes
<1> HIDE DEF n
<1>4. id \in Serials /\ i \in Slots /\ SlotOf(id) = i /\ active[i] = UNDEFINED
  BY <1>3, ProbeType DEF TypeOK
<1> HIDE DEF id, i
<1>5. /\ token \in TokenType /\ token.call = "create" /\ token.id = id /\ token.idx = i
      /\ tok' = [tok EXCEPT ![t] = token]
  BY <1>1, <1>4 DEF TokenType, TypeOK
<1> HIDE DEF token
<1>6. \A u \in Tasks : ~Owns(u, i)
  BY <1>4, Distinct DEF Ownership, OwnedReserved
<1>7. \A u \in Tasks : ~Holds(u, i)
  <2>1. ASSUME NEW u \in Tasks, Holds(u, i)
        PROVE  FALSE
    <3>1. ~HoldsExclusive(u, i) /\ tok[u].id \in Serials
      BY <1>6, <2>1 DEF Owns, TokensOK, TokenOK, Holds
    <3>2. active[i] = tok[u].id
      BY <1>4, <1>6, <2>1, <3>1 DEF Owns, HoldersSafe, HeldKeepsId
    <3> QED
      BY <1>4, <3>1, <3>2, Distinct
  <2> QED
    BY <2>1
<1>8. refcount[i] = 0
  BY <1>4, <1>7, NoHolder
<1>9. HasNothing(t) /\ t \in Tasks
  BY <1>1 DEF HasNothing, Holds, Reserving
<1>10. /\ lastIssued' \in Serials /\ name' \in [Slots -> Names \cup {NoName}]
       /\ active' \in [Slots -> Serials \cup {UNDEFINED, RESERVED}] /\ lock' \in Tasks \cup {NoTask}
  BY <1>1, <1>2, <1>4 DEF TypeOK
<1>11. CASE pc' = [pc EXCEPT ![t] = "allocated"] /\ active' = [active EXCEPT ![i] = RESERVED]
            /\ refcount' = [refcount EXCEPT ![i] = 1]
  <2>1. refcount' = [refcount EXCEPT ![i] = @ + 1]
    BY <1>4, <1>8, <1>11 DEF TypeOK
  <2>2. Mode[token.call] = "EXCLUSIVE"
    BY <1>5, Modes
  <2>3. Records' /\ refcount' \in [Slots -> 0 .. Cardinality(Tasks)]
    BY <1>1, <1>4, <1>5, <1>6, <1>7, <1>9, <1>11, <2>1, <2>2, Takes DEF HasNothing
  <2>4. pc'[t] = "allocated" /\ tok'[t] = token
    BY <1>5, <1>11 DEF TypeOK
  <2>5. TokenOK(t)'
    BY <1>4, <1>5, <2>4, Modes DEF TokenOK
  <2>6. TokensOK' /\ pc' \in [Tasks -> Places] /\ tok' \in [Tasks -> TokenType]
    BY <1>5, <1>11, <2>5, OneToken DEF Places
  <2>7. TypeOK'
    BY <1>1, <1>10, <2>3, <2>6 DEF TypeOK, Places
  <2> QED
    BY <2>3, <2>6, <2>7 DEF Records
<1>12. CASE pc' = [pc EXCEPT ![t] = "refused"] /\ active' = [active EXCEPT ![i] = id]
            /\ refcount' = [refcount EXCEPT ![i] = 0]
  <2>1. refcount' = [refcount EXCEPT ![i] = IF Holds(t, i) THEN @ - 1 ELSE @]
    BY <1>4, <1>7, <1>8, <1>12 DEF TypeOK
  <2>2. id # RESERVED
    BY <1>4, Distinct
  <2>3. Records' /\ refcount' \in [Slots -> 0 .. Cardinality(Tasks)]
    BY <1>4, <1>5, <1>6, <1>7, <1>9, <1>12, <2>1, <2>2, Drops DEF HasNothing
  <2>4. pc'[t] = "refused" /\ tok'[t] = token
    BY <1>5, <1>12 DEF TypeOK
  <2>5. TokenOK(t)'
    BY <1>5, <2>4, Modes DEF TokenOK
  <2>6. TokensOK' /\ pc' \in [Tasks -> Places] /\ tok' \in [Tasks -> TokenType]
    BY <1>5, <1>12, <2>5, OneToken DEF Places
  <2>7. TypeOK'
    BY <1>1, <1>10, <2>3, <2>6 DEF TypeOK, Places
  <2> QED
    BY <2>3, <2>6, <2>7 DEF Records
<1> QED
  BY <1>2, <1>11, <1>12

LEMMA StepFinish ==
  ASSUME IInv, NEW t \in Tasks, TransactionFinish(t)
  PROVE  IInv'
<1> USE DEF IInv
<1> DEFINE k == tok[t]
           i == k.idx
           v == IF k.expected = RESERVED THEN active[i] ELSE k.expected
<1>1. /\ pc[t] = "finish" /\ k \in TokenType /\ i \in Slots /\ lock' = NoTask
      /\ refcount' = Lowered(t) /\ tok' = [tok EXCEPT ![t] = NoToken]
      /\ active' = IF k.expected = RESERVED THEN active ELSE [active EXCEPT ![i] = k.expected]
      /\ UNCHANGED <<name, lastIssued, iter, shutdown, budget>>
  BY DEF TransactionFinish, Return, TypeOK, TokenType
<1>2. PICK place \in {"idle", "iterate"} : pc' = [pc EXCEPT ![t] = place]
  BY DEF TransactionFinish, Return
<1>3. Holds(t, i) /\ \A j \in Slots : j # i => ~Holds(t, j) /\ ~Reserving(t, j)
  BY <1>1 DEF Holds, Reserving
<1>4. refcount' = [refcount EXCEPT ![i] = IF Holds(t, i) THEN @ - 1 ELSE @]
  <2>1. refcount[i] \in Nat /\ refcount[i] # 0
    BY <1>1, <1>3, NoHolder, CountOf DEF TypeOK
  <2>2. (IF refcount[i] > 0 THEN refcount[i] - 1 ELSE refcount[i])
          = IF Holds(t, i) THEN refcount[i] - 1 ELSE refcount[i]
    BY <1>3, <2>1
  <2>3. Lowered(t) = [refcount EXCEPT ![i] = IF refcount[i] > 0 THEN refcount[i] - 1 ELSE refcount[i]]
    BY Zenon DEF Lowered
  <2> QED
    BY <1>1, <2>2, <2>3, Zenon
<1>5. /\ v \in Serials \cup {UNDEFINED, RESERVED} /\ active' = [active EXCEPT ![i] = v]
      /\ v \in Serials => SlotOf(v) = i
      /\ \/ v = active[i] /\ ~Owns(t, i)
         \/ /\ v # RESERVED /\ \A u \in Tasks : u # t => ~Owns(u, i)
            /\ \A u \in Tasks : u # t /\ Holds(u, i) => tok[u].id = v
  <2>1. TokenOK(t) /\ ~Reserving(t, i)
    BY <1>1 DEF TokensOK, Reserving
  <2>2. CASE Mode[k.call] = "EXCLUSIVE"
    <3>1. k.expected \in {UNDEFINED, k.id} /\ k.id \in Serials /\ SlotOf(k.id) = i
      BY <1>1, <2>1, <2>2 DEF TokenOK
    <3>2. v = k.expected /\ v # RESERVED
      BY <3>1, Distinct
    <3>3. HoldsExclusive(t, i)
      BY <1>3, <2>2 DEF HoldsExclusive
    <3>4. \A u \in Tasks : u # t => ~Holds(u, i)
      BY <1>1, <3>3 DEF HoldersSafe, ExclusiveAlone
    <3>5. \A u \in Tasks : u # t => ~Owns(u, i)
      BY <1>1, <3>3 DEF Owns, Ownership, OneOwner
    <3> QED
      BY <1>1, <3>1, <3>2, <3>4, <3>5, Distinct
  <2>3. CASE Mode[k.call] # "EXCLUSIVE"
    <3>1. k.expected = RESERVED /\ v = active[i] /\ ~Owns(t, i)
      BY <1>1, <2>1, <2>3 DEF TokenOK, Owns, HoldsExclusive
    <3>2. active' = [active EXCEPT ![i] = v] /\ v \in Serials \cup {UNDEFINED, RESERVED}
      BY <1>1, <3>1 DEF TypeOK
    <3>3. v \in Serials => SlotOf(v) = i
      BY <1>1, <3>1 DEF RecordsUsable, SerialFindsSlot
    <3> QED
      BY <3>1, <3>2, <3>3
  <2> QED
    BY <2>2, <2>3
<1> HIDE DEF v, i
<1>6. Records' /\ refcount' \in [Slots -> 0 .. Cardinality(Tasks)]
  BY <1>1, <1>2, <1>3, <1>4, <1>5, Drops, TokenTypes
<1>7. active' \in [Slots -> Serials \cup {UNDEFINED, RESERVED}]
  BY <1>1, <1>5 DEF TypeOK
<1>8. pc'[t] = place /\ tok'[t] = NoToken
  BY <1>1, <1>2 DEF TypeOK
<1>9. TokenOK(t)'
  BY <1>8 DEF TokenOK
<1>10. TokensOK' /\ pc' \in [Tasks -> Places] /\ tok' \in [Tasks -> TokenType]
  BY <1>1, <1>2, <1>9, OneToken, TokenTypes DEF Places
<1>11. TypeOK'
  BY <1>1, <1>6, <1>7, <1>10 DEF TypeOK, Places
<1> QED
  BY <1>6, <1>10, <1>11 DEF Records

-----------------------------------------------------------------------------
(* The theorems                                                            *)

LEMMA InitInv == Init => IInv
<1> SUFFICES ASSUME Init PROVE IInv
  OBVIOUS
<1> USE DEF Init
<1>1. 0 \in Serials /\ 0 \in 0 .. Cardinality(Tasks)
  BY Constants, FS_CardinalityType DEF Serials
<1>2. TypeOK
  BY <1>1, TokenTypes, Constants DEF TypeOK
<1>3. TokensOK
  BY DEF TokensOK, TokenOK
<1>4. \A t \in Tasks, i \in Slots : ~Holds(t, i) /\ ~HoldsExclusive(t, i) /\ ~Reserving(t, i)
  BY DEF Holds, HoldsExclusive, Reserving
<1>5. Ownership /\ HoldersSafe
  BY <1>4 DEF Ownership, OwnedReserved, OneOwner, SameId, Owns, HoldersSafe, ExclusiveAlone, HeldKeepsId
<1>6. RefcountExact
  <2>1. ASSUME NEW i \in Slots
        PROVE  {t \in Tasks : Holds(t, i)} = {}
    BY <1>4
  <2> QED
    BY <2>1, FS_EmptySet DEF RefcountExact
<1>7. ReservedHasOwner /\ SerialFindsSlot
  BY Distinct DEF ReservedHasOwner, SerialFindsSlot
<1> QED
  BY <1>2, <1>3, <1>5, <1>6, <1>7 DEF IInv, RecordsUsable

LEMMA NextInv == IInv /\ [Next]_vars => IInv'
<1> SUFFICES ASSUME IInv, [Next]_vars PROVE IInv'
  OBVIOUS
<1>1. CASE Shutdown
  BY <1>1, StepShutdown
<1>2. ASSUME NEW t \in Tasks, CallBegins(t)
      PROVE  IInv'
  BY <1>2, StepBegin
<1>3. ASSUME NEW t \in Tasks, Proceed(t)
      PROVE  IInv'
  BY <1>3, StepFail, StepAllocate, StepSetName, StepGetById, StepGetBySearch, StepRetry,
     StepOperate, StepFinish, StepIterator DEF Proceed
<1>4. CASE UNCHANGED vars
  <2>1. UNCHANGED <<active, name, refcount, lastIssued, lock, pc, tok, iter, shutdown, budget>>
    BY <1>4 DEF vars, tableVars
  <2>2. TypeOK' /\ TokensOK'
    BY <2>1 DEF IInv, TypeOK, TokensOK, TokenOK
  <2>3. Records'
    BY <2>1, Still DEF IInv, Records, Holds, HoldsExclusive, Reserving
  <2> QED
    BY <2>2, <2>3 DEF IInv, Records
<1> QED
  BY <1>1, <1>2, <1>3, <1>4 DEF Next

\* Tokens fit the places of their tasks, and reserved records have one owner,
\* whatever OS_ObjectIdConvertToken grants, refuses or makes wait.
THEOREM InductiveInvariant == Spec => []IInv
<1>1. Init => IInv
  BY InitInv
<1>2. IInv /\ [Next]_vars => IInv'
  BY NextInv
<1> QED
  BY <1>1, <1>2, PTL DEF Spec

\* Every field of the object table has its type: IDs stay in the range of serial
\* numbers when they wrap, and no reference count exceeds the number of tasks.
THEOREM TypeCorrect == Spec => []TypeOK
BY InductiveInvariant, PTL DEF IInv

\* An object is created, deleted or renamed by one task with nobody else at the
\* record, and no holder sees its record given to another object.
THEOREM HoldersAlwaysSafe == Spec => []HoldersSafe
BY InductiveInvariant, PTL DEF IInv

\* Reference counts are exact, a reserved record has a task that will give it
\* up or free it, and every ID leads to its record.
THEOREM RecordsAlwaysUsable == Spec => []RecordsUsable
BY InductiveInvariant, PTL DEF IInv
=============================================================================
