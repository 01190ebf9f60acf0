-------------------------- MODULE TssNoFile_proofs --------------------------
(***************************************************************************)
(* Proofs about TssNoFile, for every set of handles and number of slots.   *)
(*                                                                         *)
(* A store and a deletion touch one slot of one array.  StoreFacts and     *)
(* DeleteFacts say what that does to the slots of all handles; both the    *)
(* invariants and the implementation of HandleStore follow from them.      *)
(* RefusedStores adds what a refused store says of the TPM.                *)
(***************************************************************************)
EXTENDS TssNoFile, FiniteSetTheorems, TLAPS

\* A slot holds handles of its own array only.
KindsMatch ==
  \A k \in Kinds, i \in Slots :
    slots[k][i].handle # RH_NULL => slots[k][i].handle \in Handles /\ Kind[slots[k][i].handle] = k

\* What SlotsFollowTpm says of one handle.
Follows(h) ==
  IF tpm[h] = NoData
    THEN Holding(Kind[h], h) = {}
    ELSE \E i \in Holding(Kind[h], h) : slots[Kind[h]][i].data = tpm[h]

\* Nothing changes for handle x: neither which slots hold it nor what is in them.
SlotsKept(x) ==
  /\ Holding(Kind[x], x)' = Holding(Kind[x], x)
  /\ \A i \in Holding(Kind[x], x) : slots'[Kind[x]][i] = slots[Kind[x]][i]

SlotsInv ==
  /\ slots \in [Kinds -> [Slots -> Slot]]
  /\ HandlesAreUnique
  /\ KindsMatch

IInv ==
  /\ TypeOK
  /\ SlotsInv
  /\ SlotsFollowTpm

LEMMA KindFacts ==
  /\ \A h \in Handles : Kind[h] \in Kinds
  /\ \A h \in SessionHandles : h \in Handles /\ Kind[h] = "session"
  /\ \A h \in ObjectHandles : h \in Handles /\ Kind[h] = "object"
BY ConstantsAssumption DEF Kind, Kinds, Handles

LEMMA GetSlotFacts ==
  ASSUME NEW k, NEW h, Holding(k, h) # {}
  PROVE  GetSlotForHandle(k, h) \in Holding(k, h)
BY DEF GetSlotForHandle

\* A store goes to the slot of its handle, and to a free one only if there is none.
LEMMA StoreSlotFacts ==
  ASSUME NEW h \in Handles, HasRoom(h)
  PROVE  /\ StoreSlot(h) \in Slots
         /\ slots[Kind[h]][StoreSlot(h)].handle \in {h, RH_NULL}
         /\ Holding(Kind[h], h) # {} => slots[Kind[h]][StoreSlot(h)].handle = h
<1>1. CASE Holding(Kind[h], h) # {}
  <2>1. StoreSlot(h) \in Holding(Kind[h], h)
    BY <1>1, GetSlotFacts DEF StoreSlot
  <2> QED BY <2>1 DEF Holding
<1>2. CASE Holding(Kind[h], h) = {}
  <2>1. StoreSlot(h) \in Holding(Kind[h], RH_NULL)
    BY <1>2, GetSlotFacts DEF StoreSlot, HasRoom
  <2> QED BY <1>2, <2>1 DEF Holding
<1> QED BY <1>1, <1>2

\* A store that finds a slot: the handle is in that slot and no other, and every other handle
\* is where it was.
LEMMA StoreFacts ==
  ASSUME SlotsInv,
         NEW h \in Handles, NEW d \in Data \union {NoData}, NEW p \in Data \union {NoData},
         HasRoom(h), Store(h, d, p)
  PROVE  /\ SlotsInv'
         /\ Holding(Kind[h], h)' = {StoreSlot(h)}
         /\ slots'[Kind[h]][StoreSlot(h)].data = d
         /\ \A x \in Handles \ {h} : SlotsKept(x)
<1> DEFINE s == StoreSlot(h)
           new == [handle |-> h, data |-> d, public |-> p]
<1>1. /\ s \in Slots /\ slots[Kind[h]][s].handle \in {h, RH_NULL}
      /\ Holding(Kind[h], h) # {} => slots[Kind[h]][s].handle = h
  BY StoreSlotFacts
<1>2. Kind[h] \in Kinds /\ RH_NULL \notin Handles
  BY KindFacts, ConstantsAssumption
<1>3. new \in Slot
  BY DEF Slot
<1>4. slots' = [slots EXCEPT ![Kind[h]][s] = new]
  BY DEF Store
<1> HIDE DEF s, new
<1>5. slots' \in [Kinds -> [Slots -> Slot]]
  BY <1>1, <1>2, <1>3, <1>4 DEF SlotsInv
<1>6. \A k \in Kinds, i \in Slots :
        slots'[k][i] = IF k = Kind[h] /\ i = s THEN new ELSE slots[k][i]
  BY <1>1, <1>2, <1>4 DEF SlotsInv
<1>7. new.handle = h /\ new.data = d
  BY DEF new
<1>8. \A i \in Slots : slots[Kind[h]][i].handle = h => i = s
  BY <1>1, <1>2 DEF Holding, SlotsInv, HandlesAreUnique
<1>9. HandlesAreUnique'
  BY <1>2, <1>6, <1>7, <1>8 DEF SlotsInv, HandlesAreUnique
<1>10. KindsMatch'
  BY <1>6, <1>7 DEF SlotsInv, KindsMatch
<1>11. Holding(Kind[h], h)' = {s}
  BY <1>1, <1>2, <1>6, <1>7, <1>8 DEF Holding
<1>12. slots'[Kind[h]][s].data = d
  BY <1>1, <1>2, <1>6, <1>7
<1>13. ASSUME NEW x \in Handles \ {h} PROVE SlotsKept(x)
  <2>1. Kind[x] \in Kinds /\ x # RH_NULL /\ x # h
    BY KindFacts, ConstantsAssumption
  <2>2. \A i \in Slots : (slots'[Kind[x]][i].handle = x) <=> (slots[Kind[x]][i].handle = x)
    BY <1>1, <1>6, <1>7, <2>1
  <2>3. \A i \in Slots : slots[Kind[x]][i].handle = x => slots'[Kind[x]][i] = slots[Kind[x]][i]
    BY <1>1, <1>6, <2>1
  <2> QED BY <2>2, <2>3 DEF SlotsKept, Holding
<1> QED BY <1>5, <1>9, <1>10, <1>11, <1>12, <1>13 DEF SlotsInv, s

\* A deletion: no slot holds the handle, and every other handle is where it was.
LEMMA DeleteFacts ==
  ASSUME SlotsInv, NEW h \in Handles, Delete(h)
  PROVE  /\ SlotsInv'
         /\ Holding(Kind[h], h)' = {}
         /\ \A x \in Handles \ {h} : SlotsKept(x)
<1>1. CASE Holding(Kind[h], h) = {}
  <2>1. slots' = slots
    BY <1>1 DEF Delete
  <2> QED BY <1>1, <2>1 DEF SlotsInv, HandlesAreUnique, KindsMatch, SlotsKept, Holding
<1>2. CASE Holding(Kind[h], h) # {}
  <2> DEFINE s == GetSlotForHandle(Kind[h], h)
             new == FreedSlot(slots[Kind[h]][s], Kind[h])
  <2>1. s \in Slots /\ slots[Kind[h]][s].handle = h
    BY <1>2, GetSlotFacts DEF Holding
  <2>2. Kind[h] \in Kinds /\ RH_NULL \notin Handles
    BY KindFacts, ConstantsAssumption
  <2>3. new \in Slot /\ new.handle = RH_NULL
    <3>1. slots[Kind[h]][s] \in Slot
      BY <2>1, <2>2 DEF SlotsInv
    <3>2. /\ [handle |-> RH_NULL, data |-> NoData, public |-> NoData] \in Slot
          /\ [slots[Kind[h]][s] EXCEPT !.handle = RH_NULL] \in Slot
          /\ [slots[Kind[h]][s] EXCEPT !.handle = RH_NULL].handle = RH_NULL
      BY <3>1 DEF Slot
    <3> QED BY <3>2 DEF FreedSlot
  <2>4. slots' = [slots EXCEPT ![Kind[h]][s] = new]
    BY <1>2 DEF Delete
  <2> HIDE DEF s, new
  <2>5. slots' \in [Kinds -> [Slots -> Slot]]
    BY <2>1, <2>2, <2>3, <2>4 DEF SlotsInv
  <2>6. \A k \in Kinds, i \in Slots :
          slots'[k][i] = IF k = Kind[h] /\ i = s THEN new ELSE slots[k][i]
    BY <2>1, <2>2, <2>4 DEF SlotsInv
  <2>7. HandlesAreUnique'
    BY <2>3, <2>6 DEF SlotsInv, HandlesAreUnique
  <2>8. KindsMatch'
    BY <2>3, <2>6 DEF SlotsInv, KindsMatch
  <2>9. Holding(Kind[h], h)' = {}
    BY <2>1, <2>2, <2>3, <2>6 DEF Holding, SlotsInv, HandlesAreUnique
  <2>10. ASSUME NEW x \in Handles \ {h} PROVE SlotsKept(x)
    <3>1. Kind[x] \in Kinds /\ x # RH_NULL /\ x # h
      BY KindFacts, ConstantsAssumption
    <3>2. \A i \in Slots : (slots'[Kind[x]][i].handle = x) <=> (slots[Kind[x]][i].handle = x)
      BY <2>1, <2>3, <2>6, <3>1
    <3>3. \A i \in Slots : slots[Kind[x]][i].handle = x => slots'[Kind[x]][i] = slots[Kind[x]][i]
      BY <2>1, <2>6, <3>1
    <3> QED BY <3>2, <3>3 DEF SlotsKept, Holding
  <2> QED BY <2>5, <2>7, <2>8, <2>9, <2>10 DEF SlotsInv
<1> QED BY <1>1, <1>2

LEMMA StoreRefusedFacts ==
  ASSUME NEW h \in Handles, NEW d, NEW p, ~HasRoom(h), Store(h, d, p)
  PROVE  slots' = slots
BY DEF Store

\* A command on handle h costs no other handle its agreement with the TPM.
LEMMA OthersFollow ==
  ASSUME IInv, NEW h \in Handles, NEW d \in Data \union {NoData},
         tpm' = [tpm EXCEPT ![h] = d],
         \A x \in Handles \ {h} : SlotsKept(x),
         \A x \in Handles \ {h} : x \in unsaved' <=> x \in unsaved,
         h \notin unsaved' => Follows(h)'
  PROVE  SlotsFollowTpm'
<1> SUFFICES ASSUME NEW x \in Handles \ unsaved' PROVE Follows(x)'
  BY DEF SlotsFollowTpm, Follows
<1>1. CASE x = h
  BY <1>1
<1>2. CASE x # h
  <2>1. Follows(x) /\ SlotsKept(x) /\ tpm'[x] = tpm[x]
    BY <1>2 DEF IInv, SlotsFollowTpm, Follows, TypeOK
  <2> QED BY <2>1 DEF Follows, SlotsKept
<1> QED BY <1>1, <1>2

LEMMA KeptWhenUnchanged ==
  ASSUME slots' = slots
  PROVE  \A x \in Handles : SlotsKept(x)
BY DEF SlotsKept, Holding

\* A store of what the TPM now has for the handle, or of something else if it is noted.
LEMMA StoreIInv ==
  ASSUME IInv, NEW h \in Handles, NEW d \in Data, NEW p \in Data \union {NoData},
         NEW v \in Data \union {NoData},
         tpm' = [tpm EXCEPT ![h] = d], Store(h, v, p),
         unsaved' \in {unsaved \ {h}, unsaved \union {h}},
         h \notin unsaved' => HasRoom(h) /\ v = d
  PROVE  IInv'
<1>1. refused' \in SUBSET Handles /\ unsaved' \in SUBSET Handles
  BY DEF Store, IInv, TypeOK
<1>2. tpm' \in [Handles -> Data \union {NoData}] /\ tpm'[h] = d /\ d # NoData
  BY ConstantsAssumption DEF IInv, TypeOK
<1>3. \A x \in Handles \ {h} : x \in unsaved' <=> x \in unsaved
  OBVIOUS
<1>4. CASE HasRoom(h)
  <2>1. /\ SlotsInv' /\ Holding(Kind[h], h)' = {StoreSlot(h)}
        /\ slots'[Kind[h]][StoreSlot(h)].data = v
        /\ \A x \in Handles \ {h} : SlotsKept(x)
    BY <1>4, StoreFacts DEF IInv
  <2>2. h \notin unsaved' => Follows(h)'
    BY <1>2, <2>1 DEF Follows
  <2>3. SlotsFollowTpm'
    BY <1>3, <2>1, <2>2, OthersFollow
  <2> QED BY <1>1, <1>2, <2>1, <2>3 DEF IInv, TypeOK, SlotsInv
<1>5. CASE ~HasRoom(h)
  <2>1. slots' = slots
    BY <1>5, StoreRefusedFacts
  <2>2. SlotsInv'
    BY <2>1 DEF IInv, SlotsInv, HandlesAreUnique, KindsMatch
  <2>3. SlotsFollowTpm'
    BY <1>3, <1>5, <2>1, KeptWhenUnchanged, OthersFollow
  <2> QED BY <1>1, <1>2, <2>2, <2>3 DEF IInv, TypeOK, SlotsInv
<1> QED BY <1>4, <1>5

LEMMA ReleaseIInv ==
  ASSUME IInv, NEW h \in Handles, Release(h)
  PROVE  IInv'
<1>1. /\ tpm' = [tpm EXCEPT ![h] = NoData] /\ Delete(h) /\ unsaved' = unsaved \ {h}
      /\ refused' = {}
  BY DEF Release, Delete
<1>2. /\ SlotsInv' /\ Holding(Kind[h], h)' = {}
      /\ \A x \in Handles \ {h} : SlotsKept(x)
  BY <1>1, DeleteFacts DEF IInv
<1>3. tpm' \in [Handles -> Data \union {NoData}] /\ tpm'[h] = NoData
  BY <1>1 DEF IInv, TypeOK
<1>4. Follows(h)'
  BY <1>2, <1>3 DEF Follows
<1>5. SlotsFollowTpm'
  BY <1>1, <1>2, <1>4, OthersFollow
<1> QED BY <1>1, <1>2, <1>3, <1>5 DEF IInv, TypeOK, SlotsInv

LEMMA TpmChangesIInv ==
  ASSUME IInv, NEW h \in Handles, NEW d \in Data \union {NoData}, TpmChanges(h, d)
  PROVE  IInv'
<1>1. /\ tpm' = [tpm EXCEPT ![h] = d] /\ unsaved' = unsaved \union {h}
      /\ slots' = slots /\ refused' = refused
  BY DEF TpmChanges
<1>2. SlotsInv'
  BY <1>1 DEF IInv, SlotsInv, HandlesAreUnique, KindsMatch
<1>3. SlotsFollowTpm'
  BY <1>1, KeptWhenUnchanged, OthersFollow
<1> QED BY <1>1, <1>2, <1>3 DEF IInv, TypeOK, SlotsInv

\* What the slot of a store, or the slot a Name is copied from, holds is of the right type.
LEMMA SlotTypes ==
  ASSUME IInv, NEW k \in Kinds, NEW i \in Slots
  PROVE  slots[k][i].data \in Data \union {NoData} /\ slots[k][i].public \in Data \union {NoData}
BY DEF IInv, SlotsInv, Slot

LEMMA OldPublicType ==
  ASSUME IInv, NEW h \in Handles
  PROVE  OldPublic(h) \in Data \union {NoData}
BY SlotTypes, StoreSlotFacts, KindFacts DEF OldPublic

\* What TSS_Name_Copy and TSS_Public_Copy find in the slot of object h.
LEMMA SourceFacts ==
  ASSUME IInv, NEW h \in ObjectHandles, Holding("object", h) # {}
  PROVE  /\ slots["object"][GetSlotForHandle("object", h)].data \in Data \union {NoData}
         /\ slots["object"][GetSlotForHandle("object", h)].public \in Data \union {NoData}
         /\ h \notin unsaved /\ tpm[h] # NoData =>
              slots["object"][GetSlotForHandle("object", h)].data = tpm[h]
<1>1. GetSlotForHandle("object", h) \in Holding("object", h)
  BY GetSlotFacts
<1>2. "object" \in Kinds /\ h \in Handles /\ Kind[h] = "object" /\ h # RH_NULL
  BY KindFacts, ConstantsAssumption DEF Kinds
<1>3. GetSlotForHandle("object", h) \in Slots
  BY <1>1 DEF Holding
<1>4. ASSUME h \notin unsaved, tpm[h] # NoData
      PROVE  slots["object"][GetSlotForHandle("object", h)].data = tpm[h]
  <2>1. PICK i \in Holding("object", h) : slots["object"][i].data = tpm[h]
    BY <1>2, <1>4 DEF IInv, SlotsFollowTpm
  <2>2. i = GetSlotForHandle("object", h)
    BY <1>1, <1>2, <2>1 DEF Holding, IInv, SlotsInv, HandlesAreUnique
  <2> QED BY <2>1, <2>2
<1> QED BY <1>2, <1>3, <1>4, SlotTypes

\* IInv is inductive.
THEOREM Invariance == Spec => []IInv
<1>1. Init => IInv
  <2> SUFFICES ASSUME Init PROVE IInv
    OBVIOUS
  <2>1. slots = [k \in Kinds |-> [i \in Slots |->
                   [handle |-> RH_NULL, data |-> NoData, public |-> NoData]]]
    BY DEF Init
  <2>2. [handle |-> RH_NULL, data |-> NoData, public |-> NoData] \in Slot
    BY DEF Slot
  <2>3. slots \in [Kinds -> [Slots -> Slot]]
    BY <2>1, <2>2
  <2>4. \A k \in Kinds, i \in Slots : slots[k][i].handle = RH_NULL
    BY <2>1
  <2>5. SlotsInv
    BY <2>3, <2>4 DEF SlotsInv, HandlesAreUnique, KindsMatch
  <2>6. \A h \in Handles : tpm[h] = NoData /\ Holding(Kind[h], h) = {}
    BY <2>4, KindFacts, ConstantsAssumption DEF Init, Holding
  <2> QED BY <2>3, <2>5, <2>6 DEF Init, IInv, TypeOK, SlotsFollowTpm
<1>2. IInv /\ [Next]_vars => IInv'
  <2> SUFFICES ASSUME IInv, [Next]_vars PROVE IInv'
    OBVIOUS
  <2>1. \A h \in Handles : tpm[h] \in Data \union {NoData}
    BY DEF IInv, TypeOK
  <2>2. ASSUME NEW h \in SessionHandles, NEW d \in Data, SaveSession(h, d) PROVE IInv'
    BY <2>2, KindFacts, StoreIInv DEF SaveSession
  <2>3. ASSUME NEW h \in SessionHandles, NEW d \in Data, SaveSessionRunsOutOfMemory(h, d)
        PROVE  IInv'
    <3>1. slots["session"][StoreSlot(h)].data \in Data \union {NoData}
      BY <2>3, StoreSlotFacts, SlotTypes, KindFacts DEF SaveSessionRunsOutOfMemory, Kinds
    <3> QED BY <2>3, <3>1, KindFacts, StoreIInv DEF SaveSessionRunsOutOfMemory
  <2>4. ASSUME NEW h \in ObjectHandles \union NvIndexes, NEW d \in Data, StoreNameAndPublic(h, d)
        PROVE  IInv'
    BY <2>4, StoreIInv DEF StoreNameAndPublic, Handles
  <2>5. ASSUME NEW h \in ObjectHandles, NEW d \in Data, SequenceStart(h, d) PROVE IInv'
    BY <2>5, KindFacts, OldPublicType, StoreIInv DEF SequenceStart
  <2>6. ASSUME NEW h \in ObjectHandles, NEW p \in ObjectHandles, MakePersistent(h, p) PROVE IInv'
    <3> DEFINE source == slots["object"][GetSlotForHandle("object", h)]
    <3>1. /\ source.data \in Data \union {NoData} /\ source.public \in Data \union {NoData}
          /\ h \notin unsaved => source.data = tpm[h]
      BY <2>6, SourceFacts DEF MakePersistent
    <3>2. /\ p \in Handles /\ tpm[h] \in Data
          /\ tpm' = [tpm EXCEPT ![p] = tpm[h]]
          /\ Store(p, source.data, source.public)
          /\ unsaved' = IF HasRoom(p) /\ h \notin unsaved THEN unsaved \ {p} ELSE unsaved \union {p}
      BY <2>1, <2>6, KindFacts DEF MakePersistent
    <3> HIDE DEF source
    <3>3. /\ unsaved' \in {unsaved \ {p}, unsaved \union {p}}
          /\ p \notin unsaved' => HasRoom(p) /\ source.data = tpm[h]
      BY <3>1, <3>2
    <3> QED BY <3>1, <3>2, <3>3, StoreIInv
  <2>7. ASSUME NEW h \in Handles, Release(h) PROVE IInv'
    BY <2>7, ReleaseIInv
  <2>8. ASSUME NEW h \in Handles, NEW d \in Data \union {NoData}, TpmChanges(h, d) PROVE IInv'
    BY <2>8, TpmChangesIInv
  <2>9. CASE UNCHANGED vars
    BY <2>9 DEF vars, IInv, TypeOK, SlotsInv, HandlesAreUnique, KindsMatch, SlotsFollowTpm, Holding
  <2> QED BY <2>2, <2>3, <2>4, <2>5, <2>6, <2>7, <2>8, <2>9 DEF Next
<1> QED BY <1>1, <1>2, PTL DEF Spec

\* Type correctness, for any number of handles and slots.
THEOREM TypeCorrectness == Spec => []TypeOK
BY Invariance, PTL DEF IInv

\* No handle is ever in two slots.
THEOREM Uniqueness == Spec => []HandlesAreUnique
BY Invariance, PTL DEF IInv, SlotsInv

\* The slots are those of the handles the TPM holds, with what the TPM has for them.
THEOREM Agreement == Spec => []SlotsFollowTpm
BY Invariance, PTL DEF IInv

-----------------------------------------------------------------------------
(* The arrays implement HandleStore                                        *)

LEMMA RetainedDomain == DOMAIN Retained = {x \in Handles : Holding(Kind[x], x) # {}}
BY DEF Retained

LEMMA TheSlot ==
  ASSUME HandlesAreUnique, NEW x \in Handles, NEW i \in Holding(Kind[x], x)
  PROVE  GetSlotForHandle(Kind[x], x) = i
<1>1. GetSlotForHandle(Kind[x], x) \in Holding(Kind[x], x)
  BY GetSlotFacts
<1> QED BY <1>1, KindFacts, ConstantsAssumption DEF Holding, HandlesAreUnique

\* The slots of the handles of one kind, one for each.
LEMMA SlotsOfKind ==
  ASSUME SlotsInv, NEW h \in Handles
  PROVE  LET f == [x \in Abstract!OfKind(h) |-> GetSlotForHandle(Kind[h], x)]
         IN  /\ f \in Injection(Abstract!OfKind(h), Slots)
             /\ \A x \in Abstract!OfKind(h) : slots[Kind[h]][f[x]].handle = x
             /\ Holding(Kind[h], RH_NULL) = {} => f \in Surjection(Abstract!OfKind(h), Slots)
<1> DEFINE K == Abstract!OfKind(h)
           f == [x \in K |-> GetSlotForHandle(Kind[h], x)]
<1>1. K = {x \in Handles : Kind[x] = Kind[h] /\ Holding(Kind[h], x) # {}}
  BY RetainedDomain DEF Abstract!OfKind
<1>2. \A x \in K : f[x] \in Holding(Kind[h], x)
  BY <1>1, GetSlotFacts
<1>3. \A x \in K : f[x] \in Slots /\ slots[Kind[h]][f[x]].handle = x
  BY <1>2 DEF Holding
<1>4. f \in [K -> Slots]
  BY <1>3
<1> HIDE DEF f, K
<1>5. f \in Injection(K, Slots)
  BY <1>3, <1>4 DEF Injection, IsInjective
<1>6. ASSUME Holding(Kind[h], RH_NULL) = {}, NEW i \in Slots PROVE \E x \in K : f[x] = i
  <2> DEFINE x == slots[Kind[h]][i].handle
  <2>1. x # RH_NULL /\ Kind[h] \in Kinds
    BY <1>6, KindFacts DEF Holding
  <2>2. x \in Handles /\ Kind[x] = Kind[h]
    BY <2>1 DEF SlotsInv, KindsMatch
  <2>3. i \in Holding(Kind[h], x)
    BY DEF Holding
  <2>4. x \in K
    BY <1>1, <2>2, <2>3
  <2>5. slots[Kind[h]][f[x]].handle = x /\ f[x] \in Slots
    BY <1>3, <2>4
  <2>6. f[x] = i
    BY <2>1, <2>5 DEF SlotsInv, HandlesAreUnique
  <2> QED BY <2>4, <2>6
<1>7. Holding(Kind[h], RH_NULL) = {} => f \in Surjection(K, Slots)
  BY <1>4, <1>6 DEF Surjection
<1> QED BY <1>3, <1>5, <1>7 DEF f, K

\* HandleStore counts as this module does.
LEMMA SameCardinality == \A S : Abstract!Cardinality(S) = Cardinality(S)
BY DEF Abstract!Cardinality, Cardinality

LEMMA SlotsFinite == IsFiniteSet(Slots) /\ Cardinality(Slots) = SlotCount
BY FS_Interval, ConstantsAssumption DEF Slots

\* While a slot is free, fewer handles of its kind are retained than there are slots.
LEMMA FreeSlot ==
  ASSUME SlotsInv, NEW h \in Handles, Holding(Kind[h], RH_NULL) # {}
  PROVE  Cardinality(Abstract!OfKind(h)) < SlotCount
<1> DEFINE K == Abstract!OfKind(h)
<1>1. PICK f \in Injection(K, Slots) : \A x \in K : slots[Kind[h]][f[x]].handle = x
  BY SlotsOfKind
<1>2. PICK i \in Slots : slots[Kind[h]][i].handle = RH_NULL
  BY DEF Holding
<1>3. RH_NULL \notin K
  BY RetainedDomain, ConstantsAssumption DEF Abstract!OfKind
<1> HIDE DEF K
<1>4. f \in [K -> Slots] /\ \A x \in K : f[x] # i
  BY <1>1, <1>2, <1>3 DEF Injection
<1>5. f \in Injection(K, Slots \ {i})
  BY <1>1, <1>4 DEF Injection, IsInjective
<1>6. IsFiniteSet(Slots \ {i}) /\ Cardinality(Slots \ {i}) = SlotCount - 1
  BY <1>2, FS_RemoveElement, SlotsFinite
<1>7. Cardinality(K) <= Cardinality(Slots \ {i}) /\ IsFiniteSet(K)
  BY <1>5, <1>6, FS_Injection
<1>8. Cardinality(K) \in Nat
  BY <1>7, FS_CardinalityType
<1> QED BY <1>6, <1>7, <1>8, ConstantsAssumption DEF K

\* When no slot is free, as many handles of its kind are retained as there are slots.
LEMMA NoFreeSlot ==
  ASSUME SlotsInv, NEW h \in Handles, Holding(Kind[h], RH_NULL) = {}
  PROVE  Cardinality(Abstract!OfKind(h)) = SlotCount
<1> DEFINE K == Abstract!OfKind(h)
<1>1. PICK f \in Injection(K, Slots) : f \in Surjection(K, Slots)
  BY SlotsOfKind
<1> HIDE DEF K
<1>2. Cardinality(K) = Cardinality(Slots)
  BY <1>1, FS_Injection, SlotsFinite
<1> QED BY <1>2, SlotsFinite DEF K

\* What is retained for a handle whose slots are left alone stays.
LEMMA KeptRetained ==
  ASSUME NEW x \in Handles, SlotsKept(x), Holding(Kind[x], x) # {}
  PROVE  x \in DOMAIN Retained /\ x \in DOMAIN Retained' /\ Retained'[x] = Retained[x]
<1>1. Holding(Kind[x], x)' = Holding(Kind[x], x)
  BY DEF SlotsKept
<1>2. GetSlotForHandle(Kind[x], x)' = GetSlotForHandle(Kind[x], x)
  BY <1>1 DEF GetSlotForHandle
<1>3. GetSlotForHandle(Kind[x], x) \in Holding(Kind[x], x)
  BY GetSlotFacts
<1> QED BY <1>1, <1>2, <1>3 DEF SlotsKept, Retained

\* A store is a put, or is refused because the room is taken.
LEMMA StoreRefines ==
  ASSUME IInv, IInv', NEW h \in Handles, NEW v \in Data \union {NoData},
         NEW p \in Data \union {NoData}, Store(h, v, p)
  PROVE  Abstract!Put(h, v) \/ Abstract!Refuse(h)
<1>1. CASE HasRoom(h)
  <2>1. /\ Holding(Kind[h], h)' = {StoreSlot(h)}
        /\ slots'[Kind[h]][StoreSlot(h)].data = v
        /\ \A x \in Handles \ {h} : SlotsKept(x)
    BY <1>1, StoreFacts DEF IInv
  <2>2. h \in DOMAIN Retained \/ Cardinality(Abstract!OfKind(h)) < SlotCount
    BY <1>1, FreeSlot, RetainedDomain DEF HasRoom, IInv
  <2>3. DOMAIN Retained' = {x \in Handles : Holding(Kind[x], x)' # {}}
    BY DEF Retained
  <2>4. DOMAIN Retained' = DOMAIN Retained \union {h}
    BY <2>1, <2>3, RetainedDomain DEF SlotsKept
  <2>5. Retained'[h] = v
    <3>1. GetSlotForHandle(Kind[h], h)' = StoreSlot(h)
      BY <2>1 DEF GetSlotForHandle
    <3> QED BY <2>1, <3>1 DEF Retained
  <2>6. \A x \in DOMAIN Retained \ {h} : Retained'[x] = Retained[x]
    BY <2>1, RetainedDomain, KeptRetained
  <2>7. Retained' = [x \in DOMAIN Retained \union {h} |-> IF x = h THEN v ELSE Retained[x]]
    <3>1. Retained' = [x \in DOMAIN Retained' |-> Retained'[x]]
      BY DEF Retained
    <3> QED BY <2>4, <2>5, <2>6, <3>1
  <2>8. refused' = {}
    BY <1>1 DEF Store
  <2> QED BY <2>2, <2>7, <2>8, SameCardinality DEF Abstract!Put
<1>2. CASE ~HasRoom(h)
  <2>1. slots' = slots /\ refused' = {h}
    BY <1>2 DEF Store
  <2>2. Retained' = Retained
    BY <2>1 DEF Retained, Holding, GetSlotForHandle
  <2>3. h \notin DOMAIN Retained /\ Cardinality(Abstract!OfKind(h)) = SlotCount
    BY <1>2, NoFreeSlot, RetainedDomain DEF HasRoom, IInv
  <2> QED BY <2>1, <2>2, <2>3, SameCardinality DEF Abstract!Refuse
<1> QED BY <1>1, <1>2

LEMMA DeleteRefines ==
  ASSUME IInv, NEW h \in Handles, Delete(h)
  PROVE  Abstract!Remove(h)
<1>1. /\ Holding(Kind[h], h)' = {}
      /\ \A x \in Handles \ {h} : SlotsKept(x)
  BY DeleteFacts DEF IInv
<1>2. DOMAIN Retained' = {x \in Handles : Holding(Kind[x], x)' # {}}
  BY DEF Retained
<1>3. DOMAIN Retained' = DOMAIN Retained \ {h}
  BY <1>1, <1>2, RetainedDomain DEF SlotsKept
<1>4. \A x \in DOMAIN Retained \ {h} : Retained'[x] = Retained[x]
  BY <1>1, RetainedDomain, KeptRetained
<1>5. Retained' = [x \in DOMAIN Retained \ {h} |-> Retained[x]]
  <2>1. Retained' = [x \in DOMAIN Retained' |-> Retained'[x]]
    BY DEF Retained
  <2> QED BY <1>3, <1>4, <2>1
<1>6. refused' = {}
  BY DEF Delete
<1> QED BY <1>5, <1>6 DEF Abstract!Remove

\* The three arrays implement the map from handles to what was stored last, with room for
\* SlotCount handles of each kind: no slot is lost or split, and none is refused in vain.
THEOREM Refinement == Spec => RefinesHandleStore
<1>1. Init => Abstract!Init
  <2> SUFFICES ASSUME Init PROVE Abstract!Init
    OBVIOUS
  <2>1. \A x \in Handles : Holding(Kind[x], x) = {}
    BY KindFacts, ConstantsAssumption DEF Init, Holding
  <2>2. DOMAIN Retained = {}
    BY <2>1, RetainedDomain
  <2>3. Retained = [x \in {} |-> {}]
    BY <2>2 DEF Retained
  <2> QED BY <2>3 DEF Init, Abstract!Init
<1>2. IInv /\ IInv' /\ [Next]_vars => [Abstract!Next]_<<Retained, refused>>
  <2> SUFFICES ASSUME IInv, IInv', [Next]_vars PROVE [Abstract!Next]_<<Retained, refused>>
    OBVIOUS
  <2>1. ASSUME NEW h \in Handles, NEW v \in Data \union {NoData}, NEW p \in Data \union {NoData},
               Store(h, v, p)
        PROVE  Abstract!Next
    BY <2>1, StoreRefines DEF Abstract!Next
  <2>2. ASSUME NEW h \in SessionHandles, NEW d \in Data, SaveSession(h, d) PROVE Abstract!Next
    BY <2>1, <2>2, KindFacts DEF SaveSession
  <2>3. ASSUME NEW h \in SessionHandles, NEW d \in Data, SaveSessionRunsOutOfMemory(h, d)
        PROVE  Abstract!Next
    <3>1. slots["session"][StoreSlot(h)].data \in Data \union {NoData}
      BY <2>3, StoreSlotFacts, SlotTypes, KindFacts DEF SaveSessionRunsOutOfMemory, Kinds
    <3> QED BY <2>1, <2>3, <3>1, KindFacts DEF SaveSessionRunsOutOfMemory
  <2>4. ASSUME NEW h \in ObjectHandles \union NvIndexes, NEW d \in Data, StoreNameAndPublic(h, d)
        PROVE  Abstract!Next
    BY <2>1, <2>4 DEF StoreNameAndPublic, Handles
  <2>5. ASSUME NEW h \in ObjectHandles, NEW d \in Data, SequenceStart(h, d) PROVE Abstract!Next
    BY <2>1, <2>5, KindFacts, OldPublicType DEF SequenceStart
  <2>6. ASSUME NEW h \in ObjectHandles, NEW p \in ObjectHandles, MakePersistent(h, p)
        PROVE  Abstract!Next
    BY <2>1, <2>6, KindFacts, SourceFacts DEF MakePersistent
  <2>7. ASSUME NEW h \in Handles, Release(h) PROVE Abstract!Next
    BY <2>7, DeleteRefines DEF Release, Abstract!Next
  <2>8. ASSUME slots' = slots, refused' = refused PROVE UNCHANGED <<Retained, refused>>
    BY <2>8 DEF Retained, Holding, GetSlotForHandle
  <2> QED BY <2>2, <2>3, <2>4, <2>5, <2>6, <2>7, <2>8 DEF Next, TpmChanges, vars
<1> QED BY <1>1, <1>2, Invariance, PTL DEF Spec, RefinesHandleStore, Abstract!Spec

-----------------------------------------------------------------------------
(* A refused store                                                         *)

\* The handles of one kind that ask for a slot: the TPM has them, or their slot could not follow
\* when the TPM dropped them.
Claimed(k) == {x \in Handles : Kind[x] = k /\ (tpm[x] # NoData \/ x \in unsaved)}

\* A store is refused only when there are more handles than slots: every slot has its handle, no
\* slot was lost to a handle released long ago.
RefusedOnlyWhenFull == \A h \in refused : Cardinality(Claimed(Kind[h])) > SlotCount

\* A handle that has a slot asks for it.
LEMMA RetainedAreClaimed ==
  ASSUME IInv, NEW h \in Handles
  PROVE  Abstract!OfKind(h) \subseteq Claimed(Kind[h])
<1> SUFFICES ASSUME NEW x \in Abstract!OfKind(h) PROVE x \in Claimed(Kind[h])
  OBVIOUS
<1>1. x \in Handles /\ Kind[x] = Kind[h] /\ Holding(Kind[x], x) # {}
  BY RetainedDomain DEF Abstract!OfKind
<1>2. x \in unsaved \/ tpm[x] # NoData
  BY <1>1 DEF IInv, SlotsFollowTpm
<1> QED BY <1>1, <1>2 DEF Claimed

\* When a store is refused the slots are those of SlotCount other handles.
LEMMA StoreRoom ==
  ASSUME IsFiniteSet(Handles), IInv,
         NEW h \in Handles, NEW d \in Data, NEW v, NEW p,
         tpm' = [tpm EXCEPT ![h] = d], Store(h, v, p),
         unsaved' \in {unsaved \ {h}, unsaved \union {h}}
  PROVE  RefusedOnlyWhenFull'
<1>1. CASE HasRoom(h)
  BY <1>1 DEF Store, RefusedOnlyWhenFull
<1>2. CASE ~HasRoom(h)
  <2> DEFINE K == Abstract!OfKind(h)
             C == Claimed(Kind[h])'
  <2>1. refused' = {h} /\ Holding(Kind[h], h) = {} /\ Holding(Kind[h], RH_NULL) = {}
    BY <1>2 DEF Store, HasRoom
  <2>2. Cardinality(K) = SlotCount
    BY <2>1, NoFreeSlot DEF IInv
  <2>3. h \notin K
    BY <2>1, RetainedDomain DEF Abstract!OfKind
  <2>4. K \subseteq Claimed(Kind[h])
    BY RetainedAreClaimed
  <2>5. tpm'[h] # NoData /\ \A x \in Handles \ {h} : tpm'[x] = tpm[x] /\ (x \in unsaved' <=> x \in unsaved)
    BY ConstantsAssumption DEF IInv, TypeOK
  <2>6. K \union {h} \subseteq C
    BY <2>3, <2>4, <2>5 DEF Claimed
  <2>7. IsFiniteSet(C) /\ IsFiniteSet(K)
    <3>1. C \subseteq Handles /\ K \subseteq Handles
      BY <2>4 DEF Claimed
    <3> QED BY <3>1, FS_Subset
  <2> HIDE DEF K, C
  <2>8. Cardinality(K \union {h}) = SlotCount + 1
    BY <2>2, <2>3, <2>7, FS_AddElement
  <2>9. Cardinality(K \union {h}) <= Cardinality(C) /\ Cardinality(C) \in Nat
    BY <2>6, <2>7, FS_Subset, FS_CardinalityType
  <2>10. Cardinality(C) > SlotCount
    BY <2>8, <2>9, ConstantsAssumption
  <2> QED BY <2>1, <2>10 DEF RefusedOnlyWhenFull, C
<1> QED BY <1>1, <1>2

\* What happens at the TPM alone takes no handle away from those that ask for a slot.
LEMMA TpmChangesRoom ==
  ASSUME IsFiniteSet(Handles), IInv, RefusedOnlyWhenFull,
         NEW x \in Handles, NEW d \in Data \union {NoData}, TpmChanges(x, d)
  PROVE  RefusedOnlyWhenFull'
<1> SUFFICES ASSUME NEW h \in refused' PROVE Cardinality(Claimed(Kind[h])') > SlotCount
  BY DEF RefusedOnlyWhenFull
<1>1. /\ tpm' = [tpm EXCEPT ![x] = d] /\ unsaved' = unsaved \union {x} /\ refused' = refused
  BY DEF TpmChanges
<1>2. Claimed(Kind[h]) \subseteq Claimed(Kind[h])'
  BY <1>1 DEF Claimed, IInv, TypeOK
<1>3. IsFiniteSet(Claimed(Kind[h])') /\ IsFiniteSet(Claimed(Kind[h]))
  <2>1. Claimed(Kind[h])' \subseteq Handles /\ Claimed(Kind[h]) \subseteq Handles
    BY DEF Claimed
  <2> QED BY <2>1, FS_Subset
<1>4. Cardinality(Claimed(Kind[h])) <= Cardinality(Claimed(Kind[h])')
  BY <1>2, <1>3, FS_Subset
<1>5. Cardinality(Claimed(Kind[h])) > SlotCount
  BY <1>1 DEF RefusedOnlyWhenFull
<1> QED BY <1>3, <1>4, <1>5, FS_CardinalityType, ConstantsAssumption

\* No slot leaks: however many sessions, objects and NV indexes come and go, a store is refused
\* only while the TPM has more of that kind than the array has slots, counting the handles whose
\* loss the TSS was not told of.
THEOREM RefusedStores ==
  ASSUME IsFiniteSet(Handles)
  PROVE  Spec => []RefusedOnlyWhenFull
<1>1. Init => RefusedOnlyWhenFull
  BY DEF Init, RefusedOnlyWhenFull
<1>2. IInv /\ RefusedOnlyWhenFull /\ [Next]_vars => RefusedOnlyWhenFull'
  <2> SUFFICES ASSUME IInv, RefusedOnlyWhenFull, [Next]_vars PROVE RefusedOnlyWhenFull'
    OBVIOUS
  <2>1. ASSUME NEW h \in SessionHandles, NEW d \in Data, SaveSession(h, d)
        PROVE  RefusedOnlyWhenFull'
    BY <2>1, KindFacts, StoreRoom DEF SaveSession
  <2>2. ASSUME NEW h \in SessionHandles, NEW d \in Data, SaveSessionRunsOutOfMemory(h, d)
        PROVE  RefusedOnlyWhenFull'
    BY <2>2, KindFacts, StoreRoom DEF SaveSessionRunsOutOfMemory
  <2>3. ASSUME NEW h \in ObjectHandles \union NvIndexes, NEW d \in Data, StoreNameAndPublic(h, d)
        PROVE  RefusedOnlyWhenFull'
    BY <2>3, StoreRoom DEF StoreNameAndPublic, Handles
  <2>4. ASSUME NEW h \in ObjectHandles, NEW d \in Data, SequenceStart(h, d)
        PROVE  RefusedOnlyWhenFull'
    BY <2>4, KindFacts, StoreRoom DEF SequenceStart
  <2>5. ASSUME NEW h \in ObjectHandles, NEW p \in ObjectHandles, MakePersistent(h, p)
        PROVE  RefusedOnlyWhenFull'
    <3> DEFINE source == slots["object"][GetSlotForHandle("object", h)]
    <3>1. /\ p \in Handles /\ tpm[h] \in Data
          /\ tpm' = [tpm EXCEPT ![p] = tpm[h]]
          /\ Store(p, source.data, source.public)
          /\ unsaved' \in {unsaved \ {p}, unsaved \union {p}}
      BY <2>5, KindFacts DEF MakePersistent, IInv, TypeOK
    <3> HIDE DEF source
    <3> QED BY <3>1, StoreRoom
  <2>6. ASSUME NEW h \in Handles, Release(h) PROVE RefusedOnlyWhenFull'
    BY <2>6 DEF Release, Delete, RefusedOnlyWhenFull
  <2>7. ASSUME NEW h \in Handles, NEW d \in Data \union {NoData}, TpmChanges(h, d)
        PROVE  RefusedOnlyWhenFull'
    BY <2>7, TpmChangesRoom
  <2>8. CASE UNCHANGED vars
    BY <2>8 DEF vars, RefusedOnlyWhenFull, Claimed
  <2> QED BY <2>1, <2>2, <2>3, <2>4, <2>5, <2>6, <2>7, <2>8 DEF Next
<1> QED BY <1>1, <1>2, Invariance, PTL DEF Spec
=============================================================================
