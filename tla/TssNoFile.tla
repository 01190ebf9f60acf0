----------------------------- MODULE TssNoFile -----------------------------
(***************************************************************************)
(* The TSS built without files (TPM_TSS_NOFILE): src/utils/tss.c.          *)
(*                                                                         *)
(* Sessions, objects and NV indexes are retained in three arrays of slots  *)
(* of the context.  TPM_RH_NULL marks a free slot; a store goes to the     *)
(* slot of its handle, else to a free one, else it is refused.  One        *)
(* command is one step: nothing outlives the process, and it is            *)
(* single threaded.  What goes wrong is that the response is lost, that    *)
(* no slot is free, or that memory for a session context is short.         *)
(*                                                                         *)
(* GetSlotForHandle takes the first match; which free slot a new handle    *)
(* gets makes no difference, so it is left open here.                      *)
(***************************************************************************)
EXTENDS Naturals, FiniteSets

CONSTANTS
  SessionHandles, \* TPM_HT_HMAC_SESSION and TPM_HT_POLICY_SESSION
  ObjectHandles,  \* TPM_HT_TRANSIENT and TPM_HT_PERSISTENT
  NvIndexes,      \* TPM_HT_NV_INDEX
  RH_NULL,        \* the handle of a free slot
  Data,           \* session contexts, Names of objects and NV indexes
  NoData,         \* nothing was stored
  SlotCount       \* MAX_ACTIVE_SESSIONS, and the length of the other two arrays

Handles == SessionHandles \union ObjectHandles \union NvIndexes

Slots == 1 .. SlotCount

Kinds == {"session", "object", "nv"}

\* The array of each handle.
Kind ==
  [h \in Handles |-> IF h \in SessionHandles THEN "session"
                     ELSE IF h \in ObjectHandles THEN "object" ELSE "nv"]

\* TSS_SESSIONS has sessionData, the other two have name and public.
Slot == [handle : Handles \union {RH_NULL}, data : Data \union {NoData}, public : Data \union {NoData}]

ASSUME ConstantsAssumption ==
  /\ SlotCount \in Nat
  /\ RH_NULL \notin Handles
  /\ NoData \notin Data
  /\ SessionHandles \intersect ObjectHandles = {}
  /\ NvIndexes \intersect (SessionHandles \union ObjectHandles) = {}

VARIABLES
  slots,   \* the arrays sessions, objectPublic and nvPublic of TSS_CONTEXT
  refused, \* the handle whose store found no slot just now, if any
  tpm,     \* external: the session context, or the Name, the TPM has for each handle
  unsaved  \* auxiliary: handles whose slot could not follow the TPM

vars == <<slots, refused, tpm, unsaved>>

-----------------------------------------------------------------------------
(* The slots                                                               *)

\* The slots that hold h, or the free ones.
Holding(k, h) == {i \in Slots : slots[k][i].handle = h}

\* TSS_..._GetSlotForHandle.
GetSlotForHandle(k, h) == CHOOSE i \in Holding(k, h) : TRUE

\* Mutant: the slot the handle has already is not looked for.
StoreSlotTakesFree(h) ==
  GetSlotForHandle(Kind[h], IF Holding(Kind[h], RH_NULL) # {} THEN RH_NULL ELSE h)

\* The slot a store of h goes to.
StoreSlot(h) ==
  GetSlotForHandle(Kind[h], IF Holding(Kind[h], h) # {} THEN h ELSE RH_NULL)

\* Mutant: only a free slot will do.
HasRoomNeedsFree(h) == Holding(Kind[h], RH_NULL) # {}

HasRoom(h) == Holding(Kind[h], h) # {} \/ Holding(Kind[h], RH_NULL) # {}

\* TSS_Name_Store then TSS_Public_Store or TSS_NVPublic_Store, or TSS_HmacSession_SaveData.
\* A sequence object has no public area: `public` stays what the slot had.
Store(h, data, public) ==
  IF HasRoom(h)
    THEN /\ slots' = [slots EXCEPT ![Kind[h]][StoreSlot(h)] =
                        [handle |-> h, data |-> data, public |-> public]]
         /\ refused' = {}
    ELSE /\ refused' = {h}
         /\ UNCHANGED slots

\* Mutant: the handle stays in the slot.
FreedSlotKeepsHandle(s, k) == [s EXCEPT !.data = NoData]

\* Mutant: a free slot is marked with 0.
FreedSlotIsZero(s, k) == [s EXCEPT !.handle = 0]

\* A slot after DeleteData: session secrets are erased, a Name and a public area stay.
FreedSlot(s, k) ==
  IF k = "session"
    THEN [handle |-> RH_NULL, data |-> NoData, public |-> NoData]
    ELSE [s EXCEPT !.handle = RH_NULL]

\* TSS_DeleteHandle; TSS_NVPublic_Delete for an NV index.
Delete(h) ==
  /\ slots' = IF Holding(Kind[h], h) = {}
                THEN slots
                ELSE [slots EXCEPT ![Kind[h]][GetSlotForHandle(Kind[h], h)] = FreedSlot(@, Kind[h])]
  /\ refused' = {}

Init ==
  /\ slots = [k \in Kinds |-> [i \in Slots |-> [handle |-> RH_NULL, data |-> NoData, public |-> NoData]]]
  /\ refused = {}
  /\ tpm = [h \in Handles |-> NoData]
  /\ unsaved = {}

-----------------------------------------------------------------------------
(* The commands                                                            *)

\* The public area under a Name that was stored alone.
OldPublic(h) == IF HasRoom(h) THEN slots[Kind[h]][StoreSlot(h)].public ELSE NoData

\* TPM2_StartAuthSession, and every command that rolls the nonces of session h.
SaveSession(h, d) ==
  /\ tpm' = [tpm EXCEPT ![h] = d]
  /\ Store(h, d, NoData)
  /\ unsaved' = IF HasRoom(h) THEN unsaved \ {h} ELSE unsaved \union {h}

\* As before, but TSS_Realloc fails: the slot is taken, what it holds stays.
SaveSessionRunsOutOfMemory(h, d) ==
  /\ HasRoom(h)
  /\ tpm' = [tpm EXCEPT ![h] = d]
  /\ Store(h, slots["session"][StoreSlot(h)].data, NoData)
  /\ unsaved' = unsaved \union {h}

\* Create, load, read public of an object; define, read public of an NV index; write, lock of an
\* NV index that has a slot (of another one it is TpmChanges: the saved public area is missing).
StoreNameAndPublic(h, d) ==
  /\ tpm' = [tpm EXCEPT ![h] = d]
  /\ Store(h, d, d)
  /\ unsaved' = IF HasRoom(h) THEN unsaved \ {h} ELSE unsaved \union {h}

\* TPM2_HashSequenceStart and TPM2_HMAC_Start: the Name only.
SequenceStart(h, d) ==
  /\ tpm[h] = NoData
  /\ tpm' = [tpm EXCEPT ![h] = d]
  /\ Store(h, d, OldPublic(h))
  /\ unsaved' = IF HasRoom(h) THEN unsaved \ {h} ELSE unsaved \union {h}

\* TPM2_EvictControl of object h to persistent handle p: TSS_Name_Copy and TSS_Public_Copy from
\* the slot of h, whatever it holds.
MakePersistent(h, p) ==
  /\ tpm[h] # NoData
  /\ tpm[p] = NoData
  /\ Holding("object", h) # {}
  /\ tpm' = [tpm EXCEPT ![p] = tpm[h]]
  /\ LET source == slots["object"][GetSlotForHandle("object", h)]
     IN  Store(p, source.data, source.public)
  /\ unsaved' = IF HasRoom(p) /\ h \notin unsaved THEN unsaved \ {p} ELSE unsaved \union {p}

\* TPM2_FlushContext, the end of a session without continueSession, of a sequence, of a
\* persistent object or an NV index.
Release(h) ==
  /\ tpm[h] # NoData
  /\ tpm' = [tpm EXCEPT ![h] = NoData]
  /\ Delete(h)
  /\ unsaved' = unsaved \ {h}

\* The TPM executed but the response is lost, a reboot dropped the handle, or TPM2_ContextLoad
\* (whose post processor does nothing in this build) or TPM2_EvictControl of an object without a
\* slot gave an object a handle.
TpmChanges(h, d) ==
  /\ tpm[h] # d
  /\ tpm' = [tpm EXCEPT ![h] = d]
  /\ unsaved' = unsaved \union {h}
  /\ UNCHANGED <<slots, refused>>

Next ==
  \/ \E h \in SessionHandles, d \in Data : SaveSession(h, d)
  \/ \E h \in SessionHandles, d \in Data : SaveSessionRunsOutOfMemory(h, d)
  \/ \E h \in ObjectHandles \union NvIndexes, d \in Data : StoreNameAndPublic(h, d)
  \/ \E h \in ObjectHandles, d \in Data : SequenceStart(h, d)
  \/ \E h, p \in ObjectHandles : MakePersistent(h, p)
  \/ \E h \in Handles : Release(h)
  \/ \E h \in Handles, d \in Data \union {NoData} : TpmChanges(h, d)

Spec == Init /\ [][Next]_vars

-----------------------------------------------------------------------------
(* Properties                                                              *)

TypeOK ==
  /\ slots \in [Kinds -> [Slots -> Slot]]
  /\ refused \in SUBSET Handles
  /\ tpm \in [Handles -> Data \union {NoData}]
  /\ unsaved \in SUBSET Handles

\* No handle is in two slots, so that which one a search finds first does not matter: an
\* overwritten session or Name cannot come back when one of them is freed.
HandlesAreUnique ==
  \A k \in Kinds, i, j \in Slots :
    slots[k][i].handle = slots[k][j].handle /\ slots[k][i].handle # RH_NULL => i = j

\* The slots follow the TPM: a handle the TPM holds has a slot with its newest session context
\* or Name, and a slot is taken only by a handle the TPM holds.  A slot that is never freed
\* would in the end leave no room for any session.
SlotsFollowTpm ==
  \A h \in Handles \ unsaved :
    IF tpm[h] = NoData
      THEN Holding(Kind[h], h) = {}
      ELSE \E i \in Holding(Kind[h], h) : slots[Kind[h]][i].data = tpm[h]

\* The handles retained in the slots, with their session contexts or Names.
Retained ==
  [h \in {x \in Handles : Holding(Kind[x], x) # {}} |->
     slots[Kind[h]][GetSlotForHandle(Kind[h], h)].data]

Abstract ==
  INSTANCE HandleStore WITH
    Values <- Data \union {NoData}, Capacity <- SlotCount, store <- Retained

\* The three arrays are a map from handles to what was stored last, and a store is refused only
\* when the array is full of other handles: no slot is lost or split.
RefinesHandleStore == Abstract!Spec
=============================================================================
