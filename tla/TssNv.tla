------------------------------- MODULE TssNv -------------------------------
(***************************************************************************)
(* Names and public areas of NV indexes: src/utils/tss.c, built with files.*)
(*                                                                         *)
(* The Name of an NV index is the digest of its public area, and the TPM   *)
(* sets attribute bits in that area when the index is written or locked.   *)
(* The TSS follows along: it keeps the public area in nvp<index>.bin, sets *)
(* the same bit after each such command, and files the new Name in         *)
(* h<index>.bin.  The two files are written one after the other:           *)
(*                                                                         *)
(*   one action per command     the TPM executes, `cmd` is what is to do   *)
(*   StoreName, StorePublic     TSS_PO_NV_DefineSpace, TSS_PO_NV_ReadPublic*)
(*   SetBit, StoreNewName       TSS_PO_NV_Write, _WriteLock, _ReadLock     *)
(*   DeleteName, DeletePublic   TSS_PO_NV_UndefineSpace, ...Special        *)
(*   Fault                      a store fails or the process dies          *)
(*                                                                         *)
(* A public area is its definition and its bits; it stands for its Name.   *)
(***************************************************************************)
CONSTANTS
  Indexes,     \* NV indexes
  Definitions, \* attributes, policy and size that TSS_PR_NV_DefineSpace lets pass
  Undefined,   \* the TPM has no such index
  NoFile,      \* there is no such file
  Torn,        \* a failed write left the file truncated
  NoCommand    \* no post processor is running

\* The attribute bits that a command sets in the public area.
Bits == {"WRITTEN", "WRITELOCKED", "READLOCKED"}

Public == [definition : Definitions, bits : SUBSET Bits]

Kinds == {"store", "setBit", "delete"}

\* bit is for setBit; name and public are for store.
Command ==
  [ kind : Kinds, index : Indexes, bit : Bits,
    name : Public \union {NoFile}, public : Public \union {NoFile} ]

ASSUME ConstantsAssumption ==
  /\ Undefined \notin Public
  /\ NoFile \notin Public
  /\ Torn \notin Public
  /\ Torn # NoFile
  /\ NoCommand \notin Command

VARIABLES
  tpm,      \* external: the public area of each index
  nameFile, \* h<index>.bin
  nvpFile,  \* nvp<index>.bin
  pc,       \* the step of the post processor that is due
  cmd,      \* what it is to do
  stale,    \* auxiliary: indexes a fault hit, or the TPM changed without the TSS
  failed    \* auxiliary: indexes whose last bit update the TSS could not follow

vars == <<tpm, nameFile, nvpFile, pc, cmd, stale, failed>>

WithBit(p, bit) == [p EXCEPT !.bits = @ \union {bit}]

Init ==
  /\ tpm \in [Indexes -> Public \union {Undefined}]
  /\ nameFile = [i \in Indexes |-> NoFile]
  /\ nvpFile = [i \in Indexes |-> NoFile]
  /\ pc = "idle"
  /\ cmd = NoCommand
  /\ stale = {i \in Indexes : tpm[i] # Undefined}
  /\ failed = {}

-----------------------------------------------------------------------------
(* The commands: what the TPM does, and the post processor it starts       *)

\* The TPM has executed; its post processor starts at step `at`.
Executed(at, kind, i, bit, name, public) ==
  /\ pc = "idle"
  /\ pc' = at
  /\ cmd' = [kind |-> kind, index |-> i, bit |-> bit, name |-> name, public |-> public]
  /\ failed' = failed \ {i}
  /\ UNCHANGED <<nameFile, nvpFile>>

NV_DefineSpace(i, d) ==
  LET p == [definition |-> d, bits |-> {}]
  IN  /\ tpm[i] = Undefined
      /\ Executed("name", "store", i, "WRITTEN", p, p)
      /\ tpm' = [tpm EXCEPT ![i] = p]
      /\ stale' = stale \ {i}

\* Mutant: the Name in the response is not compared with the public area.
NV_ReadPublicUnchecked(i, name, public) ==
  /\ tpm[i] # Undefined
  /\ tpm[i] \in {name, public}
  /\ Executed("name", "store", i, "WRITTEN", name, public)
  /\ stale' = stale \ {i}
  /\ UNCHANGED tpm

\* A transport that altered one half of the response is found out
\* (TSS_RC_MALFORMED_NV_PUBLIC), and then nothing is stored.
NV_ReadPublic(i, name, public) ==
  /\ tpm[i] # Undefined
  /\ tpm[i] \in {name, public}
  /\ name = public
  /\ Executed("name", "store", i, "WRITTEN", name, public)
  /\ stale' = stale \ {i}
  /\ UNCHANGED tpm

\* NV_Write, NV_Increment, NV_Extend and NV_SetBits; NV_WriteLock; NV_ReadLock.
NV_Update(i, bit) ==
  /\ tpm[i] # Undefined
  /\ bit = "WRITTEN" => "WRITELOCKED" \notin tpm[i].bits
  /\ Executed("bit", "setBit", i, bit, NoFile, NoFile)
  /\ tpm' = [tpm EXCEPT ![i] = WithBit(@, bit)]
  /\ UNCHANGED stale

\* NV_UndefineSpace and NV_UndefineSpaceSpecial.
NV_UndefineSpace(i) ==
  /\ tpm[i] # Undefined
  /\ Executed("deleteName", "delete", i, "WRITTEN", NoFile, NoFile)
  /\ tpm' = [tpm EXCEPT ![i] = Undefined]
  /\ UNCHANGED stale

\* External: NV_GlobalWriteLock, a reboot, TPM2_Clear and other users of the TPM change an
\* index and the TSS is not told.
TpmChanges(i) ==
  /\ tpm[i] # Undefined
  /\ \/ tpm' = [tpm EXCEPT ![i] = Undefined]
     \/ tpm' = [tpm EXCEPT ![i] = WithBit(@, "WRITELOCKED")]
     \/ tpm' = [tpm EXCEPT ![i].bits = @ \ {"WRITELOCKED", "READLOCKED"}]
  /\ tpm' # tpm
  /\ stale' = stale \union {i}
  /\ UNCHANGED <<nameFile, nvpFile, pc, cmd, failed>>

-----------------------------------------------------------------------------
(* The post processors                                                     *)

Return == pc' = "idle" /\ cmd' = NoCommand

\* Mutant: the public area is not saved.
StorePublicNothing ==
  /\ pc = "public"
  /\ nvpFile' = nvpFile
  /\ Return
  /\ UNCHANGED <<tpm, nameFile, stale, failed>>

\* TSS_PO_NV_DefineSpace and TSS_PO_NV_ReadPublic.
StoreName ==
  /\ pc = "name"
  /\ nameFile' = [nameFile EXCEPT ![cmd.index] = cmd.name]
  /\ pc' = "public"
  /\ UNCHANGED <<tpm, nvpFile, cmd, stale, failed>>

StorePublic ==
  /\ pc = "public"
  /\ nvpFile' = [nvpFile EXCEPT ![cmd.index] = cmd.public]
  /\ Return
  /\ UNCHANGED <<tpm, nameFile, stale, failed>>

\* Mutant: the bit is not set in the saved public area.
NewPublicWithoutBit == nvpFile[cmd.index]

\* Mutant: only the attributes are saved, without policy and size.
NewPublicIsBits == [definition |-> Undefined, bits |-> nvpFile[cmd.index].bits \union {cmd.bit}]

\* The public area that TSS_PO_NV_Write, _WriteLock and _ReadLock store.
NewPublic == WithBit(nvpFile[cmd.index], cmd.bit)

\* The saved public area has the bit clear.
BitIsDue ==
  /\ pc = "bit"
  /\ nvpFile[cmd.index] \in Public
  /\ cmd.bit \notin nvpFile[cmd.index].bits

SetBit ==
  /\ BitIsDue
  /\ nvpFile' = [nvpFile EXCEPT ![cmd.index] = NewPublic]
  /\ pc' = "newName"
  /\ UNCHANGED <<tpm, nameFile, cmd, stale, failed>>

\* The bit was set before: there is nothing to do.
BitIsSet ==
  /\ pc = "bit"
  /\ nvpFile[cmd.index] \in Public
  /\ cmd.bit \in nvpFile[cmd.index].bits
  /\ Return
  /\ UNCHANGED <<tpm, nameFile, nvpFile, stale, failed>>

\* TSS_NVPublic_Load fails.  The bit is then tested in a nvPublic that was not initialized: when
\* it happens to be set nothing is deleted, otherwise the Name and the public area are.
LoadFails ==
  /\ pc = "bit"
  /\ nvpFile[cmd.index] \notin Public
  /\ \/ UNCHANGED <<nameFile, nvpFile>>
     \/ /\ nameFile' = [nameFile EXCEPT ![cmd.index] = NoFile]
        /\ nvpFile' = [nvpFile EXCEPT ![cmd.index] = NoFile]
  /\ Return
  /\ stale' = stale \union {cmd.index}
  /\ failed' = failed \union {cmd.index}
  /\ UNCHANGED tpm

StoreNewName ==
  /\ pc = "newName"
  /\ nameFile' = [nameFile EXCEPT ![cmd.index] = nvpFile[cmd.index]]
  /\ Return
  /\ UNCHANGED <<tpm, nvpFile, stale, failed>>

\* TSS_NVPublic_Store or TSS_Name_Store fails: the name and NVPublic are deleted.
UpdateFails ==
  /\ BitIsDue \/ pc = "newName"
  /\ nameFile' = [nameFile EXCEPT ![cmd.index] = NoFile]
  /\ nvpFile' = [nvpFile EXCEPT ![cmd.index] = NoFile]
  /\ Return
  /\ stale' = stale \union {cmd.index}
  /\ failed' = failed \union {cmd.index}
  /\ UNCHANGED tpm

\* Mutant: a Name that is not there ends the post processor.
DeleteNameChecked ==
  /\ pc = "deleteName"
  /\ nameFile' = [nameFile EXCEPT ![cmd.index] = NoFile]
  /\ IF nameFile[cmd.index] = NoFile
       THEN Return /\ stale' = stale \ {cmd.index}
       ELSE pc' = "deletePublic" /\ UNCHANGED <<cmd, stale>>
  /\ UNCHANGED <<tpm, nvpFile, failed>>

\* TSS_DeleteHandle; the return code is not checked.
DeleteName ==
  /\ pc = "deleteName"
  /\ nameFile' = [nameFile EXCEPT ![cmd.index] = NoFile]
  /\ pc' = "deletePublic"
  /\ UNCHANGED <<tpm, nvpFile, cmd, stale, failed>>

\* TSS_NVPublic_Delete; the return code is not checked.
DeletePublic ==
  /\ pc = "deletePublic"
  /\ nvpFile' = [nvpFile EXCEPT ![cmd.index] = NoFile]
  /\ Return
  /\ stale' = stale \ {cmd.index}
  /\ UNCHANGED <<tpm, nameFile, failed>>

\* The response is lost, the process dies, or the write that is due fails and leaves the file
\* torn.  The write of an update whose error the code handles is in UpdateFails.
Fault ==
  /\ pc # "idle"
  /\ \/ UNCHANGED <<nameFile, nvpFile>>
     \/ /\ pc \in {"name", "newName"}
        /\ nameFile' = [nameFile EXCEPT ![cmd.index] = Torn]
        /\ UNCHANGED nvpFile
     \/ /\ pc = "public" \/ BitIsDue
        /\ nvpFile' = [nvpFile EXCEPT ![cmd.index] = Torn]
        /\ UNCHANGED nameFile
  /\ Return
  /\ stale' = stale \union {cmd.index}
  /\ UNCHANGED <<tpm, failed>>

Next ==
  \/ \E i \in Indexes, d \in Definitions : NV_DefineSpace(i, d)
  \/ \E i \in Indexes, name, public \in Public : NV_ReadPublic(i, name, public)
  \/ \E i \in Indexes, bit \in Bits : NV_Update(i, bit)
  \/ \E i \in Indexes : NV_UndefineSpace(i)
  \/ \E i \in Indexes : TpmChanges(i)
  \/ StoreName
  \/ StorePublic
  \/ SetBit
  \/ BitIsSet
  \/ LoadFails
  \/ StoreNewName
  \/ UpdateFails
  \/ DeleteName
  \/ DeletePublic
  \/ Fault

Spec == Init /\ [][Next]_vars

-----------------------------------------------------------------------------
(* Properties                                                              *)

TypeOK ==
  /\ tpm \in [Indexes -> Public \union {Undefined}]
  /\ nameFile \in [Indexes -> Public \union {NoFile, Torn}]
  /\ nvpFile \in [Indexes -> Public \union {NoFile, Torn}]
  /\ pc \in {"idle", "name", "public", "bit", "newName", "deleteName", "deletePublic"}
  /\ cmd \in Command \union {NoCommand}
  /\ stale \in SUBSET Indexes
  /\ failed \in SUBSET Indexes

Healthy == Indexes \ (stale \union (IF pc = "idle" THEN {} ELSE {cmd.index}))

\* The Name that goes into the cpHash is the Name the TPM computes, through every write and
\* lock that changes it.  A fault, a reboot or another user of the TPM spoils it for that index
\* only, and NV_ReadPublic or a new definition repairs it whatever the files held.
NvNamesAgree ==
  \A i \in Healthy : tpm[i] # Undefined => nameFile[i] = tpm[i] /\ nvpFile[i] = tpm[i]

\* An index that has been undefined leaves neither a Name nor a public area, even when an
\* earlier fault had left only one of the two: the next definition starts clean.
UndefinedLeavesNothing ==
  \A i \in Healthy : tpm[i] = Undefined => nameFile[i] = NoFile /\ nvpFile[i] = NoFile

\* A write or a lock of an index the TSS has followed finds the saved public area, with the
\* bit as it was in the TPM before the command: nothing uninitialized is read.
HealthyUpdateFollows ==
  pc = "bit" /\ cmd.index \notin stale =>
    /\ nvpFile[cmd.index] \in Public
    /\ WithBit(nvpFile[cmd.index], cmd.bit) = tpm[cmd.index]

\* "if there is a failure. delete the name and NVPublic" (tss.c:4681, 4733, 4785): after an
\* update the TSS could not follow, no stale Name is left for the next HMAC.
FailedUpdateDeletesName == \A i \in failed : nameFile[i] = NoFile /\ nvpFile[i] = NoFile
=============================================================================
