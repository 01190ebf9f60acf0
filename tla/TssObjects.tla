----------------------------- MODULE TssObjects -----------------------------
(***************************************************************************)
(* Names and public areas of objects: src/utils/tss.c, built with files.   *)
(*                                                                         *)
(* The HMAC of a command needs the Name of every entity the command uses,  *)
(* and a salted session needs the public area of its key.  The TSS keeps   *)
(* them in h<handle>.bin and hp<handle>.bin, and under the hash of a       *)
(* context blob while an object is swapped out.  A post processor writes   *)
(* the two files one after the other, after the TPM has executed:          *)
(*                                                                         *)
(*   one action per command   the TPM executes, `cmd` holds what is to do  *)
(*   StoreName, StorePublic   the two halves of the post processor         *)
(*   Fault                    a store fails or the process dies            *)
(*                                                                         *)
(* An object stands for its public area and for the Name, its digest.      *)
(***************************************************************************)
CONSTANTS
  Transients,  \* handles the TPM assigns to loaded objects
  Persistents, \* handles of persistent objects
  Contexts,    \* digests of context blobs
  Objects,     \* objects, their Names, their public areas
  Sequence,    \* a hash, HMAC or event sequence object; its Name is empty
  NoObject,    \* nothing is at the handle, or in the context
  NoFile,      \* there is no such file
  Torn,        \* a failed write left the file truncated
  NoCommand    \* no post processor is running

Handles == Transients \union Persistents

\* What the TSS files Names and public areas under: a handle or a string.
Places == Handles \union Contexts

\* The post processors, by what they do to the files.
Kinds == {"store", "sequence", "copy", "delete"}

Command ==
  [ kind : Kinds, target : Places, from : Places,
    name : Objects \union {Sequence}, public : Objects \union {Sequence} ]

ASSUME ConstantsAssumption ==
  /\ Transients \intersect Persistents = {}
  /\ Handles \intersect Contexts = {}
  /\ Sequence \notin Objects
  /\ NoObject \notin Objects \union {Sequence}
  /\ NoFile \notin Objects \union {Sequence}
  /\ Torn \notin Objects \union {Sequence, NoFile}
  /\ NoCommand \notin Command

VARIABLES
  tpm,        \* external: the object at each handle
  saved,      \* external: the object in each context blob
  nameFile,   \* h<handle>.bin, h<digest>.bin
  publicFile, \* hp<handle>.bin, hp<digest>.bin
  pc,         \* the half of the post processor that is due
  cmd,        \* what it is to do
  lost        \* auxiliary: places whose files a fault or a reboot left behind

vars == <<tpm, saved, nameFile, publicFile, pc, cmd, lost>>

-----------------------------------------------------------------------------
(* The two halves of a post processor                                      *)

\* TSS_Name_Load checks nothing, so a torn Name is copied too.
NameSucceeds ==
  CASE cmd.kind = "copy"   -> nameFile[cmd.from] # NoFile
    [] cmd.kind = "delete" -> nameFile[cmd.target] # NoFile
    [] OTHER               -> TRUE

NewName ==
  CASE cmd.kind = "copy"   -> nameFile[cmd.from]
    [] cmd.kind = "delete" -> NoFile
    [] OTHER               -> cmd.name

\* Mutant: TSS_DeleteHandle returns what removing the public file returned.
PublicSucceedsChecksDelete ==
  CASE cmd.kind = "copy"   -> publicFile[cmd.from] \in Objects
    [] cmd.kind = "delete" -> publicFile[cmd.target] # NoFile
    [] OTHER               -> TRUE

\* TSS_Public_Load unmarshals, so a torn public area is an error.
PublicSucceeds == cmd.kind = "copy" => publicFile[cmd.from] \in Objects

\* Mutant: TSS_DeleteHandle leaves the public file.
NewPublicOfDeletedStays ==
  CASE cmd.kind = "copy"   -> publicFile[cmd.from]
    [] cmd.kind = "delete" -> publicFile[cmd.target]
    [] OTHER               -> cmd.public

\* Mutant: only the Name goes into and out of a context.
NewPublicNotCopied ==
  CASE cmd.kind = "copy"   -> publicFile[cmd.target]
    [] cmd.kind = "delete" -> NoFile
    [] OTHER               -> cmd.public

NewPublic ==
  CASE cmd.kind = "copy"   -> publicFile[cmd.from]
    [] cmd.kind = "delete" -> NoFile
    [] OTHER               -> cmd.public

Init ==
  /\ tpm \in [Handles -> Objects \union {NoObject}]
  /\ \A h \in Transients : tpm[h] = NoObject
  /\ saved = [c \in Contexts |-> NoObject]
  /\ nameFile = [p \in Places |-> NoFile]
  /\ publicFile = [p \in Places |-> NoFile]
  /\ pc = "idle"
  /\ cmd = NoCommand
  /\ lost = {h \in Persistents : tpm[h] # NoObject}

\* TSS_Execute returns.
Return == pc' = "idle" /\ cmd' = NoCommand

\* The TPM has executed; its post processor starts.  A copy will be worth what its source is.
Executed(kind, target, from, name, public) ==
  /\ pc = "idle"
  /\ pc' = "name"
  /\ cmd' = [ kind |-> kind, target |-> target, from |-> from,
              name |-> name, public |-> public ]
  /\ lost' = IF kind \in {"copy", "delete"} /\ from \in lost
               THEN lost \union {target}
               ELSE lost \ {target}
  /\ UNCHANGED <<nameFile, publicFile>>

\* TPM2_CreatePrimary, TPM2_CreateLoaded, TPM2_Load and TPM2_LoadExternal.
LoadObject(h, o) ==
  /\ tpm[h] = NoObject
  /\ Executed("store", h, h, o, o)
  /\ tpm' = [tpm EXCEPT ![h] = o]
  /\ UNCHANGED saved

\* Mutant: the Name is taken from the response without a look at the public area.
ReadPublicUnchecked(h, name, public) ==
  /\ tpm[h] \in Objects
  /\ tpm[h] \in {name, public}
  /\ Executed("store", h, h, name, public)
  /\ UNCHANGED <<tpm, saved>>

\* TPM2_ReadPublic: a transport that altered one half of the response is found out
\* (TSS_RC_MALFORMED_PUBLIC), and then nothing is stored.
ReadPublic(h, name, public) ==
  /\ tpm[h] \in Objects
  /\ tpm[h] \in {name, public}
  /\ name = public
  /\ Executed("store", h, h, name, public)
  /\ UNCHANGED <<tpm, saved>>

\* TPM2_HashSequenceStart and TPM2_HMAC_Start: the Name is empty, there is no public area.
SequenceStart(h) ==
  /\ tpm[h] = NoObject
  /\ Executed("sequence", h, h, Sequence, Sequence)
  /\ tpm' = [tpm EXCEPT ![h] = Sequence]
  /\ UNCHANGED saved

\* TPM2_SequenceComplete and TPM2_EventSequenceComplete.
SequenceComplete(h) ==
  /\ tpm[h] = Sequence
  /\ Executed("delete", h, h, Sequence, Sequence)
  /\ tpm' = [tpm EXCEPT ![h] = NoObject]
  /\ UNCHANGED saved

FlushContext(h) ==
  /\ tpm[h] # NoObject
  /\ Executed("delete", h, h, Sequence, Sequence)
  /\ tpm' = [tpm EXCEPT ![h] = NoObject]
  /\ UNCHANGED saved

\* TPM2_ContextSave of an object: the context blob is new, so is its digest.
ContextSave(h, c) ==
  /\ tpm[h] # NoObject
  /\ saved[c] = NoObject
  /\ Executed("copy", c, h, Sequence, Sequence)
  /\ saved' = [saved EXCEPT ![c] = tpm[h]]
  /\ UNCHANGED tpm

ContextLoad(c, h) ==
  /\ saved[c] # NoObject
  /\ tpm[h] = NoObject
  /\ Executed("copy", h, c, Sequence, Sequence)
  /\ tpm' = [tpm EXCEPT ![h] = saved[c]]
  /\ UNCHANGED saved

\* TPM2_EvictControl with objectHandle # persistentHandle.
MakePersistent(h, p) ==
  /\ tpm[h] \in Objects
  /\ tpm[p] = NoObject
  /\ Executed("copy", p, h, Sequence, Sequence)
  /\ tpm' = [tpm EXCEPT ![p] = tpm[h]]
  /\ UNCHANGED saved

\* TPM2_EvictControl with objectHandle = persistentHandle.
Evict(p) ==
  /\ tpm[p] # NoObject
  /\ Executed("delete", p, p, Sequence, Sequence)
  /\ tpm' = [tpm EXCEPT ![p] = NoObject]
  /\ UNCHANGED saved

\* Mutant: a public area is stored for a sequence object too.
StoreNameGoesOn ==
  /\ pc = "name"
  /\ NameSucceeds
  /\ nameFile' = [nameFile EXCEPT ![cmd.target] = NewName]
  /\ pc' = "public"
  /\ UNCHANGED <<tpm, saved, publicFile, cmd, lost>>

\* TSS_Name_Store, TSS_Name_Copy, or the first half of TSS_DeleteHandle.
StoreName ==
  /\ pc = "name"
  /\ NameSucceeds
  /\ nameFile' = [nameFile EXCEPT ![cmd.target] = NewName]
  /\ IF cmd.kind = "sequence" THEN Return ELSE pc' = "public" /\ UNCHANGED cmd
  /\ UNCHANGED <<tpm, saved, publicFile, lost>>

\* TSS_Public_Store, TSS_Public_Copy, or the second half of TSS_DeleteHandle.
StorePublic ==
  /\ pc = "public"
  /\ PublicSucceeds
  /\ publicFile' = [publicFile EXCEPT ![cmd.target] = NewPublic]
  /\ Return
  /\ lost' = IF cmd.kind = "delete" THEN lost \ {cmd.target} ELSE lost
  /\ UNCHANGED <<tpm, saved, nameFile>>

\* The source is missing or malformed: TSS_Execute returns an error.
PostProcessorFails ==
  /\ \/ pc = "name" /\ ~NameSucceeds
     \/ pc = "public" /\ ~PublicSucceeds
  /\ Return
  /\ lost' = lost \union {cmd.target}
  /\ UNCHANGED <<tpm, saved, nameFile, publicFile>>

\* The process dies, the response is lost or a write fails; the file that was due may be torn.
Fault ==
  /\ pc # "idle"
  /\ \/ UNCHANGED <<nameFile, publicFile>>
     \/ /\ cmd.kind # "delete"
        /\ IF pc = "name"
             THEN /\ NameSucceeds
                  /\ nameFile' = [nameFile EXCEPT ![cmd.target] = Torn]
                  /\ UNCHANGED publicFile
             ELSE /\ PublicSucceeds
                  /\ publicFile' = [publicFile EXCEPT ![cmd.target] = Torn]
                  /\ UNCHANGED nameFile
  /\ Return
  /\ lost' = lost \union {cmd.target}
  /\ UNCHANGED <<tpm, saved>>

\* External: a reboot drops the transient objects; TPM2_Clear drops the persistent ones too.
\* The TSS is not told.
TpmForgets ==
  \E gone \in {Transients, Handles} :
    /\ \E h \in gone : tpm[h] # NoObject
    /\ tpm' = [h \in Handles |-> IF h \in gone THEN NoObject ELSE tpm[h]]
    /\ lost' = lost \union {h \in gone : tpm[h] # NoObject}
    /\ UNCHANGED <<saved, nameFile, publicFile, pc, cmd>>

Next ==
  \/ \E h \in Transients, o \in Objects : LoadObject(h, o)
  \/ \E h \in Handles, name, public \in Objects : ReadPublic(h, name, public)
  \/ \E h \in Transients : SequenceStart(h)
  \/ \E h \in Transients : SequenceComplete(h)
  \/ \E h \in Transients : FlushContext(h)
  \/ \E h \in Transients, c \in Contexts : ContextSave(h, c)
  \/ \E h \in Transients, c \in Contexts : ContextLoad(c, h)
  \/ \E h \in Transients, p \in Persistents : MakePersistent(h, p)
  \/ \E p \in Persistents : Evict(p)
  \/ StoreName
  \/ StorePublic
  \/ PostProcessorFails
  \/ Fault
  \/ TpmForgets

Spec == Init /\ [][Next]_vars

-----------------------------------------------------------------------------
(* Properties                                                              *)

TypeOK ==
  /\ tpm \in [Handles -> Objects \union {Sequence, NoObject}]
  /\ saved \in [Contexts -> Objects \union {Sequence, NoObject}]
  /\ nameFile \in [Places -> Objects \union {Sequence, NoFile, Torn}]
  /\ publicFile \in [Places -> Objects \union {NoFile, Torn}]
  /\ pc \in {"idle", "name", "public"}
  /\ cmd \in Command \union {NoCommand}
  /\ lost \in SUBSET Places

\* The places where the files are up to date.
Healthy == Places \ (lost \union (IF pc = "idle" THEN {} ELSE {cmd.target}))

\* The files at place p are those of object o.
Filed(p, o) ==
  /\ nameFile[p] = o
  /\ o \in Objects => publicFile[p] = o

\* The Name that goes into the cpHash is the Name of the object the TPM has at that handle, and
\* the public area a salt is encrypted with is that object's, however the object got there: by a
\* load, out of a context, or as the persistent copy of another.
LoadedNamesAgree ==
  \A h \in Handles \intersect Healthy : tpm[h] # NoObject => Filed(h, tpm[h])

\* The files kept for a saved context are those of the object in it, after its handle has been
\* given to another object as well.
ContextNamesAgree ==
  \A c \in Contexts \intersect Healthy : saved[c] \in Objects => Filed(c, saved[c])

\* A handle the TPM has released leaves no file behind: the next object at that handle cannot
\* inherit the Name or the public area.
NothingLeftBehind ==
  \A h \in Handles \intersect Healthy :
    tpm[h] = NoObject => nameFile[h] = NoFile /\ publicFile[h] = NoFile

\* What is at handle p, or in context p.
At(p) == IF p \in Handles THEN tpm[p] ELSE saved[p]

\* The command in flight works from a healthy place, and does not copy a sequence object.
WorksFromHealthy ==
  /\ pc # "idle"
  /\ cmd.from \notin lost
  /\ cmd.kind = "copy" => At(cmd.from) \in Objects

\* A post processor never fails for want of its source: once the TPM has executed, the command
\* succeeds.
HealthyCommandSucceeds ==
  WorksFromHealthy =>
    /\ pc = "name" => NameSucceeds
    /\ pc = "public" => PublicSucceeds

\* TSS_PO_ContextSave is written "only for objects and sequence objects, not sessions"
\* (tss.c:4071): saving the context of a sequence object whose Name is stored succeeds.
SequenceContextIsSaved ==
  pc # "idle" /\ cmd.kind = "copy" /\ cmd.from \notin lost /\ cmd.target \in Contexts =>
    /\ pc = "name" => NameSucceeds
    /\ pc = "public" => PublicSucceeds
=============================================================================
