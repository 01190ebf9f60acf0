-------------------------- MODULE TssObjects_proofs --------------------------
(***************************************************************************)
(* Proofs about TssObjects, for every set of handles, contexts, objects.   *)
(*                                                                         *)
(* The invariants speak of the places no post processor is working on.     *)
(* InFlight adds what holds of the target of the one that is running.  The *)
(* point of it is a copy: while it runs, its source may be forgotten by    *)
(* the TPM, but the files of the source are still those of the object that *)
(* is now at the target.                                                   *)
(***************************************************************************)
EXTENDS TssObjects, TLAPS

\* What a post processor of each kind works on.
StepInv ==
  /\ pc = "idle" <=> cmd = NoCommand
  /\ pc # "idle" =>
       /\ cmd \in Command
       /\ cmd.kind = "store" => cmd.target \in Handles /\ cmd.name \in Objects /\ cmd.public = cmd.name
       /\ cmd.kind = "sequence" => cmd.target \in Handles /\ cmd.name = Sequence /\ pc = "name"
       /\ cmd.kind = "copy" => cmd.from # cmd.target
       /\ cmd.kind = "delete" => cmd.target \in Handles /\ cmd.from = cmd.target

\* What the files of the target are going to be, and what they are already.
InFlight ==
  LET t == cmd.target
  IN  /\ pc # "idle" /\ t \notin lost /\ cmd.kind # "delete" =>
           /\ cmd.kind \in {"store", "sequence"} => At(t) = cmd.name
           /\ cmd.kind = "copy" => At(t) # NoObject /\ Filed(cmd.from, At(t))
           /\ pc = "public" => nameFile[t] = At(t)
      /\ pc # "idle" /\ cmd.kind = "delete" =>
           /\ At(t) = NoObject
           /\ pc = "name" /\ t \notin lost => nameFile[t] # NoFile
           /\ pc = "public" => nameFile[t] = NoFile

\* A context with a sequence object in it has its Name too, in the rare case that it was saved.
ContextsFiled ==
  \A c \in Contexts \intersect Healthy : saved[c] # NoObject => Filed(c, saved[c])

IInv ==
  /\ TypeOK
  /\ StepInv
  /\ InFlight
  /\ LoadedNamesAgree
  /\ ContextsFiled
  /\ NothingLeftBehind

LEMMA InitIInv == Init => IInv
BY ConstantsAssumption
   DEF Init, IInv, TypeOK, StepInv, InFlight, LoadedNamesAgree, ContextsFiled,
       NothingLeftBehind, Healthy, Places, Handles

\* How a command starts, whatever it does.
LEMMA ExecutedFacts ==
  ASSUME IInv, NEW kind \in Kinds, NEW target \in Places, NEW from \in Places,
         NEW name \in Objects \union {Sequence}, NEW public \in Objects \union {Sequence},
         Executed(kind, target, from, name, public)
  PROVE  /\ pc = "idle" /\ pc' = "name" /\ cmd' \in Command
         /\ cmd'.kind = kind /\ cmd'.target = target /\ cmd'.from = from
         /\ cmd'.name = name /\ cmd'.public = public
         /\ UNCHANGED <<nameFile, publicFile>>
         /\ lost' = IF kind \in {"copy", "delete"} /\ from \in lost
                      THEN lost \union {target} ELSE lost \ {target}
         /\ lost' \in SUBSET Places
         /\ Healthy = Places \ lost
         /\ Healthy' = (Places \ lost) \ {target}
<1>1. /\ pc = "idle" /\ pc' = "name"
      /\ cmd' = [ kind |-> kind, target |-> target, from |-> from,
                  name |-> name, public |-> public ]
      /\ UNCHANGED <<nameFile, publicFile>>
      /\ lost' = IF kind \in {"copy", "delete"} /\ from \in lost
                   THEN lost \union {target} ELSE lost \ {target}
  BY DEF Executed
<1>2. cmd' \in Command /\ cmd'.target = target
  BY <1>1 DEF Command
<1>3. Healthy = Places \ lost /\ Healthy' = (Places \ lost) \ {target}
  BY <1>1, <1>2 DEF Healthy
<1> QED BY <1>1, <1>2, <1>3 DEF IInv, TypeOK

\* Commands that give a handle an object, or read the public area of one.
LEMMA LoadIInv ==
  ASSUME IInv,
         \/ \E h \in Transients, o \in Objects : LoadObject(h, o)
         \/ \E h \in Handles, name, public \in Objects : ReadPublic(h, name, public)
         \/ \E h \in Transients : SequenceStart(h)
  PROVE  IInv'
<1> USE ConstantsAssumption DEF IInv, TypeOK
<1> DEFINE Loads(h, o, kind) ==
             /\ Executed(kind, h, h, o, o)
             /\ kind = "store" <=> o \in Objects
             /\ tpm' = [tpm EXCEPT ![h] = o] /\ saved' = saved
<1>1. PICK h \in Handles, o \in Objects \union {Sequence}, kind \in {"store", "sequence"} :
        Loads(h, o, kind)
  <2>1. ASSUME NEW h \in Transients, NEW o \in Objects, LoadObject(h, o)
        PROVE h \in Handles /\ Loads(h, o, "store")
    BY <2>1 DEF LoadObject, Handles
  <2>2. ASSUME NEW h \in Handles, NEW name \in Objects, NEW public \in Objects,
               ReadPublic(h, name, public)
        PROVE Loads(h, name, "store")
    <3>1. name = public /\ tpm[h] = name /\ Executed("store", h, h, name, name)
          /\ UNCHANGED <<tpm, saved>>
      BY <2>2 DEF ReadPublic
    <3> QED BY <3>1
  <2>3. ASSUME NEW h \in Transients, SequenceStart(h)
        PROVE h \in Handles /\ Loads(h, Sequence, "sequence")
    BY <2>3 DEF SequenceStart, Handles
  <2> QED BY <2>1, <2>2, <2>3
<1>2. /\ pc = "idle" /\ pc' = "name" /\ cmd' \in Command
      /\ cmd'.kind = kind /\ cmd'.target = h /\ cmd'.from = h
      /\ cmd'.name = o /\ cmd'.public = o
      /\ UNCHANGED <<nameFile, publicFile>>
      /\ lost' = lost \ {h} /\ lost' \in SUBSET Places
      /\ Healthy = Places \ lost /\ Healthy' = (Places \ lost) \ {h}
  BY <1>1, ExecutedFacts DEF Kinds, Places
<1>3. TypeOK' /\ StepInv' /\ InFlight'
  BY <1>1, <1>2 DEF StepInv, InFlight, At
<1>4. LoadedNamesAgree' /\ ContextsFiled' /\ NothingLeftBehind'
  BY <1>1, <1>2 DEF LoadedNamesAgree, ContextsFiled, NothingLeftBehind, Filed
<1> QED BY <1>3, <1>4

\* Commands that take a handle away.
LEMMA DeleteIInv ==
  ASSUME IInv,
         \/ \E h \in Transients : SequenceComplete(h)
         \/ \E h \in Transients : FlushContext(h)
         \/ \E p \in Persistents : Evict(p)
  PROVE  IInv'
<1> USE ConstantsAssumption DEF IInv, TypeOK
<1>1. PICK h \in Handles :
        /\ Executed("delete", h, h, Sequence, Sequence)
        /\ tpm[h] # NoObject
        /\ tpm' = [tpm EXCEPT ![h] = NoObject] /\ saved' = saved
  BY DEF SequenceComplete, FlushContext, Evict, Handles
<1>2. /\ pc = "idle" /\ pc' = "name" /\ cmd' \in Command
      /\ cmd'.kind = "delete" /\ cmd'.target = h /\ cmd'.from = h
      /\ UNCHANGED <<nameFile, publicFile>>
      /\ lost' = lost /\ lost' \in SUBSET Places
      /\ Healthy = Places \ lost /\ Healthy' = (Places \ lost) \ {h}
  <2>1. (IF h \in lost THEN lost \union {h} ELSE lost \ {h}) = lost
    OBVIOUS
  <2>2. h \in Places /\ "delete" \in Kinds
    BY DEF Places, Kinds
  <2>3. lost' = lost
    BY <1>1, <2>1 DEF Executed
  <2> QED BY <1>1, <2>2, <2>3, ExecutedFacts
<1>3. h \notin lost => nameFile[h] # NoFile
  BY <1>1, <1>2 DEF LoadedNamesAgree, Filed, Places
<1>4. TypeOK' /\ StepInv' /\ InFlight'
  BY <1>1, <1>2, <1>3 DEF StepInv, InFlight, At
<1>5. LoadedNamesAgree' /\ ContextsFiled' /\ NothingLeftBehind'
  BY <1>1, <1>2 DEF LoadedNamesAgree, ContextsFiled, NothingLeftBehind, Filed
<1> QED BY <1>4, <1>5

\* Commands that copy the files of an object from one place to another.
LEMMA CopyIInv ==
  ASSUME IInv,
         \/ \E h \in Transients, c \in Contexts : ContextSave(h, c)
         \/ \E h \in Transients, c \in Contexts : ContextLoad(c, h)
         \/ \E h \in Transients, p \in Persistents : MakePersistent(h, p)
  PROVE  IInv'
<1> USE ConstantsAssumption DEF IInv, TypeOK
<1> DEFINE Copies(t, f) ==
             /\ t \in Places /\ f \in Places
             /\ Executed("copy", t, f, Sequence, Sequence)
             /\ t # f /\ At(f) # NoObject /\ At(t)' = At(f)
             /\ tpm' = IF t \in Handles THEN [tpm EXCEPT ![t] = At(f)] ELSE tpm
             /\ saved' = IF t \in Handles THEN saved ELSE [saved EXCEPT ![t] = At(f)]
<1>1. PICK t \in Places, f \in Places : Copies(t, f)
  <2>1. ASSUME NEW h \in Transients, NEW c \in Contexts, ContextSave(h, c)
        PROVE Copies(c, h)
    <3>1. h \in Handles /\ c \notin Handles /\ h \in Places /\ c \in Places
      BY DEF Handles, Places
    <3>2. /\ tpm[h] # NoObject /\ Executed("copy", c, h, Sequence, Sequence)
          /\ saved' = [saved EXCEPT ![c] = tpm[h]] /\ tpm' = tpm
      BY <2>1 DEF ContextSave
    <3> QED BY <3>1, <3>2 DEF At
  <2>2. ASSUME NEW h \in Transients, NEW c \in Contexts, ContextLoad(c, h)
        PROVE Copies(h, c)
    <3>1. h \in Handles /\ c \notin Handles /\ h \in Places /\ c \in Places
      BY DEF Handles, Places
    <3>2. /\ saved[c] # NoObject /\ Executed("copy", h, c, Sequence, Sequence)
          /\ tpm' = [tpm EXCEPT ![h] = saved[c]] /\ saved' = saved
      BY <2>2 DEF ContextLoad
    <3> QED BY <3>1, <3>2 DEF At
  <2>3. ASSUME NEW h \in Transients, NEW p \in Persistents, MakePersistent(h, p)
        PROVE Copies(p, h)
    <3>1. h \in Handles /\ p \in Handles /\ h # p /\ h \in Places /\ p \in Places
      BY DEF Handles, Places
    <3>2. /\ tpm[h] \in Objects /\ Executed("copy", p, h, Sequence, Sequence)
          /\ tpm' = [tpm EXCEPT ![p] = tpm[h]] /\ saved' = saved
      BY <2>3 DEF MakePersistent
    <3> QED BY <3>1, <3>2 DEF At
  <2> QED BY <2>1, <2>2, <2>3
<1>2. /\ pc = "idle" /\ pc' = "name" /\ cmd' \in Command
      /\ cmd'.kind = "copy" /\ cmd'.target = t /\ cmd'.from = f
      /\ UNCHANGED <<nameFile, publicFile>>
      /\ lost' = IF f \in lost THEN lost \union {t} ELSE lost \ {t}
      /\ lost' \in SUBSET Places
      /\ Healthy = Places \ lost /\ Healthy' = (Places \ lost) \ {t}
  BY <1>1, ExecutedFacts DEF Kinds
<1>3. f \notin lost => Filed(f, At(f))
  BY <1>1, <1>2 DEF LoadedNamesAgree, ContextsFiled, At, Places
<1>4. At(f) \in Objects \union {Sequence, NoObject}
  BY DEF At, Places
<1>5. TypeOK' /\ StepInv'
  BY <1>1, <1>2, <1>4 DEF StepInv, Places
<1>6. InFlight'
  BY <1>1, <1>2, <1>3 DEF InFlight, Filed
<1>7. LoadedNamesAgree' /\ ContextsFiled' /\ NothingLeftBehind'
  BY <1>1, <1>2 DEF LoadedNamesAgree, ContextsFiled, NothingLeftBehind, Filed
<1> QED BY <1>5, <1>6, <1>7

\* The first half of a post processor.
LEMMA StoreNameIInv ==
  ASSUME IInv, StoreName
  PROVE  IInv'
<1> USE ConstantsAssumption DEF IInv, TypeOK
<1> DEFINE t == cmd.target
<1>1. /\ pc = "name" /\ cmd \in Command /\ t \in Places /\ cmd.from \in Places
      /\ cmd.kind \in Kinds /\ NameSucceeds
      /\ nameFile' = [nameFile EXCEPT ![t] = NewName]
      /\ IF cmd.kind = "sequence" THEN pc' = "idle" /\ cmd' = NoCommand
                                  ELSE pc' = "public" /\ cmd' = cmd
      /\ UNCHANGED <<tpm, saved, publicFile, lost>>
  BY DEF StoreName, Return, StepInv, Command
<1>2. NewName \in Objects \union {Sequence, NoFile, Torn}
  BY <1>1 DEF NewName, Command
<1>3. TypeOK' /\ StepInv'
  BY <1>1, <1>2 DEF StepInv
<1>4. cmd.kind # "delete" /\ t \notin lost => NewName = At(t)
  BY <1>1 DEF NewName, InFlight, Filed, Kinds
<1>5. InFlight'
  <2> SUFFICES ASSUME pc' # "idle" PROVE InFlight'
    BY DEF InFlight
  <2>1. pc' = "public" /\ cmd' = cmd /\ At(t)' = At(t)
    BY <1>1 DEF At
  <2>2. ASSUME t \notin lost, cmd.kind # "delete"
        PROVE  /\ cmd.kind \in {"store", "sequence"} => At(t) = cmd.name
               /\ cmd.kind = "copy" => At(t) # NoObject /\ Filed(cmd.from, At(t))'
               /\ nameFile'[t] = At(t)
    <3>1. nameFile'[t] = At(t)
      BY <1>1, <1>4, <2>2
    <3>2. cmd.kind \in {"store", "sequence"} => At(t) = cmd.name
      BY <1>1, <2>2 DEF InFlight
    <3>3. ASSUME cmd.kind = "copy" PROVE At(t) # NoObject /\ Filed(cmd.from, At(t))'
      <4>1. cmd.from # t /\ At(t) # NoObject /\ Filed(cmd.from, At(t))
        BY <1>1, <2>2, <3>3 DEF InFlight, StepInv
      <4>2. nameFile'[cmd.from] = nameFile[cmd.from]
        BY <1>1, <4>1
      <4> QED BY <1>1, <2>1, <4>1, <4>2 DEF Filed
    <3> QED BY <3>1, <3>2, <3>3
  <2>3. cmd.kind = "delete" => At(t) = NoObject /\ nameFile'[t] = NoFile
    BY <1>1 DEF InFlight, NewName
  <2> QED BY <1>1, <2>1, <2>2, <2>3 DEF InFlight
<1>6. ASSUME NEW p \in Healthy'
      PROVE  \/ p \in Healthy
             \/ p = t /\ cmd.kind = "sequence" /\ t \notin lost
  BY <1>1 DEF Healthy
<1>7. cmd.kind = "sequence" /\ t \notin lost => nameFile'[t] = Sequence /\ tpm[t] = Sequence /\ t \in Handles
  BY <1>1, <1>4 DEF StepInv, InFlight, At
<1>8. \A p \in Healthy : p # t /\ nameFile'[p] = nameFile[p]
  BY <1>1 DEF Healthy
<1>9. LoadedNamesAgree'
  <2> SUFFICES ASSUME NEW h \in Handles \intersect Healthy', tpm[h] # NoObject
               PROVE  nameFile'[h] = tpm[h] /\ (tpm[h] \in Objects => publicFile[h] = tpm[h])
    BY <1>1 DEF LoadedNamesAgree, Filed
  <2>1. CASE h \in Healthy
    BY <1>8, <2>1 DEF LoadedNamesAgree, Filed
  <2>2. CASE h = t /\ cmd.kind = "sequence" /\ t \notin lost
    BY <1>7, <2>2
  <2> QED BY <1>6, <2>1, <2>2
<1>10. ContextsFiled'
  <2> SUFFICES ASSUME NEW c \in Contexts \intersect Healthy', saved[c] # NoObject
               PROVE  nameFile'[c] = saved[c] /\ (saved[c] \in Objects => publicFile[c] = saved[c])
    BY <1>1 DEF ContextsFiled, Filed
  <2>1. c \in Healthy
    BY <1>6, <1>7
  <2> QED BY <1>8, <2>1 DEF ContextsFiled, Filed
<1>11. NothingLeftBehind'
  <2> SUFFICES ASSUME NEW h \in Handles \intersect Healthy', tpm[h] = NoObject
               PROVE  nameFile'[h] = NoFile /\ publicFile[h] = NoFile
    BY <1>1 DEF NothingLeftBehind
  <2>1. h \in Healthy
    BY <1>6, <1>7
  <2> QED BY <1>8, <2>1 DEF NothingLeftBehind
<1> QED BY <1>3, <1>5, <1>9, <1>10, <1>11

\* The second half of a post processor.
LEMMA StorePublicIInv ==
  ASSUME IInv, StorePublic
  PROVE  IInv'
<1> USE ConstantsAssumption DEF IInv, TypeOK
<1> DEFINE t == cmd.target
<1>1. /\ pc = "public" /\ cmd \in Command /\ t \in Places /\ cmd.from \in Places
      /\ cmd.kind \in {"store", "copy", "delete"} /\ PublicSucceeds
      /\ publicFile' = [publicFile EXCEPT ![t] = NewPublic]
      /\ pc' = "idle" /\ cmd' = NoCommand
      /\ lost' = IF cmd.kind = "delete" THEN lost \ {t} ELSE lost
      /\ UNCHANGED <<tpm, saved, nameFile>>
  BY DEF StorePublic, Return, StepInv, Command, Kinds
<1>2. NewPublic \in Objects \union {NoFile}
  BY <1>1 DEF NewPublic, PublicSucceeds, StepInv
<1>3. TypeOK' /\ StepInv' /\ InFlight'
  BY <1>1, <1>2 DEF StepInv, InFlight
<1>4. ASSUME NEW p \in Healthy'
      PROVE  \/ p \in Healthy /\ p # t
             \/ p = t /\ (cmd.kind = "delete" \/ t \notin lost)
  BY <1>1 DEF Healthy
<1>5. ASSUME cmd.kind # "delete", t \notin lost
      PROVE  At(t) # NoObject /\ nameFile[t] = At(t) /\ (At(t) \in Objects => publicFile'[t] = At(t))
  <2>1. nameFile[t] = At(t)
    BY <1>1, <1>5 DEF InFlight
  <2>2. CASE cmd.kind = "store"
    BY <1>1, <1>5, <2>1, <2>2 DEF InFlight, StepInv, NewPublic
  <2>3. CASE cmd.kind = "copy"
    BY <1>1, <1>5, <2>1, <2>3 DEF InFlight, NewPublic, Filed
  <2> QED BY <1>1, <1>5, <2>2, <2>3
<1>6. ASSUME cmd.kind = "delete"
      PROVE  t \in Handles /\ tpm[t] = NoObject /\ nameFile[t] = NoFile /\ publicFile'[t] = NoFile
  BY <1>1, <1>6 DEF InFlight, StepInv, NewPublic, At
<1>7. \A p \in Places : p # t => publicFile'[p] = publicFile[p]
  BY <1>1
<1>8. LoadedNamesAgree'
  <2> SUFFICES ASSUME NEW h \in Handles \intersect Healthy', tpm[h] # NoObject
               PROVE  nameFile[h] = tpm[h] /\ (tpm[h] \in Objects => publicFile'[h] = tpm[h])
    BY <1>1 DEF LoadedNamesAgree, Filed
  <2>1. CASE h \in Healthy /\ h # t
    BY <1>7, <2>1 DEF LoadedNamesAgree, Filed, Healthy
  <2>2. CASE h = t
    BY <1>4, <1>5, <1>6, <2>2 DEF At
  <2> QED BY <1>4, <2>1, <2>2
<1>9. ContextsFiled'
  <2> SUFFICES ASSUME NEW c \in Contexts \intersect Healthy', saved[c] # NoObject
               PROVE  nameFile[c] = saved[c] /\ (saved[c] \in Objects => publicFile'[c] = saved[c])
    BY <1>1 DEF ContextsFiled, Filed
  <2>1. CASE c \in Healthy /\ c # t
    BY <1>7, <2>1 DEF ContextsFiled, Filed, Healthy
  <2>2. CASE c = t
    BY <1>4, <1>5, <1>6, <2>2 DEF At
  <2> QED BY <1>4, <2>1, <2>2
<1>10. NothingLeftBehind'
  <2> SUFFICES ASSUME NEW h \in Handles \intersect Healthy', tpm[h] = NoObject
               PROVE  nameFile[h] = NoFile /\ publicFile'[h] = NoFile
    BY <1>1 DEF NothingLeftBehind
  <2>1. CASE h \in Healthy /\ h # t
    BY <1>7, <2>1 DEF NothingLeftBehind, Healthy
  <2>2. CASE h = t
    BY <1>4, <1>5, <1>6, <2>2 DEF At
  <2> QED BY <1>4, <2>1, <2>2
<1> QED BY <1>3, <1>8, <1>9, <1>10

\* A post processor that fails, for whatever reason, spoils its target and nothing else.
LEMMA FailsIInv ==
  ASSUME IInv, PostProcessorFails \/ Fault
  PROVE  IInv'
<1> USE ConstantsAssumption DEF IInv, TypeOK
<1> DEFINE t == cmd.target
<1>1. /\ pc # "idle" /\ cmd \in Command /\ t \in Places
      /\ pc' = "idle" /\ cmd' = NoCommand /\ lost' = lost \union {t}
      /\ nameFile' \in {nameFile, [nameFile EXCEPT ![t] = Torn]}
      /\ publicFile' \in {publicFile, [publicFile EXCEPT ![t] = Torn]}
      /\ UNCHANGED <<tpm, saved>>
  BY DEF PostProcessorFails, Fault, Return, StepInv, Command
<1>2. TypeOK' /\ StepInv' /\ InFlight'
  BY <1>1 DEF StepInv, InFlight
<1>3. Healthy' = Healthy /\ t \notin Healthy
  BY <1>1 DEF Healthy
<1>4. \A p \in Healthy : nameFile'[p] = nameFile[p] /\ publicFile'[p] = publicFile[p]
  BY <1>1, <1>3 DEF Healthy
<1>5. LoadedNamesAgree' /\ ContextsFiled' /\ NothingLeftBehind'
  BY <1>1, <1>3, <1>4 DEF LoadedNamesAgree, ContextsFiled, NothingLeftBehind, Filed
<1> QED BY <1>2, <1>5

\* What the TPM drops on its own is no longer healthy; what it keeps is as it was.
LEMMA TpmForgetsIInv ==
  ASSUME IInv, TpmForgets
  PROVE  IInv'
<1> USE ConstantsAssumption DEF IInv, TypeOK
<1>1. PICK gone \in {Transients, Handles} :
        /\ tpm' = [h \in Handles |-> IF h \in gone THEN NoObject ELSE tpm[h]]
        /\ lost' = lost \union {h \in gone : tpm[h] # NoObject}
        /\ UNCHANGED <<saved, nameFile, publicFile, pc, cmd>>
  BY DEF TpmForgets
<1>2. gone \subseteq Handles /\ Handles \subseteq Places
  BY DEF Handles, Places
<1>3. TypeOK' /\ StepInv'
  BY <1>1, <1>2 DEF StepInv
<1>4. \A p \in Places \ lost' : At(p)' = At(p)
  BY <1>1, <1>2 DEF At
<1>5. InFlight'
  <2>1. pc # "idle" /\ cmd.kind = "delete" => At(cmd.target)' = NoObject
    BY <1>1 DEF InFlight, StepInv, At
  <2>2. pc # "idle" => cmd.target \in Places
    BY DEF StepInv, Command
  <2> QED BY <1>1, <1>4, <2>1, <2>2 DEF InFlight, Filed
<1>6. LoadedNamesAgree' /\ ContextsFiled' /\ NothingLeftBehind'
  BY <1>1, <1>2 DEF LoadedNamesAgree, ContextsFiled, NothingLeftBehind, Filed, Healthy
<1> QED BY <1>3, <1>5, <1>6

\* IInv is inductive.
THEOREM Invariance == Spec => []IInv
<1>1. IInv /\ [Next]_vars => IInv'
  <2> SUFFICES ASSUME IInv, [Next]_vars PROVE IInv'
    OBVIOUS
  <2>1. CASE UNCHANGED vars
    BY <2>1 DEF vars, IInv, TypeOK, StepInv, InFlight, At, Filed,
                LoadedNamesAgree, ContextsFiled, NothingLeftBehind, Healthy
  <2>2. CASE Next
    BY <2>2, LoadIInv, DeleteIInv, CopyIInv, StoreNameIInv, StorePublicIInv, FailsIInv,
       TpmForgetsIInv
       DEF Next
  <2> QED BY <2>1, <2>2
<1> QED BY InitIInv, <1>1, PTL DEF Spec

\* Type correctness, for any sets of handles, contexts and objects.
THEOREM TypeCorrectness == Spec => []TypeOK
BY Invariance, PTL DEF IInv

\* The Name and the public area saved for a handle are those of the object the TPM has there.
THEOREM NameAgreement == Spec => []LoadedNamesAgree
BY Invariance, PTL DEF IInv

\* The files saved for a context are those of the object in it.
THEOREM ContextAgreement == Spec => []ContextNamesAgree
<1>1. IInv => ContextNamesAgree
  BY ConstantsAssumption DEF IInv, ContextsFiled, ContextNamesAgree
<1> QED BY Invariance, <1>1, PTL

\* A released handle leaves no file.
THEOREM ReleaseIsComplete == Spec => []NothingLeftBehind
BY Invariance, PTL DEF IInv

\* A post processor that works from healthy files does not fail.
THEOREM PostProcessorsSucceed == Spec => []HealthyCommandSucceeds
<1>1. IInv => HealthyCommandSucceeds
  <2> SUFFICES ASSUME IInv, WorksFromHealthy
               PROVE  /\ pc = "name" => NameSucceeds
                      /\ pc = "public" => PublicSucceeds
    BY DEF HealthyCommandSucceeds
  <2>1. CASE cmd.kind = "copy"
    <3>1. /\ cmd \in Command /\ cmd.from \in Healthy /\ cmd.from \in Places
          /\ At(cmd.from) \in Objects
      BY <2>1 DEF IInv, StepInv, WorksFromHealthy, Healthy, Command
    <3>2. Filed(cmd.from, At(cmd.from))
      BY <3>1, ConstantsAssumption DEF IInv, LoadedNamesAgree, ContextsFiled, At, Places
    <3> QED BY <2>1, <3>1, <3>2, ConstantsAssumption DEF NameSucceeds, PublicSucceeds, Filed
  <2>2. CASE cmd.kind = "delete"
    BY <2>2 DEF IInv, InFlight, StepInv, WorksFromHealthy, NameSucceeds, PublicSucceeds
  <2>3. CASE cmd.kind \notin {"copy", "delete"}
    BY <2>3 DEF NameSucceeds, PublicSucceeds
  <2> QED BY <2>1, <2>2, <2>3
<1> QED BY Invariance, <1>1, PTL
=============================================================================
