---------------------------- MODULE TssNv_proofs ----------------------------
(***************************************************************************)
(* Proofs about TssNv, for every set of indexes and of definitions.        *)
(*                                                                         *)
(* The invariants say what holds of an index that no post processor is     *)
(* working on.  To make them inductive, InFlight says what holds of the    *)
(* index of the one that is running: the files it has written, those it    *)
(* has still to write, and that these will make the files agree.           *)
(***************************************************************************)
EXTENDS TssNv, TLAPS

\* The kind of command goes with the step that is due.
StepInv ==
  /\ pc = "idle" => cmd = NoCommand
  /\ pc # "idle" => cmd \in Command
  /\ pc \in {"name", "public"} => cmd.kind = "store" /\ cmd.name \in Public /\ cmd.public = cmd.name
  /\ pc \in {"bit", "newName"} => cmd.kind = "setBit"
  /\ pc \in {"deleteName", "deletePublic"} => cmd.kind = "delete"

\* What the post processor has done for a healthy index will make its files agree.
InFlight ==
  LET i == cmd.index
  IN  pc # "idle" /\ i \notin stale =>
        /\ pc = "name" => tpm[i] = cmd.name
        /\ pc = "public" => tpm[i] = cmd.name /\ nameFile[i] = cmd.name
        /\ pc = "bit" =>
             /\ nvpFile[i] \in Public /\ nameFile[i] = nvpFile[i]
             /\ WithBit(nvpFile[i], cmd.bit) = tpm[i]
        /\ pc = "newName" => nvpFile[i] = tpm[i] /\ tpm[i] # Undefined

\* An index that is being deleted is gone, and its Name goes first.
Deleting ==
  LET i == cmd.index
  IN  /\ pc \in {"deleteName", "deletePublic"} => tpm[i] = Undefined
      /\ pc = "deletePublic" => nameFile[i] = NoFile

IInv ==
  /\ TypeOK
  /\ StepInv
  /\ InFlight
  /\ Deleting
  /\ NvNamesAgree
  /\ UndefinedLeavesNothing

\* Setting a bit that is set changes nothing; setting one keeps the public area well formed.
LEMMA WithBitFacts ==
  ASSUME NEW p \in Public, NEW bit \in Bits
  PROVE  /\ WithBit(p, bit) \in Public
         /\ bit \in p.bits => WithBit(p, bit) = p
<1>1. WithBit(p, bit) = [definition |-> p.definition, bits |-> p.bits \union {bit}]
  BY DEF WithBit, Public
<1>2. WithBit(p, bit) \in Public
  BY <1>1 DEF Public
<1>3. ASSUME bit \in p.bits PROVE WithBit(p, bit) = p
  <2>1. p.bits \union {bit} = p.bits
    BY <1>3
  <2> QED BY <1>1, <2>1 DEF Public
<1> QED BY <1>2, <1>3

LEMMA InitIInv == Init => IInv
BY ConstantsAssumption
   DEF Init, IInv, TypeOK, StepInv, InFlight, Deleting, NvNamesAgree, UndefinedLeavesNothing, Healthy

\* A command starts: its index is taken out of the healthy ones.
LEMMA CommandIInv ==
  ASSUME IInv,
         \/ \E i \in Indexes, d \in Definitions : NV_DefineSpace(i, d)
         \/ \E i \in Indexes, name, public \in Public : NV_ReadPublic(i, name, public)
         \/ \E i \in Indexes, bit \in Bits : NV_Update(i, bit)
         \/ \E i \in Indexes : NV_UndefineSpace(i)
  PROVE  IInv'
<1> USE ConstantsAssumption DEF IInv, TypeOK
<1>1. ASSUME NEW i \in Indexes, NEW d \in Definitions, NV_DefineSpace(i, d) PROVE IInv'
  <2> DEFINE p == [definition |-> d, bits |-> {}]
  <2>1. p \in Public
    BY DEF Public
  <2>2. /\ tpm[i] = Undefined /\ pc = "idle" /\ pc' = "name"
        /\ cmd' = [kind |-> "store", index |-> i, bit |-> "WRITTEN", name |-> p, public |-> p]
        /\ tpm' = [tpm EXCEPT ![i] = p] /\ stale' = stale \ {i} /\ failed' = failed \ {i}
        /\ UNCHANGED <<nameFile, nvpFile>>
    BY <1>1 DEF NV_DefineSpace, Executed
  <2> HIDE DEF p
  <2>3. cmd' \in Command /\ cmd'.index = i /\ cmd'.kind = "store"
        /\ cmd'.name = p /\ cmd'.public = p
    BY <2>1, <2>2 DEF Command, Kinds, Bits
  <2>4. TypeOK' /\ StepInv' /\ InFlight' /\ Deleting'
    BY <2>1, <2>2, <2>3 DEF StepInv, InFlight, Deleting
  <2>5. NvNamesAgree' /\ UndefinedLeavesNothing'
    BY <2>2, <2>3 DEF NvNamesAgree, UndefinedLeavesNothing, Healthy
  <2> QED BY <2>4, <2>5
<1>2. ASSUME NEW i \in Indexes, NEW name \in Public, NEW public \in Public,
             NV_ReadPublic(i, name, public)
      PROVE IInv'
  <2>1. /\ pc = "idle" /\ pc' = "name" /\ tpm[i] = name /\ public = name
        /\ cmd' = [kind |-> "store", index |-> i, bit |-> "WRITTEN", name |-> name, public |-> name]
        /\ stale' = stale \ {i} /\ failed' = failed \ {i}
        /\ UNCHANGED <<tpm, nameFile, nvpFile>>
    BY <1>2 DEF NV_ReadPublic, Executed
  <2>2. cmd' \in Command /\ cmd'.index = i /\ cmd'.kind = "store"
        /\ cmd'.name = name /\ cmd'.public = name
    BY <2>1 DEF Command, Kinds, Bits
  <2>3. TypeOK' /\ StepInv' /\ InFlight' /\ Deleting'
    BY <2>1, <2>2 DEF StepInv, InFlight, Deleting
  <2>4. NvNamesAgree' /\ UndefinedLeavesNothing'
    BY <2>1, <2>2 DEF NvNamesAgree, UndefinedLeavesNothing, Healthy
  <2> QED BY <2>3, <2>4
<1>3. ASSUME NEW i \in Indexes, NEW bit \in Bits, NV_Update(i, bit) PROVE IInv'
  <2>1. /\ pc = "idle" /\ pc' = "bit" /\ tpm[i] # Undefined
        /\ cmd' = [kind |-> "setBit", index |-> i, bit |-> bit, name |-> NoFile, public |-> NoFile]
        /\ tpm' = [tpm EXCEPT ![i] = WithBit(tpm[i], bit)]
        /\ failed' = failed \ {i}
        /\ UNCHANGED <<nameFile, nvpFile, stale>>
    BY <1>3 DEF NV_Update, Executed
  <2>2. cmd' \in Command /\ cmd'.index = i /\ cmd'.kind = "setBit" /\ cmd'.bit = bit
    BY <2>1 DEF Command, Kinds
  <2>3. tpm[i] \in Public /\ WithBit(tpm[i], bit) \in Public
    BY <2>1, WithBitFacts
  <2>4. i \notin stale => nvpFile[i] = tpm[i] /\ nameFile[i] = tpm[i]
    BY <2>1 DEF NvNamesAgree, Healthy
  <2>5. TypeOK' /\ StepInv' /\ InFlight' /\ Deleting'
    BY <2>1, <2>2, <2>3, <2>4 DEF StepInv, InFlight, Deleting
  <2>6. NvNamesAgree' /\ UndefinedLeavesNothing'
    BY <2>1, <2>2 DEF NvNamesAgree, UndefinedLeavesNothing, Healthy
  <2> QED BY <2>5, <2>6
<1>4. ASSUME NEW i \in Indexes, NV_UndefineSpace(i) PROVE IInv'
  <2>1. /\ pc = "idle" /\ pc' = "deleteName" /\ tpm[i] # Undefined
        /\ cmd' = [kind |-> "delete", index |-> i, bit |-> "WRITTEN",
                   name |-> NoFile, public |-> NoFile]
        /\ tpm' = [tpm EXCEPT ![i] = Undefined]
        /\ failed' = failed \ {i}
        /\ UNCHANGED <<nameFile, nvpFile, stale>>
    BY <1>4 DEF NV_UndefineSpace, Executed
  <2>2. cmd' \in Command /\ cmd'.index = i /\ cmd'.kind = "delete"
    BY <2>1 DEF Command, Kinds, Bits
  <2>3. TypeOK' /\ StepInv' /\ InFlight' /\ Deleting'
    BY <2>1, <2>2 DEF StepInv, InFlight, Deleting
  <2>4. NvNamesAgree' /\ UndefinedLeavesNothing'
    BY <2>1, <2>2 DEF NvNamesAgree, UndefinedLeavesNothing, Healthy
  <2> QED BY <2>3, <2>4
<1> QED BY <1>1, <1>2, <1>3, <1>4

\* The TPM changes an index behind the back of the TSS: that index becomes stale.
LEMMA TpmChangesIInv ==
  ASSUME IInv, NEW i \in Indexes, TpmChanges(i)
  PROVE  IInv'
<1> USE ConstantsAssumption DEF IInv, TypeOK
<1>1. /\ tpm[i] # Undefined /\ stale' = stale \union {i}
      /\ UNCHANGED <<nameFile, nvpFile, pc, cmd, failed>>
  BY DEF TpmChanges
<1>2. PICK p \in Public \union {Undefined} : tpm' = [tpm EXCEPT ![i] = p]
  <2>1. tpm[i] \in Public
    BY <1>1
  <2>2. WithBit(tpm[i], "WRITELOCKED") \in Public
    BY <2>1, WithBitFacts DEF Bits
  <2>3. [tpm EXCEPT ![i].bits = @ \ {"WRITELOCKED", "READLOCKED"}]
          = [tpm EXCEPT ![i] = [tpm[i] EXCEPT !.bits = @ \ {"WRITELOCKED", "READLOCKED"}]]
    OBVIOUS
  <2>4. [tpm[i] EXCEPT !.bits = @ \ {"WRITELOCKED", "READLOCKED"}] \in Public
    BY <2>1 DEF Public
  <2> QED BY <2>2, <2>3, <2>4 DEF TpmChanges
<1>3. TypeOK' /\ StepInv' /\ InFlight'
  BY <1>1, <1>2 DEF StepInv, InFlight
<1>4. Deleting'
  BY <1>1, <1>2 DEF Deleting
<1>5. NvNamesAgree' /\ UndefinedLeavesNothing'
  BY <1>1, <1>2 DEF NvNamesAgree, UndefinedLeavesNothing, Healthy
<1> QED BY <1>3, <1>4, <1>5

\* The post processors of NV_DefineSpace and NV_ReadPublic.
LEMMA StoreIInv ==
  ASSUME IInv, StoreName \/ StorePublic
  PROVE  IInv'
<1> USE ConstantsAssumption DEF IInv, TypeOK
<1>1. CASE StoreName
  <2>1. /\ pc = "name" /\ pc' = "public" /\ cmd \in Command /\ cmd.name \in Public
        /\ nameFile' = [nameFile EXCEPT ![cmd.index] = cmd.name]
        /\ UNCHANGED <<tpm, nvpFile, cmd, stale, failed>>
    BY <1>1 DEF StoreName, StepInv
  <2>2. cmd.index \in Indexes
    BY <2>1 DEF Command
  <2>3. TypeOK' /\ StepInv' /\ InFlight' /\ Deleting'
    BY <2>1, <2>2 DEF StepInv, InFlight, Deleting
  <2>4. NvNamesAgree' /\ UndefinedLeavesNothing'
    BY <2>1, <2>2 DEF NvNamesAgree, UndefinedLeavesNothing, Healthy
  <2> QED BY <2>3, <2>4
<1>2. CASE StorePublic
  <2>1. /\ pc = "public" /\ pc' = "idle" /\ cmd' = NoCommand /\ cmd \in Command
        /\ cmd.name \in Public /\ cmd.public = cmd.name
        /\ nvpFile' = [nvpFile EXCEPT ![cmd.index] = cmd.public]
        /\ UNCHANGED <<tpm, nameFile, stale, failed>>
    BY <1>2 DEF StorePublic, Return, StepInv
  <2>2. cmd.index \in Indexes
    BY <2>1 DEF Command
  <2>3. TypeOK' /\ StepInv' /\ InFlight' /\ Deleting'
    BY <2>1, <2>2 DEF StepInv, InFlight, Deleting
  <2>4. NvNamesAgree' /\ UndefinedLeavesNothing'
    BY <2>1, <2>2 DEF NvNamesAgree, UndefinedLeavesNothing, Healthy, InFlight
  <2> QED BY <2>3, <2>4
<1> QED BY <1>1, <1>2

\* The post processors of the writes and locks.
LEMMA UpdateIInv ==
  ASSUME IInv, SetBit \/ BitIsSet \/ LoadFails \/ StoreNewName \/ UpdateFails
  PROVE  IInv'
<1> USE ConstantsAssumption DEF IInv, TypeOK
<1>1. /\ pc \in {"bit", "newName"} /\ cmd \in Command
      /\ cmd.index \in Indexes /\ cmd.bit \in Bits /\ cmd.kind = "setBit"
  BY DEF SetBit, BitIsDue, BitIsSet, LoadFails, StoreNewName, UpdateFails, StepInv, Command
<1>2. CASE SetBit
  <2>1. /\ pc = "bit" /\ pc' = "newName" /\ nvpFile[cmd.index] \in Public
        /\ nvpFile' = [nvpFile EXCEPT ![cmd.index] = WithBit(nvpFile[cmd.index], cmd.bit)]
        /\ UNCHANGED <<tpm, nameFile, cmd, stale, failed>>
    BY <1>2 DEF SetBit, BitIsDue, NewPublic
  <2>2. WithBit(nvpFile[cmd.index], cmd.bit) \in Public
    BY <1>1, <2>1, WithBitFacts
  <2>3. TypeOK' /\ StepInv' /\ InFlight' /\ Deleting'
    BY <1>1, <2>1, <2>2 DEF StepInv, InFlight, Deleting
  <2>4. NvNamesAgree' /\ UndefinedLeavesNothing'
    BY <1>1, <2>1 DEF NvNamesAgree, UndefinedLeavesNothing, Healthy
  <2> QED BY <2>3, <2>4
<1>3. CASE BitIsSet
  <2>1. /\ pc = "bit" /\ pc' = "idle" /\ cmd' = NoCommand /\ nvpFile[cmd.index] \in Public
        /\ WithBit(nvpFile[cmd.index], cmd.bit) = nvpFile[cmd.index]
        /\ UNCHANGED <<tpm, nameFile, nvpFile, stale, failed>>
    BY <1>1, <1>3, WithBitFacts DEF BitIsSet, Return
  <2>2. TypeOK' /\ StepInv' /\ InFlight' /\ Deleting'
    BY <2>1 DEF StepInv, InFlight, Deleting
  <2>3. NvNamesAgree' /\ UndefinedLeavesNothing'
    BY <1>1, <2>1 DEF NvNamesAgree, UndefinedLeavesNothing, Healthy, InFlight
  <2> QED BY <2>2, <2>3
<1>4. CASE LoadFails \/ UpdateFails
  <2>1. /\ pc' = "idle" /\ cmd' = NoCommand
        /\ stale' = stale \union {cmd.index} /\ failed' = failed \union {cmd.index}
        /\ tpm' = tpm
        /\ \/ UNCHANGED <<nameFile, nvpFile>>
           \/ /\ nameFile' = [nameFile EXCEPT ![cmd.index] = NoFile]
              /\ nvpFile' = [nvpFile EXCEPT ![cmd.index] = NoFile]
    BY <1>4 DEF LoadFails, UpdateFails, Return
  <2>2. TypeOK' /\ StepInv' /\ InFlight' /\ Deleting'
    BY <1>1, <2>1 DEF StepInv, InFlight, Deleting
  <2>3. NvNamesAgree' /\ UndefinedLeavesNothing'
    BY <1>1, <2>1 DEF NvNamesAgree, UndefinedLeavesNothing, Healthy
  <2> QED BY <2>2, <2>3
<1>5. CASE StoreNewName
  <2>1. /\ pc = "newName" /\ pc' = "idle" /\ cmd' = NoCommand
        /\ nameFile' = [nameFile EXCEPT ![cmd.index] = nvpFile[cmd.index]]
        /\ UNCHANGED <<tpm, nvpFile, stale, failed>>
    BY <1>5 DEF StoreNewName, Return
  <2>2. TypeOK' /\ StepInv' /\ InFlight' /\ Deleting'
    BY <1>1, <2>1 DEF StepInv, InFlight, Deleting
  <2>3. NvNamesAgree' /\ UndefinedLeavesNothing'
    BY <1>1, <2>1 DEF NvNamesAgree, UndefinedLeavesNothing, Healthy, InFlight
  <2> QED BY <2>2, <2>3
<1> QED BY <1>2, <1>3, <1>4, <1>5

\* The post processors of NV_UndefineSpace and NV_UndefineSpaceSpecial.
LEMMA DeleteIInv ==
  ASSUME IInv, DeleteName \/ DeletePublic
  PROVE  IInv'
<1> USE ConstantsAssumption DEF IInv, TypeOK
<1>1. /\ pc \in {"deleteName", "deletePublic"} /\ cmd \in Command
      /\ cmd.index \in Indexes /\ cmd.kind = "delete"
  BY DEF DeleteName, DeletePublic, StepInv, Command
<1>2. CASE DeleteName
  <2>1. /\ pc = "deleteName" /\ pc' = "deletePublic"
        /\ nameFile' = [nameFile EXCEPT ![cmd.index] = NoFile]
        /\ UNCHANGED <<tpm, nvpFile, cmd, stale, failed>>
    BY <1>2 DEF DeleteName
  <2>2. TypeOK' /\ StepInv' /\ InFlight' /\ Deleting'
    BY <1>1, <2>1 DEF StepInv, InFlight, Deleting
  <2>3. NvNamesAgree' /\ UndefinedLeavesNothing'
    BY <1>1, <2>1 DEF NvNamesAgree, UndefinedLeavesNothing, Healthy
  <2> QED BY <2>2, <2>3
<1>3. CASE DeletePublic
  <2>1. /\ pc = "deletePublic" /\ pc' = "idle" /\ cmd' = NoCommand
        /\ nvpFile' = [nvpFile EXCEPT ![cmd.index] = NoFile]
        /\ stale' = stale \ {cmd.index}
        /\ UNCHANGED <<tpm, nameFile, failed>>
    BY <1>3 DEF DeletePublic, Return
  <2>2. TypeOK' /\ StepInv' /\ InFlight' /\ Deleting'
    BY <1>1, <2>1 DEF StepInv, InFlight, Deleting
  <2>3. NvNamesAgree' /\ UndefinedLeavesNothing'
    BY <1>1, <2>1 DEF NvNamesAgree, UndefinedLeavesNothing, Healthy, Deleting
  <2> QED BY <2>2, <2>3
<1> QED BY <1>2, <1>3

\* A fault spoils the index of the command and no other.
LEMMA FaultIInv ==
  ASSUME IInv, Fault
  PROVE  IInv'
<1> USE ConstantsAssumption DEF IInv, TypeOK
<1>1. /\ cmd \in Command /\ cmd.index \in Indexes
      /\ pc' = "idle" /\ cmd' = NoCommand /\ stale' = stale \union {cmd.index}
      /\ UNCHANGED <<tpm, failed>>
  BY DEF Fault, Return, StepInv, Command
<1>2. /\ nameFile' \in {nameFile, [nameFile EXCEPT ![cmd.index] = Torn]}
      /\ nvpFile' \in {nvpFile, [nvpFile EXCEPT ![cmd.index] = Torn]}
  BY DEF Fault
<1>3. TypeOK' /\ StepInv' /\ InFlight' /\ Deleting'
  BY <1>1, <1>2 DEF StepInv, InFlight, Deleting
<1>4. NvNamesAgree' /\ UndefinedLeavesNothing'
  BY <1>1, <1>2 DEF NvNamesAgree, UndefinedLeavesNothing, Healthy
<1> QED BY <1>3, <1>4

\* IInv is inductive.
THEOREM Invariance == Spec => []IInv
<1>1. IInv /\ [Next]_vars => IInv'
  <2> SUFFICES ASSUME IInv, [Next]_vars PROVE IInv'
    OBVIOUS
  <2>1. CASE UNCHANGED vars
    BY <2>1 DEF vars, IInv, TypeOK, StepInv, InFlight, Deleting,
                NvNamesAgree, UndefinedLeavesNothing, Healthy
  <2>2. CASE Next
    BY <2>2, CommandIInv, TpmChangesIInv, StoreIInv, UpdateIInv, DeleteIInv, FaultIInv DEF Next
  <2> QED BY <2>1, <2>2
<1> QED BY InitIInv, <1>1, PTL DEF Spec

\* Type correctness, for any number of indexes and definitions.
THEOREM TypeCorrectness == Spec => []TypeOK
BY Invariance, PTL DEF IInv

\* The saved Name of every index the TSS has followed is the Name the TPM computes, through
\* every write and lock.
THEOREM NvNameAgreement == Spec => []NvNamesAgree
BY Invariance, PTL DEF IInv

\* An index that was undefined through the TSS leaves no file.
THEOREM UndefineIsComplete == Spec => []UndefinedLeavesNothing
BY Invariance, PTL DEF IInv

\* The post processor of a write or lock finds the public area the TPM had before the command.
THEOREM UpdateFollows == Spec => []HealthyUpdateFollows
<1>1. IInv => HealthyUpdateFollows
  BY DEF IInv, InFlight, HealthyUpdateFollows
<1> QED BY Invariance, <1>1, PTL
=============================================================================
