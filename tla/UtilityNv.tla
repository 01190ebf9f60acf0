------------------------------- MODULE UtilityNv -------------------------------
(***************************************************************************)
(* The utilities for NV indexes, PCRs and the management of the TPM.  For  *)
(* each the variables its options set, and main() from the end of the      *)
(* option loop on.                                                         *)
(***************************************************************************)
EXTENDS UtilityPrograms, TpmTypes

\* changeeps.c
changeeps_Options == {}

changeeps_main ==
  <<Sets({"authHandle"}), TSS_Create, TSS_Execute("ChangeEPS", Handles(1, 3)), TSS_Delete>>

\* changepps.c
changepps_Options == {}

changepps_main ==
  <<Sets({"authHandle"}), TSS_Create, TSS_Execute("ChangePPS", Handles(1, 3)), TSS_Delete>>

\* clear.c
clear_Options == OneOf("authHandleChar", {"none", "l", "p", "other"})

clear_main ==
  <<Refuse(Not(Among("authHandleChar", {"l", "p"}))),
    Sets({"authHandle"}),
    TSS_Create,
    TSS_Execute("Clear", Handles(1, 3)),
    TSS_Delete>>

\* clearcontrol.c
clearcontrol_Options == OneOf("authHandleChar", {"none", "l", "p", "other"})

clearcontrol_main ==
  <<Refuse(Not(Among("authHandleChar", {"l", "p"}))),
    Sets({"auth", "disable"}),
    TSS_Create,
    TSS_Execute("ClearControl", Handles(1, 3)),
    TSS_Delete>>

\* clockrateadjust.c
clockrateadjust_Options == OneOf("hierarchyChar", {"p", "o", "other"})

clockrateadjust_main ==
  <<Sets({"rateAdjust"}),
    Refuse(Not(Among("hierarchyChar", {"o", "p"}))),
    Sets({"auth"}),
    TSS_Create,
    TSS_Execute("ClockRateAdjust", Handles(1, 3)),
    TSS_Delete>>

\* clockset.c
clockset_Options ==
  Arguments({"newTime"})
  \union OneOf("hierarchyChar", {"p", "o", "other"})

clockset_main ==
  <<Requires({"newTime"}),
    Sets({"newTime"}),
    Refuse(Not(Among("hierarchyChar", {"o", "p"}))),
    Sets({"auth"}),
    TSS_Create,
    TSS_Execute("ClockSet", Handles(1, 3)),
    TSS_Delete>>

\* dictionaryattacklockreset.c
dictionaryattacklockreset_Options == {}

dictionaryattacklockreset_main ==
  <<Sets({"lockHandle"}),
    TSS_Create,
    TSS_Execute("DictionaryAttackLockReset", Handles(1, 3)),
    TSS_Delete>>

\* dictionaryattackparameters.c
dictionaryattackparameters_Options == {}

dictionaryattackparameters_main ==
  <<Sets({"lockHandle", "lockoutRecovery", "newMaxTries", "newRecoveryTime"}),
    TSS_Create,
    TSS_Execute("DictionaryAttackParameters", Handles(1, 3)),
    TSS_Delete>>

\* getcapability.c
getcapability_Options == {}

getcapability_main ==
  <<Refuse(Perhaps),
    Sets({"capability", "property", "propertyCount"}),
    TSS_Create,
    TSS_Execute("GetCapability", Handles(0, 4)),
    TSS_Delete,
    Try({})>>

\* hierarchychangeauth.c
hierarchychangeauth_Options ==
  Arguments(
    {"authPassword", "authPasswordFilename", "newPassword", "newPasswordFilename"})
  \union OneOf("hierarchyChar", {"none", "e", "l", "o", "p", "other"})

hierarchychangeauth_main ==
  <<Refuse(Not(Among("hierarchyChar", {"e", "l", "o", "p"}))),
    Sets({"authHandle"}),
    Refuse(And(Given("newPassword"), Given("newPasswordFilename"))),
    Refuse(And(Given("authPassword"), Given("authPasswordFilename"))),
    When(Given("newPassword"),
      <<Try({"newAuth"})>>,
      <<When(Given("newPasswordFilename"), <<Try({"newAuth"})>>, <<Sets({"newAuth"})>>)>>),
    When(Not(Given("authPassword")),
      <<When(Given("authPasswordFilename"), <<Try({})>>, <<>>)>>,
      <<>>),
    TSS_Create,
    TSS_Execute("HierarchyChangeAuth", Handles(1, 3)),
    TSS_Delete>>

\* hierarchycontrol.c
hierarchycontrol_Options ==
  OneOf("authHandleChar", {"none", "e", "o", "p", "other"})
  \union OneOf("enableHandleChar", {"none", "e", "n", "o", "p", "other"})

hierarchycontrol_main ==
  <<Refuse(Not(Among("authHandleChar", {"e", "o", "p"}))),
    Sets({"authHandle"}),
    Refuse(Not(Among("enableHandleChar", {"e", "n", "o", "p"}))),
    Sets({"enable", "state"}),
    TSS_Create,
    TSS_Execute("HierarchyControl", Handles(1, 3)),
    TSS_Delete>>

\* nvcertify.c
nvcertify_Options ==
  Arguments({"attestInfoFilename", "signHandle", "signatureFilename", "size"})
  \union OneOf("hierarchyAuthChar", {"none", "o", "p"})

nvcertify_main ==
  <<Requires({"signHandle"}),
    Refuse(Not(Among("hierarchyAuthChar", {"none", "o", "p"}))),
    Sets({"authHandle"}),
    Refuse(Perhaps),
    Requires({"size"}),
    Sets(
      {"inScheme.details", "inScheme.scheme", "nvIndex", "offset", "qualifyingData", "signHandle",
       "size"}),
    TSS_Create,
    TSS_Execute("NV_Certify", Handles(2, 2)),
    TSS_Delete,
    Writes({"signatureFilename", "attestInfoFilename"}),
    Try({})>>

\* nvchangeauth.c
nvchangeauth_Options == Arguments({"newPassword"})

nvchangeauth_main ==
  <<Refuse(Perhaps),
    Sets({"nvIndex"}),
    When(Given("newPassword"), <<Try({"newAuth"})>>, <<Sets({"newAuth"})>>),
    TSS_Create,
    TSS_Execute("NV_ChangeAuth", Handles(1, 3)),
    TSS_Delete>>

\* nvdefinespace.c
nvdefinespace_Options ==
  Arguments({"nvPassword", "policyFilename"})
  \union OneOf("hierarchyAuthChar", {"none", "o", "p", "other"})
  \union OneOf("hierarchyChar", {"none", "o", "p", "other"})
  \union OneOf("typeChar", {"o", "b", "c", "e", "f", "p", "other"})

nvdefinespace_main ==
  <<Refuse(Perhaps),
    Refuse(Perhaps),
    Refuse(Not(Among("hierarchyAuthChar", {"none", "o", "p"}))),
    Refuse(Not(Among("hierarchyChar", {"o", "p"}))),
    Sets({"authHandle"}),
    Refuse(Not(Among("typeChar", {"b", "c", "e", "f", "o", "p"}))),
    When(Given("nvPassword"), <<Try({"auth"})>>, <<Sets({"auth"})>>),
    When(Given("policyFilename"),
      <<Try({"publicInfo.authPolicy"})>>,
      <<Sets({"publicInfo.authPolicy"})>>),
    Sets(
      {"publicInfo.attributes", "publicInfo.dataSize", "publicInfo.nameAlg", "publicInfo.nvIndex"}),
    TSS_Create,
    TSS_Execute("NV_DefineSpace", Handles(1, 3)),
    TSS_Delete>>

\* nvextend.c
nvextend_Options == Arguments({"data", "datafilename"})

nvextend_main ==
  <<Refuse(Perhaps),
    Refuse(And(Not(Given("data")), Not(Given("datafilename")))),
    Refuse(And(Given("data"), Given("datafilename"))),
    When(Given("data"), <<Try({"data"})>>, <<>>),
    When(Given("datafilename"), <<Try({"data"})>>, <<>>),
    Sets({"authHandle", "nvIndex"}),
    TSS_Create,
    TSS_Execute("NV_Extend", Handles(1, 3)),
    TSS_Delete>>

\* nvglobalwritelock.c
nvglobalwritelock_Options == OneOf("hierarchyAuthChar", {"none", "o", "p", "other"})

nvglobalwritelock_main ==
  <<Refuse(Not(Among("hierarchyAuthChar", {"o", "p"}))),
    Sets({"authHandle"}),
    TSS_Create,
    TSS_Execute("NV_GlobalWriteLock", Handles(1, 3)),
    TSS_Delete>>

\* nvincrement.c
nvincrement_Options == {}

nvincrement_main ==
  <<Refuse(Perhaps),
    Sets({"authHandle", "nvIndex"}),
    TSS_Create,
    TSS_Execute("NV_Increment", Handles(1, 3)),
    TSS_Delete>>

\* nvreadlock.c
nvreadlock_Options == OneOf("hierarchyAuthChar", {"none", "o", "p", "other"})

nvreadlock_main ==
  <<Refuse(Perhaps),
    Refuse(Not(Among("hierarchyAuthChar", {"none", "o", "p"}))),
    Sets({"authHandle", "nvIndex"}),
    TSS_Create,
    TSS_Execute("NV_ReadLock", Handles(1, 3)),
    TSS_Delete>>

\* nvreadpublic.c
nvreadpublic_Options == {}

nvreadpublic_main ==
  <<Refuse(Perhaps),
    Sets({"nvIndex"}),
    TSS_Create,
    TSS_Execute("NV_ReadPublic", Handles(0, 4)),
    TSS_Delete,
    Try({})>>

\* nvsetbits.c
nvsetbits_Options == {}

nvsetbits_main ==
  <<Sets({"bits"}),
    Refuse(Perhaps),
    Sets({"authHandle", "nvIndex"}),
    TSS_Create,
    TSS_Execute("NV_SetBits", Handles(1, 3)),
    TSS_Delete>>

\* nvundefinespace.c
nvundefinespace_Options == OneOf("hierarchyChar", {"none", "o", "p", "other"})

nvundefinespace_main ==
  <<Refuse(Perhaps),
    Refuse(Not(Among("hierarchyChar", {"o", "p"}))),
    Sets({"authHandle", "nvIndex"}),
    TSS_Create,
    TSS_Execute("NV_UndefineSpace", Handles(1, 3)),
    TSS_Delete>>

\* nvundefinespacespecial.c
nvundefinespacespecial_Options == {}

nvundefinespacespecial_main ==
  <<Refuse(Perhaps),
    Sets({"nvIndex", "platform"}),
    TSS_Create,
    TSS_Execute("NV_UndefineSpaceSpecial", Handles(2, 2)),
    TSS_Delete>>

\* nvwritelock.c
nvwritelock_Options == OneOf("hierarchyAuthChar", {"none", "o", "p", "other"})

nvwritelock_main ==
  <<Refuse(Perhaps),
    Refuse(Not(Among("hierarchyAuthChar", {"none", "o", "p"}))),
    Sets({"authHandle", "nvIndex"}),
    TSS_Create,
    TSS_Execute("NV_WriteLock", Handles(1, 3)),
    TSS_Delete>>

\* pcrallocate.c
pcrallocate_Options == Arguments({"sha1", "sha256"})

pcrallocate_main ==
  <<Refuse(And(Not(Given("sha1")), Not(Given("sha256")))),
    Sets({"authHandle", "pcrAllocation"}),
    TSS_Create,
    TSS_Execute("PCR_Allocate", Handles(1, 3)),
    TSS_Delete>>

\* pcrevent.c
pcrevent_Options ==
  Arguments({"data", "datafilename", "outFilename1", "outFilename2", "outFilename3"})

pcrevent_main ==
  <<Refuse(Perhaps),
    Refuse(And(Not(Given("data")), Not(Given("datafilename")))),
    Refuse(And(Given("data"), Given("datafilename"))),
    Sets({"pcrHandle"}),
    When(Given("data"), <<Try({"eventData"})>>, <<>>),
    When(Given("datafilename"), <<Anyway({"eventData"})>>, <<>>),
    TSS_Create,
    TSS_Execute("PCR_Event", Handles(1, 1)),
    TSS_Delete,
    WritesEach({"outFilename1", "outFilename2", "outFilename3"})>>

\* pcrextend.c
pcrextend_Options ==
  Arguments({"dataString", "datafilename"})
  \union OneOf("digests.count", {"0xffffffff", "other"})

pcrextend_main ==
  <<When(Is("digests.count", "0xffffffff"), <<>>, <<Sets({"digests"})>>),
    Refuse(Perhaps),
    Refuse(And(Not(Given("dataString")), Not(Given("datafilename")))),
    Refuse(And(Given("dataString"), Given("datafilename"))),
    Refuse(And(Given("dataString"), Perhaps)),
    When(Is("digests.count", "0xffffffff"), <<Sets({"digests"})>>, <<>>),
    Sets({"pcrHandle"}),
    When(Given("datafilename"), <<Try({})>>, <<>>),
    TSS_Create,
    TSS_Execute("PCR_Extend", Handles(1, 1)),
    TSS_Delete>>

\* pcrread.c
pcrread_Options ==
  Arguments({"datafilename"})
  \union OneOf("pcrSelectionIn.count", {"0xffffffff", "other"})

pcrread_main ==
  <<When(Is("pcrSelectionIn.count", "0xffffffff"), <<>>, <<Sets({"pcrSelectionIn"})>>),
    Refuse(Perhaps),
    When(Is("pcrSelectionIn.count", "0xffffffff"), <<Sets({"pcrSelectionIn"})>>, <<>>),
    TSS_Create,
    TSS_Execute("PCR_Read", Handles(0, 2)),
    TSS_Delete,
    Writes({"datafilename"})>>

\* pcrreset.c
pcrreset_Options == {}

pcrreset_main ==
  <<Refuse(Perhaps),
    Sets({"pcrHandle"}),
    TSS_Create,
    TSS_Execute("PCR_Reset", Handles(1, 1)),
    TSS_Delete>>

\* readclock.c
readclock_Options == {}

readclock_main ==
  <<TSS_Create, TSS_Execute("ReadClock", Handles(0, 1)), TSS_Delete>>

\* setprimarypolicy.c
setprimarypolicy_Options ==
  Arguments({"policyFilename"})
  \union OneOf("authHandleChar", {"p", "e", "l", "o", "other"})
  \union OneOf("hashAlg", {"TPM_ALG_NULL", "other"})

setprimarypolicy_main ==
  <<Sets({"hashAlg"}),
    When(Given("policyFilename"),
      <<Refuse(Is("hashAlg", "TPM_ALG_NULL"))>>,
      <<Refuse(Not(Is("hashAlg", "TPM_ALG_NULL")))>>),
    Refuse(Not(Among("authHandleChar", {"e", "l", "o", "p"}))),
    Sets({"authHandle"}),
    When(Given("policyFilename"), <<Anyway({"authPolicy"})>>, <<Sets({"authPolicy"})>>),
    TSS_Create,
    TSS_Execute("SetPrimaryPolicy", Handles(1, 3)),
    TSS_Delete>>

\* shutdown.c
shutdown_Options == {}

shutdown_main ==
  <<Sets({"shutdownType"}), TSS_Create, TSS_Execute("Shutdown", Handles(0, 1)), TSS_Delete>>

UtilityNvPrograms ==
  [changeeps |-> Utility(changeeps_Options, changeeps_main),
   changepps |-> Utility(changepps_Options, changepps_main),
   clear |-> Utility(clear_Options, clear_main),
   clearcontrol |-> Utility(clearcontrol_Options, clearcontrol_main),
   clockrateadjust |-> Utility(clockrateadjust_Options, clockrateadjust_main),
   clockset |-> Utility(clockset_Options, clockset_main),
   dictionaryattacklockreset |-> Utility(dictionaryattacklockreset_Options, dictionaryattacklockreset_main),
   dictionaryattackparameters |-> Utility(dictionaryattackparameters_Options, dictionaryattackparameters_main),
   getcapability |-> Utility(getcapability_Options, getcapability_main),
   hierarchychangeauth |-> Utility(hierarchychangeauth_Options, hierarchychangeauth_main),
   hierarchycontrol |-> Utility(hierarchycontrol_Options, hierarchycontrol_main),
   nvcertify |-> Utility(nvcertify_Options, nvcertify_main),
   nvchangeauth |-> Utility(nvchangeauth_Options, nvchangeauth_main),
   nvdefinespace |-> Utility(nvdefinespace_Options, nvdefinespace_main),
   nvextend |-> Utility(nvextend_Options, nvextend_main),
   nvglobalwritelock |-> Utility(nvglobalwritelock_Options, nvglobalwritelock_main),
   nvincrement |-> Utility(nvincrement_Options, nvincrement_main),
   nvreadlock |-> Utility(nvreadlock_Options, nvreadlock_main),
   nvreadpublic |-> Utility(nvreadpublic_Options, nvreadpublic_main),
   nvsetbits |-> Utility(nvsetbits_Options, nvsetbits_main),
   nvundefinespace |-> Utility(nvundefinespace_Options, nvundefinespace_main),
   nvundefinespacespecial |-> Utility(nvundefinespacespecial_Options, nvundefinespacespecial_main),
   nvwritelock |-> Utility(nvwritelock_Options, nvwritelock_main),
   pcrallocate |-> Utility(pcrallocate_Options, pcrallocate_main),
   pcrevent |-> Utility(pcrevent_Options, pcrevent_main),
   pcrextend |-> Utility(pcrextend_Options, pcrextend_main),
   pcrread |-> Utility(pcrread_Options, pcrread_main),
   pcrreset |-> Utility(pcrreset_Options, pcrreset_main),
   readclock |-> Utility(readclock_Options, readclock_main),
   setprimarypolicy |-> Utility(setprimarypolicy_Options, setprimarypolicy_main),
   shutdown |-> Utility(shutdown_Options, shutdown_main)]

================================================================================
