----------------------------- MODULE CommandAttributes -----------------------------
(*****************************************************************************)
(* The attributes of the commands: CommandAttributeData.c, the functions of  *)
(* tssccattributes.c that read it, and the command codes of                  *)
(* Implementation.h. A command is named as in its command code.              *)
(*****************************************************************************)
EXTENDS Integers, TLC

TPM_CC_NV_UndefineSpaceSpecial ==
  [NV_UndefineSpaceSpecial |-> 287, EvictControl |-> 288, HierarchyControl |-> 289,
   NV_UndefineSpace |-> 290, ChangeEPS |-> 292, ChangePPS |-> 293, Clear |-> 294,
   ClearControl |-> 295, ClockSet |-> 296, HierarchyChangeAuth |-> 297, NV_DefineSpace |-> 298,
   PCR_Allocate |-> 299, PCR_SetAuthPolicy |-> 300, PP_Commands |-> 301,
   SetPrimaryPolicy |-> 302, ClockRateAdjust |-> 304, CreatePrimary |-> 305,
   NV_GlobalWriteLock |-> 306, GetCommandAuditDigest |-> 307, NV_Increment |-> 308,
   NV_SetBits |-> 309, NV_Extend |-> 310, NV_Write |-> 311]

TPM_CC_NV_WriteLock ==
  [NV_WriteLock |-> 312, DictionaryAttackLockReset |-> 313, DictionaryAttackParameters |-> 314,
   NV_ChangeAuth |-> 315, PCR_Event |-> 316, PCR_Reset |-> 317, SequenceComplete |-> 318,
   SetAlgorithmSet |-> 319, SetCommandCodeAuditStatus |-> 320, IncrementalSelfTest |-> 322,
   SelfTest |-> 323, Startup |-> 324, Shutdown |-> 325, StirRandom |-> 326,
   ActivateCredential |-> 327, Certify |-> 328, PolicyNV |-> 329, CertifyCreation |-> 330,
   Duplicate |-> 331, GetTime |-> 332, GetSessionAuditDigest |-> 333, NV_Read |-> 334,
   NV_ReadLock |-> 335]

TPM_CC_ObjectChangeAuth ==
  [ObjectChangeAuth |-> 336, PolicySecret |-> 337, Rewrap |-> 338, Create |-> 339,
   ECDH_ZGen |-> 340, HMAC |-> 341, Import |-> 342, Load |-> 343, Quote |-> 344,
   RSA_Decrypt |-> 345, HMAC_Start |-> 347, SequenceUpdate |-> 348, Sign |-> 349,
   Unseal |-> 350, PolicySigned |-> 352, ContextLoad |-> 353, ContextSave |-> 354,
   ECDH_KeyGen |-> 355, EncryptDecrypt |-> 356, FlushContext |-> 357, LoadExternal |-> 359,
   MakeCredential |-> 360, NV_ReadPublic |-> 361, PolicyAuthorize |-> 362]

TPM_CC_PolicyAuthValue ==
  [PolicyAuthValue |-> 363, PolicyCommandCode |-> 364, PolicyCounterTimer |-> 365,
   PolicyCpHash |-> 366, PolicyLocality |-> 367, PolicyNameHash |-> 368, PolicyOR |-> 369,
   PolicyTicket |-> 370, ReadPublic |-> 371, RSA_Encrypt |-> 372, StartAuthSession |-> 374,
   VerifySignature |-> 375, ECC_Parameters |-> 376, GetCapability |-> 378, GetRandom |-> 379,
   GetTestResult |-> 380, Hash |-> 381, PCR_Read |-> 382, PolicyPCR |-> 383,
   PolicyRestart |-> 384, ReadClock |-> 385, PCR_Extend |-> 386, PCR_SetAuthValue |-> 387]

TPM_CC_NV_Certify ==
  [NV_Certify |-> 388, EventSequenceComplete |-> 389, HashSequenceStart |-> 390,
   PolicyPhysicalPresence |-> 391, PolicyDuplicationSelect |-> 392, PolicyGetDigest |-> 393,
   TestParms |-> 394, Commit |-> 395, PolicyPassword |-> 396, ZGen_2Phase |-> 397,
   EC_Ephemeral |-> 398, PolicyNvWritten |-> 399, PolicyTemplate |-> 400, CreateLoaded |-> 401,
   PolicyAuthorizeNV |-> 402, EncryptDecrypt2 |-> 403]

TPM_CC ==
  TPM_CC_NV_UndefineSpaceSpecial @@ TPM_CC_NV_WriteLock @@ TPM_CC_ObjectChangeAuth @@ TPM_CC_PolicyAuthValue @@ TPM_CC_NV_Certify

\* The handles of the command and of its response (cHandles, rHandle).
s_ccAttr_NV_UndefineSpaceSpecial ==
  [NV_UndefineSpaceSpecial |-> <<2, 0>>, EvictControl |-> <<2, 0>>, HierarchyControl |-> <<1,
   0>>, NV_UndefineSpace |-> <<2, 0>>, ChangeEPS |-> <<1, 0>>, ChangePPS |-> <<1, 0>>,
   Clear |-> <<1, 0>>, ClearControl |-> <<1, 0>>, ClockSet |-> <<1, 0>>,
   HierarchyChangeAuth |-> <<1, 0>>, NV_DefineSpace |-> <<1, 0>>, PCR_Allocate |-> <<1, 0>>,
   PCR_SetAuthPolicy |-> <<1, 0>>, PP_Commands |-> <<1, 0>>, SetPrimaryPolicy |-> <<1, 0>>,
   ClockRateAdjust |-> <<1, 0>>, CreatePrimary |-> <<1, 1>>, NV_GlobalWriteLock |-> <<1, 0>>,
   GetCommandAuditDigest |-> <<2, 0>>, NV_Increment |-> <<2, 0>>, NV_SetBits |-> <<2, 0>>,
   NV_Extend |-> <<2, 0>>, NV_Write |-> <<2, 0>>, NV_WriteLock |-> <<2, 0>>,
   DictionaryAttackLockReset |-> <<1, 0>>, DictionaryAttackParameters |-> <<1, 0>>,
   NV_ChangeAuth |-> <<1, 0>>, PCR_Event |-> <<1, 0>>, PCR_Reset |-> <<1, 0>>,
   SequenceComplete |-> <<1, 0>>, SetAlgorithmSet |-> <<1, 0>>,
   SetCommandCodeAuditStatus |-> <<1, 0>>, IncrementalSelfTest |-> <<0, 0>>, SelfTest |-> <<0,
   0>>, Startup |-> <<0, 0>>, Shutdown |-> <<0, 0>>, StirRandom |-> <<0, 0>>,
   ActivateCredential |-> <<2, 0>>, Certify |-> <<2, 0>>, PolicyNV |-> <<3, 0>>,
   CertifyCreation |-> <<2, 0>>, Duplicate |-> <<2, 0>>, GetTime |-> <<2, 0>>,
   GetSessionAuditDigest |-> <<3, 0>>, NV_Read |-> <<2, 0>>, NV_ReadLock |-> <<2, 0>>]

s_ccAttr_ObjectChangeAuth ==
  [ObjectChangeAuth |-> <<2, 0>>, PolicySecret |-> <<2, 0>>, Rewrap |-> <<2, 0>>,
   Create |-> <<1, 0>>, ECDH_ZGen |-> <<1, 0>>, HMAC |-> <<1, 0>>, Import |-> <<1, 0>>,
   Load |-> <<1, 1>>, Quote |-> <<1, 0>>, RSA_Decrypt |-> <<1, 0>>, HMAC_Start |-> <<1, 1>>,
   SequenceUpdate |-> <<1, 0>>, Sign |-> <<1, 0>>, Unseal |-> <<1, 0>>, PolicySigned |-> <<2,
   0>>, ContextLoad |-> <<0, 1>>, ContextSave |-> <<1, 0>>, ECDH_KeyGen |-> <<1, 0>>,
   EncryptDecrypt |-> <<1, 0>>, FlushContext |-> <<0, 0>>, LoadExternal |-> <<0, 1>>,
   MakeCredential |-> <<1, 0>>, NV_ReadPublic |-> <<1, 0>>, PolicyAuthorize |-> <<1, 0>>,
   PolicyAuthValue |-> <<1, 0>>, PolicyCommandCode |-> <<1, 0>>, PolicyCounterTimer |-> <<1,
   0>>, PolicyCpHash |-> <<1, 0>>, PolicyLocality |-> <<1, 0>>, PolicyNameHash |-> <<1, 0>>,
   PolicyOR |-> <<1, 0>>, PolicyTicket |-> <<1, 0>>, ReadPublic |-> <<1, 0>>,
   RSA_Encrypt |-> <<1, 0>>, StartAuthSession |-> <<2, 1>>, VerifySignature |-> <<1, 0>>,
   ECC_Parameters |-> <<0, 0>>, GetCapability |-> <<0, 0>>, GetRandom |-> <<0, 0>>,
   GetTestResult |-> <<0, 0>>, Hash |-> <<0, 0>>, PCR_Read |-> <<0, 0>>, PolicyPCR |-> <<1, 0>>,
   PolicyRestart |-> <<1, 0>>]

s_ccAttr_ReadClock ==
  [ReadClock |-> <<0, 0>>, PCR_Extend |-> <<1, 0>>, PCR_SetAuthValue |-> <<1, 0>>,
   NV_Certify |-> <<3, 0>>, EventSequenceComplete |-> <<2, 0>>, HashSequenceStart |-> <<0, 1>>,
   PolicyPhysicalPresence |-> <<1, 0>>, PolicyDuplicationSelect |-> <<1, 0>>,
   PolicyGetDigest |-> <<1, 0>>, TestParms |-> <<0, 0>>, Commit |-> <<1, 0>>,
   PolicyPassword |-> <<1, 0>>, ZGen_2Phase |-> <<1, 0>>, EC_Ephemeral |-> <<0, 0>>,
   PolicyNvWritten |-> <<1, 0>>, PolicyTemplate |-> <<1, 0>>, CreateLoaded |-> <<1, 1>>,
   PolicyAuthorizeNV |-> <<3, 0>>, EncryptDecrypt2 |-> <<1, 0>>]

s_ccAttr ==
  s_ccAttr_NV_UndefineSpaceSpecial @@ s_ccAttr_ObjectChangeAuth @@ s_ccAttr_ReadClock

\* Which first parameters may be encrypted, and the role the handles are authorized for.
s_commandAttributes_NV_UndefineSpaceSpecial ==
  [NV_UndefineSpaceSpecial |-> {"HANDLE_1_ADMIN", "HANDLE_2_USER"},
   EvictControl |-> {"HANDLE_1_USER"}, HierarchyControl |-> {"HANDLE_1_USER"},
   NV_UndefineSpace |-> {"HANDLE_1_USER"}, ChangeEPS |-> {"HANDLE_1_USER"},
   ChangePPS |-> {"HANDLE_1_USER"}, Clear |-> {"HANDLE_1_USER"},
   ClearControl |-> {"HANDLE_1_USER"}, ClockSet |-> {"HANDLE_1_USER"},
   HierarchyChangeAuth |-> {"DECRYPT_2", "HANDLE_1_USER"}, NV_DefineSpace |-> {"DECRYPT_2",
   "HANDLE_1_USER"}, PCR_Allocate |-> {"HANDLE_1_USER"}, PCR_SetAuthPolicy |-> {"DECRYPT_2",
   "HANDLE_1_USER"}, PP_Commands |-> {"HANDLE_1_USER"}, SetPrimaryPolicy |-> {"DECRYPT_2",
   "HANDLE_1_USER"}, ClockRateAdjust |-> {"HANDLE_1_USER"}, CreatePrimary |-> {"DECRYPT_2",
   "HANDLE_1_USER", "ENCRYPT_2"}, NV_GlobalWriteLock |-> {"HANDLE_1_USER"},
   GetCommandAuditDigest |-> {"DECRYPT_2", "HANDLE_1_USER", "HANDLE_2_USER", "ENCRYPT_2"},
   NV_Increment |-> {"HANDLE_1_USER"}, NV_SetBits |-> {"HANDLE_1_USER"},
   NV_Extend |-> {"DECRYPT_2", "HANDLE_1_USER"}, NV_Write |-> {"DECRYPT_2", "HANDLE_1_USER"},
   NV_WriteLock |-> {"HANDLE_1_USER"}, DictionaryAttackLockReset |-> {"HANDLE_1_USER"},
   DictionaryAttackParameters |-> {"HANDLE_1_USER"}, NV_ChangeAuth |-> {"DECRYPT_2",
   "HANDLE_1_ADMIN"}, PCR_Event |-> {"DECRYPT_2", "HANDLE_1_USER"},
   PCR_Reset |-> {"HANDLE_1_USER"}, SequenceComplete |-> {"DECRYPT_2", "HANDLE_1_USER",
   "ENCRYPT_2"}, SetAlgorithmSet |-> {"HANDLE_1_USER"},
   SetCommandCodeAuditStatus |-> {"HANDLE_1_USER"}, IncrementalSelfTest |-> {}, SelfTest |-> {}]

s_commandAttributes_Startup ==
  [Startup |-> {}, Shutdown |-> {}, StirRandom |-> {"DECRYPT_2"},
   ActivateCredential |-> {"DECRYPT_2", "HANDLE_1_ADMIN", "HANDLE_2_USER", "ENCRYPT_2"},
   Certify |-> {"DECRYPT_2", "HANDLE_1_ADMIN", "HANDLE_2_USER", "ENCRYPT_2"},
   PolicyNV |-> {"DECRYPT_2", "HANDLE_1_USER"}, CertifyCreation |-> {"DECRYPT_2",
   "HANDLE_1_USER", "ENCRYPT_2"}, Duplicate |-> {"DECRYPT_2", "HANDLE_1_DUP", "ENCRYPT_2"},
   GetTime |-> {"DECRYPT_2", "HANDLE_1_USER", "HANDLE_2_USER", "ENCRYPT_2"},
   GetSessionAuditDigest |-> {"DECRYPT_2", "HANDLE_1_USER", "HANDLE_2_USER", "ENCRYPT_2"},
   NV_Read |-> {"HANDLE_1_USER", "ENCRYPT_2"}, NV_ReadLock |-> {"HANDLE_1_USER"},
   ObjectChangeAuth |-> {"DECRYPT_2", "HANDLE_1_ADMIN", "ENCRYPT_2"},
   PolicySecret |-> {"DECRYPT_2", "HANDLE_1_USER", "ENCRYPT_2"}, Rewrap |-> {"DECRYPT_2",
   "HANDLE_1_USER", "ENCRYPT_2"}, Create |-> {"DECRYPT_2", "HANDLE_1_USER", "ENCRYPT_2"},
   ECDH_ZGen |-> {"DECRYPT_2", "HANDLE_1_USER", "ENCRYPT_2"}, HMAC |-> {"DECRYPT_2",
   "HANDLE_1_USER", "ENCRYPT_2"}, Import |-> {"DECRYPT_2", "HANDLE_1_USER", "ENCRYPT_2"},
   Load |-> {"DECRYPT_2", "HANDLE_1_USER", "ENCRYPT_2"}, Quote |-> {"DECRYPT_2",
   "HANDLE_1_USER", "ENCRYPT_2"}, RSA_Decrypt |-> {"DECRYPT_2", "HANDLE_1_USER", "ENCRYPT_2"},
   HMAC_Start |-> {"DECRYPT_2", "HANDLE_1_USER"}, SequenceUpdate |-> {"DECRYPT_2",
   "HANDLE_1_USER"}, Sign |-> {"DECRYPT_2", "HANDLE_1_USER"}, Unseal |-> {"HANDLE_1_USER",
   "ENCRYPT_2"}, PolicySigned |-> {"DECRYPT_2", "ENCRYPT_2"}, ContextLoad |-> {},
   ContextSave |-> {}, ECDH_KeyGen |-> {"ENCRYPT_2"}, EncryptDecrypt |-> {"HANDLE_1_USER",
   "ENCRYPT_2"}, FlushContext |-> {}, LoadExternal |-> {"DECRYPT_2", "ENCRYPT_2"},
   MakeCredential |-> {"DECRYPT_2", "ENCRYPT_2"}]

s_commandAttributes_NV_ReadPublic ==
  [NV_ReadPublic |-> {"ENCRYPT_2"}, PolicyAuthorize |-> {"DECRYPT_2"}, PolicyAuthValue |-> {},
   PolicyCommandCode |-> {}, PolicyCounterTimer |-> {"DECRYPT_2"},
   PolicyCpHash |-> {"DECRYPT_2"}, PolicyLocality |-> {}, PolicyNameHash |-> {"DECRYPT_2"},
   PolicyOR |-> {}, PolicyTicket |-> {"DECRYPT_2"}, ReadPublic |-> {"ENCRYPT_2"},
   RSA_Encrypt |-> {"DECRYPT_2", "ENCRYPT_2"}, StartAuthSession |-> {"DECRYPT_2", "ENCRYPT_2"},
   VerifySignature |-> {"DECRYPT_2"}, ECC_Parameters |-> {}, GetCapability |-> {},
   GetRandom |-> {"ENCRYPT_2"}, GetTestResult |-> {"ENCRYPT_2"}, Hash |-> {"DECRYPT_2",
   "ENCRYPT_2"}, PCR_Read |-> {}, PolicyPCR |-> {"DECRYPT_2"}, PolicyRestart |-> {},
   ReadClock |-> {}, PCR_Extend |-> {"HANDLE_1_USER"}, PCR_SetAuthValue |-> {"DECRYPT_2",
   "HANDLE_1_USER"}, NV_Certify |-> {"DECRYPT_2", "HANDLE_1_USER", "HANDLE_2_USER",
   "ENCRYPT_2"}, EventSequenceComplete |-> {"DECRYPT_2", "HANDLE_1_USER", "HANDLE_2_USER"},
   HashSequenceStart |-> {"DECRYPT_2"}, PolicyPhysicalPresence |-> {},
   PolicyDuplicationSelect |-> {"DECRYPT_2"}, PolicyGetDigest |-> {"ENCRYPT_2"},
   TestParms |-> {}, Commit |-> {"DECRYPT_2", "HANDLE_1_USER", "ENCRYPT_2"},
   PolicyPassword |-> {}, ZGen_2Phase |-> {"DECRYPT_2", "HANDLE_1_USER", "ENCRYPT_2"}]

s_commandAttributes_EC_Ephemeral ==
  [EC_Ephemeral |-> {"ENCRYPT_2"}, PolicyNvWritten |-> {}, PolicyTemplate |-> {"DECRYPT_2"},
   CreateLoaded |-> {"DECRYPT_2", "HANDLE_1_USER", "ENCRYPT_2"},
   PolicyAuthorizeNV |-> {"HANDLE_1_USER"}, EncryptDecrypt2 |-> {"DECRYPT_2", "HANDLE_1_USER",
   "ENCRYPT_2"}]

s_commandAttributes ==
  s_commandAttributes_NV_UndefineSpaceSpecial @@ s_commandAttributes_Startup @@ s_commandAttributes_NV_ReadPublic @@ s_commandAttributes_EC_Ephemeral

getCommandHandleCount(command) == s_ccAttr[command][1]

getresponseHandleCount(command) == s_ccAttr[command][2]

\* The size of the size field of the first parameter, 0 if it cannot be encrypted.
getDecryptSize(command) ==
  IF "DECRYPT_2" \in s_commandAttributes[command] THEN 2
  ELSE IF "DECRYPT_4" \in s_commandAttributes[command] THEN 4 ELSE 0

getEncryptSize(command) ==
  IF "ENCRYPT_2" \in s_commandAttributes[command] THEN 2
  ELSE IF "ENCRYPT_4" \in s_commandAttributes[command] THEN 4 ELSE 0

getCommandAuthRole(command, handleIndex) ==
  CASE handleIndex = 0 /\ "HANDLE_1_USER" \in s_commandAttributes[command] -> "AUTH_USER"
    [] handleIndex = 0 /\ "HANDLE_1_ADMIN" \in s_commandAttributes[command] -> "AUTH_ADMIN"
    [] handleIndex = 0 /\ "HANDLE_1_DUP" \in s_commandAttributes[command] -> "AUTH_DUP"
    [] handleIndex = 1 /\ "HANDLE_2_USER" \in s_commandAttributes[command] -> "AUTH_USER"
    [] OTHER -> "AUTH_NONE"

====================================================================================
