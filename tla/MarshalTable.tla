------------------------------- MODULE MarshalTable -------------------------------
(*****************************************************************************)
(* The table of tssauth.c: for each command the function that marshals its   *)
(* input, the one that unmarshals its response, and the one that checks the  *)
(* marshaled input.                                                          *)
(*****************************************************************************)
EXTENDS TssInMarshal, TssOutUnmarshal, Commands

NULL == [kind |-> "null"]

Functions(marshalIn, unmarshalOut, unmarshalIn) ==
  [marshalIn |-> marshalIn, unmarshalOut |-> unmarshalOut, unmarshalIn |-> unmarshalIn]

marshalTable_Startup ==
  [Startup |-> Functions(TSS_Startup_In_Marshal, NULL, Startup_In_Unmarshal),
   Shutdown |-> Functions(TSS_Shutdown_In_Marshal, NULL, Shutdown_In_Unmarshal),
   SelfTest |-> Functions(TSS_SelfTest_In_Marshal, NULL, SelfTest_In_Unmarshal),
   IncrementalSelfTest |-> Functions(TSS_IncrementalSelfTest_In_Marshal,
   TSS_IncrementalSelfTest_Out_Unmarshal, IncrementalSelfTest_In_Unmarshal),
   GetTestResult |-> Functions(NULL, TSS_GetTestResult_Out_Unmarshal, NULL),
   StartAuthSession |-> Functions(TSS_StartAuthSession_In_Marshal,
   TSS_StartAuthSession_Out_Unmarshal, StartAuthSession_In_Unmarshal),
   PolicyRestart |-> Functions(TSS_PolicyRestart_In_Marshal, NULL, PolicyRestart_In_Unmarshal),
   Create |-> Functions(TSS_Create_In_Marshal, TSS_Create_Out_Unmarshal, Create_In_Unmarshal),
   Load |-> Functions(TSS_Load_In_Marshal, TSS_Load_Out_Unmarshal, Load_In_Unmarshal),
   LoadExternal |-> Functions(TSS_LoadExternal_In_Marshal, TSS_LoadExternal_Out_Unmarshal,
   LoadExternal_In_Unmarshal), ReadPublic |-> Functions(TSS_ReadPublic_In_Marshal,
   TSS_ReadPublic_Out_Unmarshal, ReadPublic_In_Unmarshal),
   ActivateCredential |-> Functions(TSS_ActivateCredential_In_Marshal,
   TSS_ActivateCredential_Out_Unmarshal, ActivateCredential_In_Unmarshal),
   MakeCredential |-> Functions(TSS_MakeCredential_In_Marshal, TSS_MakeCredential_Out_Unmarshal,
   MakeCredential_In_Unmarshal), Unseal |-> Functions(TSS_Unseal_In_Marshal,
   TSS_Unseal_Out_Unmarshal, Unseal_In_Unmarshal),
   ObjectChangeAuth |-> Functions(TSS_ObjectChangeAuth_In_Marshal,
   TSS_ObjectChangeAuth_Out_Unmarshal, ObjectChangeAuth_In_Unmarshal),
   CreateLoaded |-> Functions(TSS_CreateLoaded_In_Marshal, TSS_CreateLoaded_Out_Unmarshal,
   CreateLoaded_In_Unmarshal), Duplicate |-> Functions(TSS_Duplicate_In_Marshal,
   TSS_Duplicate_Out_Unmarshal, Duplicate_In_Unmarshal),
   Rewrap |-> Functions(TSS_Rewrap_In_Marshal, TSS_Rewrap_Out_Unmarshal, Rewrap_In_Unmarshal),
   Import |-> Functions(TSS_Import_In_Marshal, TSS_Import_Out_Unmarshal, Import_In_Unmarshal),
   RSA_Encrypt |-> Functions(TSS_RSA_Encrypt_In_Marshal, TSS_RSA_Encrypt_Out_Unmarshal,
   RSA_Encrypt_In_Unmarshal), RSA_Decrypt |-> Functions(TSS_RSA_Decrypt_In_Marshal,
   TSS_RSA_Decrypt_Out_Unmarshal, RSA_Decrypt_In_Unmarshal),
   ECDH_KeyGen |-> Functions(TSS_ECDH_KeyGen_In_Marshal, TSS_ECDH_KeyGen_Out_Unmarshal,
   ECDH_KeyGen_In_Unmarshal), ECDH_ZGen |-> Functions(TSS_ECDH_ZGen_In_Marshal,
   TSS_ECDH_ZGen_Out_Unmarshal, ECDH_ZGen_In_Unmarshal),
   ECC_Parameters |-> Functions(TSS_ECC_Parameters_In_Marshal, TSS_ECC_Parameters_Out_Unmarshal,
   ECC_Parameters_In_Unmarshal), ZGen_2Phase |-> Functions(TSS_ZGen_2Phase_In_Marshal,
   TSS_ZGen_2Phase_Out_Unmarshal, ZGen_2Phase_In_Unmarshal),
   EncryptDecrypt |-> Functions(TSS_EncryptDecrypt_In_Marshal, TSS_EncryptDecrypt_Out_Unmarshal,
   EncryptDecrypt_In_Unmarshal), EncryptDecrypt2 |-> Functions(TSS_EncryptDecrypt2_In_Marshal,
   TSS_EncryptDecrypt2_Out_Unmarshal, EncryptDecrypt2_In_Unmarshal),
   Hash |-> Functions(TSS_Hash_In_Marshal, TSS_Hash_Out_Unmarshal, Hash_In_Unmarshal),
   HMAC |-> Functions(TSS_HMAC_In_Marshal, TSS_HMAC_Out_Unmarshal, HMAC_In_Unmarshal)]

marshalTable_GetRandom ==
  [GetRandom |-> Functions(TSS_GetRandom_In_Marshal, TSS_GetRandom_Out_Unmarshal,
   GetRandom_In_Unmarshal), StirRandom |-> Functions(TSS_StirRandom_In_Marshal, NULL,
   StirRandom_In_Unmarshal), HMAC_Start |-> Functions(TSS_HMAC_Start_In_Marshal,
   TSS_HMAC_Start_Out_Unmarshal, HMAC_Start_In_Unmarshal),
   HashSequenceStart |-> Functions(TSS_HashSequenceStart_In_Marshal,
   TSS_HashSequenceStart_Out_Unmarshal, HashSequenceStart_In_Unmarshal),
   SequenceUpdate |-> Functions(TSS_SequenceUpdate_In_Marshal, NULL,
   SequenceUpdate_In_Unmarshal), SequenceComplete |-> Functions(TSS_SequenceComplete_In_Marshal,
   TSS_SequenceComplete_Out_Unmarshal, SequenceComplete_In_Unmarshal),
   EventSequenceComplete |-> Functions(TSS_EventSequenceComplete_In_Marshal,
   TSS_EventSequenceComplete_Out_Unmarshal, EventSequenceComplete_In_Unmarshal),
   Certify |-> Functions(TSS_Certify_In_Marshal, TSS_Certify_Out_Unmarshal,
   Certify_In_Unmarshal), CertifyCreation |-> Functions(TSS_CertifyCreation_In_Marshal,
   TSS_CertifyCreation_Out_Unmarshal, CertifyCreation_In_Unmarshal),
   Quote |-> Functions(TSS_Quote_In_Marshal, TSS_Quote_Out_Unmarshal, Quote_In_Unmarshal),
   GetSessionAuditDigest |-> Functions(TSS_GetSessionAuditDigest_In_Marshal,
   TSS_GetSessionAuditDigest_Out_Unmarshal, GetSessionAuditDigest_In_Unmarshal),
   GetCommandAuditDigest |-> Functions(TSS_GetCommandAuditDigest_In_Marshal,
   TSS_GetCommandAuditDigest_Out_Unmarshal, GetCommandAuditDigest_In_Unmarshal),
   GetTime |-> Functions(TSS_GetTime_In_Marshal, TSS_GetTime_Out_Unmarshal,
   GetTime_In_Unmarshal), Commit |-> Functions(TSS_Commit_In_Marshal, TSS_Commit_Out_Unmarshal,
   Commit_In_Unmarshal), EC_Ephemeral |-> Functions(TSS_EC_Ephemeral_In_Marshal,
   TSS_EC_Ephemeral_Out_Unmarshal, EC_Ephemeral_In_Unmarshal),
   VerifySignature |-> Functions(TSS_VerifySignature_In_Marshal,
   TSS_VerifySignature_Out_Unmarshal, VerifySignature_In_Unmarshal),
   Sign |-> Functions(TSS_Sign_In_Marshal, TSS_Sign_Out_Unmarshal, Sign_In_Unmarshal),
   SetCommandCodeAuditStatus |-> Functions(TSS_SetCommandCodeAuditStatus_In_Marshal, NULL,
   SetCommandCodeAuditStatus_In_Unmarshal), PCR_Extend |-> Functions(TSS_PCR_Extend_In_Marshal,
   NULL, PCR_Extend_In_Unmarshal), PCR_Event |-> Functions(TSS_PCR_Event_In_Marshal,
   TSS_PCR_Event_Out_Unmarshal, PCR_Event_In_Unmarshal),
   PCR_Read |-> Functions(TSS_PCR_Read_In_Marshal, TSS_PCR_Read_Out_Unmarshal,
   PCR_Read_In_Unmarshal), PCR_Allocate |-> Functions(TSS_PCR_Allocate_In_Marshal,
   TSS_PCR_Allocate_Out_Unmarshal, PCR_Allocate_In_Unmarshal),
   PCR_SetAuthPolicy |-> Functions(TSS_PCR_SetAuthPolicy_In_Marshal, NULL,
   PCR_SetAuthPolicy_In_Unmarshal),
   PCR_SetAuthValue |-> Functions(TSS_PCR_SetAuthValue_In_Marshal, NULL,
   PCR_SetAuthValue_In_Unmarshal), PCR_Reset |-> Functions(TSS_PCR_Reset_In_Marshal, NULL,
   PCR_Reset_In_Unmarshal), PolicySigned |-> Functions(TSS_PolicySigned_In_Marshal,
   TSS_PolicySigned_Out_Unmarshal, PolicySigned_In_Unmarshal),
   PolicySecret |-> Functions(TSS_PolicySecret_In_Marshal, TSS_PolicySecret_Out_Unmarshal,
   PolicySecret_In_Unmarshal), PolicyTicket |-> Functions(TSS_PolicyTicket_In_Marshal, NULL,
   PolicyTicket_In_Unmarshal), PolicyOR |-> Functions(TSS_PolicyOR_In_Marshal, NULL,
   PolicyOR_In_Unmarshal)]

marshalTable_PolicyPCR ==
  [PolicyPCR |-> Functions(TSS_PolicyPCR_In_Marshal, NULL, PolicyPCR_In_Unmarshal),
   PolicyLocality |-> Functions(TSS_PolicyLocality_In_Marshal, NULL,
   PolicyLocality_In_Unmarshal), PolicyNV |-> Functions(TSS_PolicyNV_In_Marshal, NULL,
   PolicyNV_In_Unmarshal), PolicyAuthorizeNV |-> Functions(TSS_PolicyAuthorizeNV_In_Marshal,
   NULL, PolicyAuthorizeNV_In_Unmarshal),
   PolicyCounterTimer |-> Functions(TSS_PolicyCounterTimer_In_Marshal, NULL,
   PolicyCounterTimer_In_Unmarshal),
   PolicyCommandCode |-> Functions(TSS_PolicyCommandCode_In_Marshal, NULL,
   PolicyCommandCode_In_Unmarshal),
   PolicyPhysicalPresence |-> Functions(TSS_PolicyPhysicalPresence_In_Marshal, NULL,
   PolicyPhysicalPresence_In_Unmarshal), PolicyCpHash |-> Functions(TSS_PolicyCpHash_In_Marshal,
   NULL, PolicyCpHash_In_Unmarshal), PolicyNameHash |-> Functions(TSS_PolicyNameHash_In_Marshal,
   NULL, PolicyNameHash_In_Unmarshal),
   PolicyDuplicationSelect |-> Functions(TSS_PolicyDuplicationSelect_In_Marshal, NULL,
   PolicyDuplicationSelect_In_Unmarshal),
   PolicyAuthorize |-> Functions(TSS_PolicyAuthorize_In_Marshal, NULL,
   PolicyAuthorize_In_Unmarshal), PolicyAuthValue |-> Functions(TSS_PolicyAuthValue_In_Marshal,
   NULL, PolicyAuthValue_In_Unmarshal),
   PolicyPassword |-> Functions(TSS_PolicyPassword_In_Marshal, NULL,
   PolicyPassword_In_Unmarshal), PolicyGetDigest |-> Functions(TSS_PolicyGetDigest_In_Marshal,
   TSS_PolicyGetDigest_Out_Unmarshal, PolicyGetDigest_In_Unmarshal),
   PolicyNvWritten |-> Functions(TSS_PolicyNvWritten_In_Marshal, NULL,
   PolicyNvWritten_In_Unmarshal), PolicyTemplate |-> Functions(TSS_PolicyTemplate_In_Marshal,
   NULL, PolicyTemplate_In_Unmarshal), CreatePrimary |-> Functions(TSS_CreatePrimary_In_Marshal,
   TSS_CreatePrimary_Out_Unmarshal, CreatePrimary_In_Unmarshal),
   HierarchyControl |-> Functions(TSS_HierarchyControl_In_Marshal, NULL,
   HierarchyControl_In_Unmarshal),
   SetPrimaryPolicy |-> Functions(TSS_SetPrimaryPolicy_In_Marshal, NULL,
   SetPrimaryPolicy_In_Unmarshal), ChangePPS |-> Functions(TSS_ChangePPS_In_Marshal, NULL,
   ChangePPS_In_Unmarshal), ChangeEPS |-> Functions(TSS_ChangeEPS_In_Marshal, NULL,
   ChangeEPS_In_Unmarshal), Clear |-> Functions(TSS_Clear_In_Marshal, NULL, Clear_In_Unmarshal),
   ClearControl |-> Functions(TSS_ClearControl_In_Marshal, NULL, ClearControl_In_Unmarshal),
   HierarchyChangeAuth |-> Functions(TSS_HierarchyChangeAuth_In_Marshal, NULL,
   HierarchyChangeAuth_In_Unmarshal),
   DictionaryAttackLockReset |-> Functions(TSS_DictionaryAttackLockReset_In_Marshal, NULL,
   DictionaryAttackLockReset_In_Unmarshal),
   DictionaryAttackParameters |-> Functions(TSS_DictionaryAttackParameters_In_Marshal, NULL,
   DictionaryAttackParameters_In_Unmarshal),
   PP_Commands |-> Functions(TSS_PP_Commands_In_Marshal, NULL, PP_Commands_In_Unmarshal),
   SetAlgorithmSet |-> Functions(TSS_SetAlgorithmSet_In_Marshal, NULL,
   SetAlgorithmSet_In_Unmarshal), ContextSave |-> Functions(TSS_ContextSave_In_Marshal,
   TSS_ContextSave_Out_Unmarshal, ContextSave_In_Unmarshal)]

marshalTable_ContextLoad ==
  [ContextLoad |-> Functions(TSS_ContextLoad_In_Marshal, TSS_ContextLoad_Out_Unmarshal,
   ContextLoad_In_Unmarshal), FlushContext |-> Functions(TSS_FlushContext_In_Marshal, NULL,
   FlushContext_In_Unmarshal), EvictControl |-> Functions(TSS_EvictControl_In_Marshal, NULL,
   EvictControl_In_Unmarshal), ReadClock |-> Functions(NULL, TSS_ReadClock_Out_Unmarshal, NULL),
   ClockSet |-> Functions(TSS_ClockSet_In_Marshal, NULL, ClockSet_In_Unmarshal),
   ClockRateAdjust |-> Functions(TSS_ClockRateAdjust_In_Marshal, NULL,
   ClockRateAdjust_In_Unmarshal), GetCapability |-> Functions(TSS_GetCapability_In_Marshal,
   TSS_GetCapability_Out_Unmarshal, GetCapability_In_Unmarshal),
   TestParms |-> Functions(TSS_TestParms_In_Marshal, NULL, TestParms_In_Unmarshal),
   NV_DefineSpace |-> Functions(TSS_NV_DefineSpace_In_Marshal, NULL,
   NV_DefineSpace_In_Unmarshal), NV_UndefineSpace |-> Functions(TSS_NV_UndefineSpace_In_Marshal,
   NULL, NV_UndefineSpace_In_Unmarshal),
   NV_UndefineSpaceSpecial |-> Functions(TSS_NV_UndefineSpaceSpecial_In_Marshal, NULL,
   NV_UndefineSpaceSpecial_In_Unmarshal),
   NV_ReadPublic |-> Functions(TSS_NV_ReadPublic_In_Marshal, TSS_NV_ReadPublic_Out_Unmarshal,
   NV_ReadPublic_In_Unmarshal), NV_Write |-> Functions(TSS_NV_Write_In_Marshal, NULL,
   NV_Write_In_Unmarshal), NV_Increment |-> Functions(TSS_NV_Increment_In_Marshal, NULL,
   NV_Increment_In_Unmarshal), NV_Extend |-> Functions(TSS_NV_Extend_In_Marshal, NULL,
   NV_Extend_In_Unmarshal), NV_SetBits |-> Functions(TSS_NV_SetBits_In_Marshal, NULL,
   NV_SetBits_In_Unmarshal), NV_WriteLock |-> Functions(TSS_NV_WriteLock_In_Marshal, NULL,
   NV_WriteLock_In_Unmarshal),
   NV_GlobalWriteLock |-> Functions(TSS_NV_GlobalWriteLock_In_Marshal, NULL,
   NV_GlobalWriteLock_In_Unmarshal), NV_Read |-> Functions(TSS_NV_Read_In_Marshal,
   TSS_NV_Read_Out_Unmarshal, NV_Read_In_Unmarshal),
   NV_ReadLock |-> Functions(TSS_NV_ReadLock_In_Marshal, NULL, NV_ReadLock_In_Unmarshal),
   NV_ChangeAuth |-> Functions(TSS_NV_ChangeAuth_In_Marshal, NULL, NV_ChangeAuth_In_Unmarshal),
   NV_Certify |-> Functions(TSS_NV_Certify_In_Marshal, TSS_NV_Certify_Out_Unmarshal,
   NV_Certify_In_Unmarshal)]

marshalTable ==
  marshalTable_Startup @@ marshalTable_GetRandom @@ marshalTable_PolicyPCR @@ marshalTable_ContextLoad

===================================================================================
