------------------------------- MODULE TssInMarshal -------------------------------
(*****************************************************************************)
(* The part of tssmarshal.c that marshals the handles and the parameters of  *)
(* each command.                                                             *)
(*****************************************************************************)
EXTENDS TssMarshal

TSS_Startup_In_Marshal == Struct(<<<<"startupType", TSS_TPM_SU_Marshal>>>>)
TSS_Shutdown_In_Marshal == Struct(<<<<"shutdownType", TSS_TPM_SU_Marshal>>>>)
TSS_SelfTest_In_Marshal == Struct(<<<<"fullTest", TSS_TPMI_YES_NO_Marshal>>>>)
TSS_IncrementalSelfTest_In_Marshal == Struct(<<<<"toTest", TSS_TPML_ALG_Marshal>>>>)

TSS_StartAuthSession_In_Marshal == Struct(<<
    <<"tpmKey", TSS_TPMI_DH_OBJECT_Marshal>>,
    <<"bind", TSS_TPMI_DH_ENTITY_Marshal>>,
    <<"nonceCaller", TSS_TPM2B_NONCE_Marshal>>,
    <<"encryptedSalt", TSS_TPM2B_ENCRYPTED_SECRET_Marshal>>,
    <<"sessionType", TSS_TPM_SE_Marshal>>,
    <<"symmetric", TSS_TPMT_SYM_DEF_Marshal>>,
    <<"authHash", TSS_TPMI_ALG_HASH_Marshal>>>>)

TSS_PolicyRestart_In_Marshal == Struct(<<<<"sessionHandle", TSS_TPMI_SH_POLICY_Marshal>>>>)

\* A mutant: the last parameter is forgotten.
TSS_Create_In_Marshal_NoCreationPCR == Struct(<<
    <<"parentHandle", TSS_TPMI_DH_OBJECT_Marshal>>,
    <<"inSensitive", TSS_TPM2B_SENSITIVE_CREATE_Marshal>>,
    <<"inPublic", TSS_TPM2B_PUBLIC_Marshal>>,
    <<"outsideInfo", TSS_TPM2B_DATA_Marshal>>>>)

TSS_Create_In_Marshal == Struct(<<
    <<"parentHandle", TSS_TPMI_DH_OBJECT_Marshal>>,
    <<"inSensitive", TSS_TPM2B_SENSITIVE_CREATE_Marshal>>,
    <<"inPublic", TSS_TPM2B_PUBLIC_Marshal>>,
    <<"outsideInfo", TSS_TPM2B_DATA_Marshal>>,
    <<"creationPCR", TSS_TPML_PCR_SELECTION_Marshal>>>>)

TSS_Load_In_Marshal == Struct(<<
    <<"parentHandle", TSS_TPMI_DH_OBJECT_Marshal>>,
    <<"inPrivate", TSS_TPM2B_PRIVATE_Marshal>>,
    <<"inPublic", TSS_TPM2B_PUBLIC_Marshal>>>>)

TSS_LoadExternal_In_Marshal == Struct(<<
    <<"inPrivate", Optional(TSS_TPM2B_SENSITIVE_Marshal)>>,
    <<"inPublic", TSS_TPM2B_PUBLIC_Marshal>>,
    <<"hierarchy", TSS_TPMI_RH_HIERARCHY_Marshal>>>>)

TSS_ReadPublic_In_Marshal == Struct(<<<<"objectHandle", TSS_TPMI_DH_OBJECT_Marshal>>>>)

TSS_ActivateCredential_In_Marshal == Struct(<<
    <<"activateHandle", TSS_TPMI_DH_OBJECT_Marshal>>,
    <<"keyHandle", TSS_TPMI_DH_OBJECT_Marshal>>,
    <<"credentialBlob", TSS_TPM2B_ID_OBJECT_Marshal>>,
    <<"secret", TSS_TPM2B_ENCRYPTED_SECRET_Marshal>>>>)

TSS_MakeCredential_In_Marshal == Struct(<<
    <<"handle", TSS_TPMI_DH_OBJECT_Marshal>>,
    <<"credential", TSS_TPM2B_DIGEST_Marshal>>,
    <<"objectName", TSS_TPM2B_NAME_Marshal>>>>)

TSS_Unseal_In_Marshal == Struct(<<<<"itemHandle", TSS_TPMI_DH_OBJECT_Marshal>>>>)

TSS_ObjectChangeAuth_In_Marshal == Struct(<<
    <<"objectHandle", TSS_TPMI_DH_OBJECT_Marshal>>,
    <<"parentHandle", TSS_TPMI_DH_OBJECT_Marshal>>,
    <<"newAuth", TSS_TPM2B_AUTH_Marshal>>>>)

TSS_CreateLoaded_In_Marshal == Struct(<<
    <<"parentHandle", TSS_TPMI_DH_OBJECT_Marshal>>,
    <<"inSensitive", TSS_TPM2B_SENSITIVE_CREATE_Marshal>>,
    <<"inPublic", TSS_TPM2B_TEMPLATE_Marshal>>>>)

TSS_Duplicate_In_Marshal == Struct(<<
    <<"objectHandle", TSS_TPMI_DH_OBJECT_Marshal>>,
    <<"newParentHandle", TSS_TPMI_DH_OBJECT_Marshal>>,
    <<"encryptionKeyIn", TSS_TPM2B_DATA_Marshal>>,
    <<"symmetricAlg", TSS_TPMT_SYM_DEF_OBJECT_Marshal>>>>)

TSS_Rewrap_In_Marshal == Struct(<<
    <<"oldParent", TSS_TPMI_DH_OBJECT_Marshal>>,
    <<"newParent", TSS_TPMI_DH_OBJECT_Marshal>>,
    <<"inDuplicate", TSS_TPM2B_PRIVATE_Marshal>>,
    <<"name", TSS_TPM2B_NAME_Marshal>>,
    <<"inSymSeed", TSS_TPM2B_ENCRYPTED_SECRET_Marshal>>>>)

TSS_Import_In_Marshal == Struct(<<
    <<"parentHandle", TSS_TPMI_DH_OBJECT_Marshal>>,
    <<"encryptionKey", TSS_TPM2B_DATA_Marshal>>,
    <<"objectPublic", TSS_TPM2B_PUBLIC_Marshal>>,
    <<"duplicate", TSS_TPM2B_PRIVATE_Marshal>>,
    <<"inSymSeed", TSS_TPM2B_ENCRYPTED_SECRET_Marshal>>,
    <<"symmetricAlg", TSS_TPMT_SYM_DEF_OBJECT_Marshal>>>>)

TSS_RSA_Encrypt_In_Marshal == Struct(<<
    <<"keyHandle", TSS_TPMI_DH_OBJECT_Marshal>>,
    <<"message", TSS_TPM2B_PUBLIC_KEY_RSA_Marshal>>,
    <<"inScheme", TSS_TPMT_RSA_DECRYPT_Marshal>>,
    <<"label", TSS_TPM2B_DATA_Marshal>>>>)

TSS_RSA_Decrypt_In_Marshal == Struct(<<
    <<"keyHandle", TSS_TPMI_DH_OBJECT_Marshal>>,
    <<"cipherText", TSS_TPM2B_PUBLIC_KEY_RSA_Marshal>>,
    <<"inScheme", TSS_TPMT_RSA_DECRYPT_Marshal>>,
    <<"label", TSS_TPM2B_DATA_Marshal>>>>)

TSS_ECDH_KeyGen_In_Marshal == Struct(<<<<"keyHandle", TSS_TPMI_DH_OBJECT_Marshal>>>>)

TSS_ECDH_ZGen_In_Marshal == Struct(<<
    <<"keyHandle", TSS_TPMI_DH_OBJECT_Marshal>>,
    <<"inPoint", TSS_TPM2B_ECC_POINT_Marshal>>>>)

TSS_ECC_Parameters_In_Marshal == Struct(<<<<"curveID", TSS_TPMI_ECC_CURVE_Marshal>>>>)

TSS_ZGen_2Phase_In_Marshal == Struct(<<
    <<"keyA", TSS_TPMI_DH_OBJECT_Marshal>>,
    <<"inQsB", TSS_TPM2B_ECC_POINT_Marshal>>,
    <<"inQeB", TSS_TPM2B_ECC_POINT_Marshal>>,
    <<"inScheme", TSS_TPMI_ECC_KEY_EXCHANGE_Marshal>>,
    <<"counter", TSS_UINT16_Marshal>>>>)

TSS_EncryptDecrypt_In_Marshal == Struct(<<
    <<"keyHandle", TSS_TPMI_DH_OBJECT_Marshal>>,
    <<"decrypt", TSS_TPMI_YES_NO_Marshal>>,
    <<"mode", TSS_TPMI_ALG_SYM_MODE_Marshal>>,
    <<"ivIn", TSS_TPM2B_IV_Marshal>>,
    <<"inData", TSS_TPM2B_MAX_BUFFER_Marshal>>>>)

TSS_EncryptDecrypt2_In_Marshal == Struct(<<
    <<"keyHandle", TSS_TPMI_DH_OBJECT_Marshal>>,
    <<"inData", TSS_TPM2B_MAX_BUFFER_Marshal>>,
    <<"decrypt", TSS_TPMI_YES_NO_Marshal>>,
    <<"mode", TSS_TPMI_ALG_SYM_MODE_Marshal>>,
    <<"ivIn", TSS_TPM2B_IV_Marshal>>>>)

TSS_Hash_In_Marshal == Struct(<<
    <<"data", TSS_TPM2B_MAX_BUFFER_Marshal>>,
    <<"hashAlg", TSS_TPMI_ALG_HASH_Marshal>>,
    <<"hierarchy", TSS_TPMI_RH_HIERARCHY_Marshal>>>>)

TSS_HMAC_In_Marshal == Struct(<<
    <<"handle", TSS_TPMI_DH_OBJECT_Marshal>>,
    <<"buffer", TSS_TPM2B_MAX_BUFFER_Marshal>>,
    <<"hashAlg", TSS_TPMI_ALG_HASH_Marshal>>>>)

TSS_GetRandom_In_Marshal == Struct(<<<<"bytesRequested", TSS_UINT16_Marshal>>>>)
TSS_StirRandom_In_Marshal == Struct(<<<<"inData", TSS_TPM2B_SENSITIVE_DATA_Marshal>>>>)

TSS_HMAC_Start_In_Marshal == Struct(<<
    <<"handle", TSS_TPMI_DH_OBJECT_Marshal>>,
    <<"auth", TSS_TPM2B_AUTH_Marshal>>,
    <<"hashAlg", TSS_TPMI_ALG_HASH_Marshal>>>>)

TSS_HashSequenceStart_In_Marshal == Struct(<<
    <<"auth", TSS_TPM2B_AUTH_Marshal>>,
    <<"hashAlg", TSS_TPMI_ALG_HASH_Marshal>>>>)

TSS_SequenceUpdate_In_Marshal == Struct(<<
    <<"sequenceHandle", TSS_TPMI_DH_OBJECT_Marshal>>,
    <<"buffer", TSS_TPM2B_MAX_BUFFER_Marshal>>>>)

TSS_SequenceComplete_In_Marshal == Struct(<<
    <<"sequenceHandle", TSS_TPMI_DH_OBJECT_Marshal>>,
    <<"buffer", TSS_TPM2B_MAX_BUFFER_Marshal>>,
    <<"hierarchy", TSS_TPMI_RH_HIERARCHY_Marshal>>>>)

TSS_EventSequenceComplete_In_Marshal == Struct(<<
    <<"pcrHandle", TSS_TPMI_DH_PCR_Marshal>>,
    <<"sequenceHandle", TSS_TPMI_DH_OBJECT_Marshal>>,
    <<"buffer", TSS_TPM2B_MAX_BUFFER_Marshal>>>>)

TSS_Certify_In_Marshal == Struct(<<
    <<"objectHandle", TSS_TPMI_DH_OBJECT_Marshal>>,
    <<"signHandle", TSS_TPMI_DH_OBJECT_Marshal>>,
    <<"qualifyingData", TSS_TPM2B_DATA_Marshal>>,
    <<"inScheme", TSS_TPMT_SIG_SCHEME_Marshal>>>>)

TSS_CertifyCreation_In_Marshal == Struct(<<
    <<"signHandle", TSS_TPMI_DH_OBJECT_Marshal>>,
    <<"objectHandle", TSS_TPMI_DH_OBJECT_Marshal>>,
    <<"qualifyingData", TSS_TPM2B_DATA_Marshal>>,
    <<"creationHash", TSS_TPM2B_DIGEST_Marshal>>,
    <<"inScheme", TSS_TPMT_SIG_SCHEME_Marshal>>,
    <<"creationTicket", TSS_TPMT_TK_CREATION_Marshal>>>>)

TSS_Quote_In_Marshal == Struct(<<
    <<"signHandle", TSS_TPMI_DH_OBJECT_Marshal>>,
    <<"qualifyingData", TSS_TPM2B_DATA_Marshal>>,
    <<"inScheme", TSS_TPMT_SIG_SCHEME_Marshal>>,
    <<"PCRselect", TSS_TPML_PCR_SELECTION_Marshal>>>>)

TSS_GetSessionAuditDigest_In_Marshal == Struct(<<
    <<"privacyAdminHandle", TSS_TPMI_RH_ENDORSEMENT_Marshal>>,
    <<"signHandle", TSS_TPMI_DH_OBJECT_Marshal>>,
    <<"sessionHandle", TSS_TPMI_SH_HMAC_Marshal>>,
    <<"qualifyingData", TSS_TPM2B_DATA_Marshal>>,
    <<"inScheme", TSS_TPMT_SIG_SCHEME_Marshal>>>>)

TSS_GetCommandAuditDigest_In_Marshal == Struct(<<
    <<"privacyHandle", TSS_TPMI_RH_ENDORSEMENT_Marshal>>,
    <<"signHandle", TSS_TPMI_DH_OBJECT_Marshal>>,
    <<"qualifyingData", TSS_TPM2B_DATA_Marshal>>,
    <<"inScheme", TSS_TPMT_SIG_SCHEME_Marshal>>>>)

TSS_GetTime_In_Marshal == Struct(<<
    <<"privacyAdminHandle", TSS_TPMI_RH_ENDORSEMENT_Marshal>>,
    <<"signHandle", TSS_TPMI_DH_OBJECT_Marshal>>,
    <<"qualifyingData", TSS_TPM2B_DATA_Marshal>>,
    <<"inScheme", TSS_TPMT_SIG_SCHEME_Marshal>>>>)

TSS_Commit_In_Marshal == Struct(<<
    <<"signHandle", TSS_TPMI_DH_OBJECT_Marshal>>,
    <<"P1", TSS_TPM2B_ECC_POINT_Marshal>>,
    <<"s2", TSS_TPM2B_SENSITIVE_DATA_Marshal>>,
    <<"y2", TSS_TPM2B_ECC_PARAMETER_Marshal>>>>)

TSS_EC_Ephemeral_In_Marshal == Struct(<<<<"curveID", TSS_TPMI_ECC_CURVE_Marshal>>>>)

TSS_VerifySignature_In_Marshal == Struct(<<
    <<"keyHandle", TSS_TPMI_DH_OBJECT_Marshal>>,
    <<"digest", TSS_TPM2B_DIGEST_Marshal>>,
    <<"signature", TSS_TPMT_SIGNATURE_Marshal>>>>)

TSS_Sign_In_Marshal == Struct(<<
    <<"keyHandle", TSS_TPMI_DH_OBJECT_Marshal>>,
    <<"digest", TSS_TPM2B_DIGEST_Marshal>>,
    <<"inScheme", TSS_TPMT_SIG_SCHEME_Marshal>>,
    <<"validation", TSS_TPMT_TK_HASHCHECK_Marshal>>>>)

TSS_SetCommandCodeAuditStatus_In_Marshal == Struct(<<
    <<"auth", TSS_TPMI_RH_PROVISION_Marshal>>,
    <<"auditAlg", TSS_TPMI_ALG_HASH_Marshal>>,
    <<"setList", TSS_TPML_CC_Marshal>>,
    <<"clearList", TSS_TPML_CC_Marshal>>>>)

TSS_PCR_Extend_In_Marshal == Struct(<<
    <<"pcrHandle", TSS_TPMI_DH_PCR_Marshal>>,
    <<"digests", TSS_TPML_DIGEST_VALUES_Marshal>>>>)

TSS_PCR_Event_In_Marshal == Struct(<<
    <<"pcrHandle", TSS_TPMI_DH_PCR_Marshal>>,
    <<"eventData", TSS_TPM2B_EVENT_Marshal>>>>)

TSS_PCR_Read_In_Marshal == Struct(<<<<"pcrSelectionIn", TSS_TPML_PCR_SELECTION_Marshal>>>>)

TSS_PCR_Allocate_In_Marshal == Struct(<<
    <<"authHandle", TSS_TPMI_RH_PLATFORM_Marshal>>,
    <<"pcrAllocation", TSS_TPML_PCR_SELECTION_Marshal>>>>)

TSS_PCR_SetAuthPolicy_In_Marshal == Struct(<<
    <<"authHandle", TSS_TPMI_RH_PLATFORM_Marshal>>,
    <<"authPolicy", TSS_TPM2B_DIGEST_Marshal>>,
    <<"hashAlg", TSS_TPMI_ALG_HASH_Marshal>>,
    <<"pcrNum", TSS_TPMI_DH_PCR_Marshal>>>>)

TSS_PCR_SetAuthValue_In_Marshal == Struct(<<
    <<"pcrHandle", TSS_TPMI_DH_PCR_Marshal>>,
    <<"auth", TSS_TPM2B_DIGEST_Marshal>>>>)

TSS_PCR_Reset_In_Marshal == Struct(<<<<"pcrHandle", TSS_TPMI_DH_PCR_Marshal>>>>)

TSS_PolicySigned_In_Marshal == Struct(<<
    <<"authObject", TSS_TPMI_DH_OBJECT_Marshal>>,
    <<"policySession", TSS_TPMI_SH_POLICY_Marshal>>,
    <<"nonceTPM", TSS_TPM2B_NONCE_Marshal>>,
    <<"cpHashA", TSS_TPM2B_DIGEST_Marshal>>,
    <<"policyRef", TSS_TPM2B_NONCE_Marshal>>,
    <<"expiration", TSS_INT32_Marshal>>,
    <<"auth", TSS_TPMT_SIGNATURE_Marshal>>>>)

TSS_PolicySecret_In_Marshal == Struct(<<
    <<"authHandle", TSS_TPMI_DH_ENTITY_Marshal>>,
    <<"policySession", TSS_TPMI_SH_POLICY_Marshal>>,
    <<"nonceTPM", TSS_TPM2B_NONCE_Marshal>>,
    <<"cpHashA", TSS_TPM2B_DIGEST_Marshal>>,
    <<"policyRef", TSS_TPM2B_NONCE_Marshal>>,
    <<"expiration", TSS_INT32_Marshal>>>>)

TSS_PolicyTicket_In_Marshal == Struct(<<
    <<"policySession", TSS_TPMI_SH_POLICY_Marshal>>,
    <<"timeout", TSS_TPM2B_TIMEOUT_Marshal>>,
    <<"cpHashA", TSS_TPM2B_DIGEST_Marshal>>,
    <<"policyRef", TSS_TPM2B_NONCE_Marshal>>,
    <<"authName", TSS_TPM2B_NAME_Marshal>>,
    <<"ticket", TSS_TPMT_TK_AUTH_Marshal>>>>)

TSS_PolicyOR_In_Marshal == Struct(<<
    <<"policySession", TSS_TPMI_SH_POLICY_Marshal>>,
    <<"pHashList", TSS_TPML_DIGEST_Marshal>>>>)

TSS_PolicyPCR_In_Marshal == Struct(<<
    <<"policySession", TSS_TPMI_SH_POLICY_Marshal>>,
    <<"pcrDigest", TSS_TPM2B_DIGEST_Marshal>>,
    <<"pcrs", TSS_TPML_PCR_SELECTION_Marshal>>>>)

TSS_PolicyLocality_In_Marshal == Struct(<<
    <<"policySession", TSS_TPMI_SH_POLICY_Marshal>>,
    <<"locality", TSS_TPMA_LOCALITY_Marshal>>>>)

TSS_PolicyNV_In_Marshal == Struct(<<
    <<"authHandle", TSS_TPMI_RH_NV_AUTH_Marshal>>,
    <<"nvIndex", TSS_TPMI_RH_NV_INDEX_Marshal>>,
    <<"policySession", TSS_TPMI_SH_POLICY_Marshal>>,
    <<"operandB", TSS_TPM2B_OPERAND_Marshal>>,
    <<"offset", TSS_UINT16_Marshal>>,
    <<"operation", TSS_TPM_EO_Marshal>>>>)

TSS_PolicyCounterTimer_In_Marshal == Struct(<<
    <<"policySession", TSS_TPMI_SH_POLICY_Marshal>>,
    <<"operandB", TSS_TPM2B_OPERAND_Marshal>>,
    <<"offset", TSS_UINT16_Marshal>>,
    <<"operation", TSS_TPM_EO_Marshal>>>>)

TSS_PolicyCommandCode_In_Marshal == Struct(<<
    <<"policySession", TSS_TPMI_SH_POLICY_Marshal>>,
    <<"code", TSS_TPM_CC_Marshal>>>>)

TSS_PolicyPhysicalPresence_In_Marshal == Struct(<<<<"policySession", TSS_TPMI_SH_POLICY_Marshal>>>>)

TSS_PolicyCpHash_In_Marshal == Struct(<<
    <<"policySession", TSS_TPMI_SH_POLICY_Marshal>>,
    <<"cpHashA", TSS_TPM2B_DIGEST_Marshal>>>>)

TSS_PolicyNameHash_In_Marshal == Struct(<<
    <<"policySession", TSS_TPMI_SH_POLICY_Marshal>>,
    <<"nameHash", TSS_TPM2B_DIGEST_Marshal>>>>)

TSS_PolicyDuplicationSelect_In_Marshal == Struct(<<
    <<"policySession", TSS_TPMI_SH_POLICY_Marshal>>,
    <<"objectName", TSS_TPM2B_NAME_Marshal>>,
    <<"newParentName", TSS_TPM2B_NAME_Marshal>>,
    <<"includeObject", TSS_TPMI_YES_NO_Marshal>>>>)

TSS_PolicyAuthorize_In_Marshal == Struct(<<
    <<"policySession", TSS_TPMI_SH_POLICY_Marshal>>,
    <<"approvedPolicy", TSS_TPM2B_DIGEST_Marshal>>,
    <<"policyRef", TSS_TPM2B_NONCE_Marshal>>,
    <<"keySign", TSS_TPM2B_NAME_Marshal>>,
    <<"checkTicket", TSS_TPMT_TK_VERIFIED_Marshal>>>>)

TSS_PolicyAuthValue_In_Marshal == Struct(<<<<"policySession", TSS_TPMI_SH_POLICY_Marshal>>>>)
TSS_PolicyPassword_In_Marshal == Struct(<<<<"policySession", TSS_TPMI_SH_POLICY_Marshal>>>>)
TSS_PolicyGetDigest_In_Marshal == Struct(<<<<"policySession", TSS_TPMI_SH_POLICY_Marshal>>>>)

TSS_PolicyNvWritten_In_Marshal == Struct(<<
    <<"policySession", TSS_TPMI_SH_POLICY_Marshal>>,
    <<"writtenSet", TSS_TPMI_YES_NO_Marshal>>>>)

TSS_PolicyTemplate_In_Marshal == Struct(<<
    <<"policySession", TSS_TPMI_SH_POLICY_Marshal>>,
    <<"templateHash", TSS_TPM2B_DIGEST_Marshal>>>>)

TSS_PolicyAuthorizeNV_In_Marshal == Struct(<<
    <<"authHandle", TSS_TPMI_RH_NV_AUTH_Marshal>>,
    <<"nvIndex", TSS_TPMI_RH_NV_INDEX_Marshal>>,
    <<"policySession", TSS_TPMI_SH_POLICY_Marshal>>>>)

TSS_CreatePrimary_In_Marshal == Struct(<<
    <<"primaryHandle", TSS_TPMI_RH_HIERARCHY_Marshal>>,
    <<"inSensitive", TSS_TPM2B_SENSITIVE_CREATE_Marshal>>,
    <<"inPublic", TSS_TPM2B_PUBLIC_Marshal>>,
    <<"outsideInfo", TSS_TPM2B_DATA_Marshal>>,
    <<"creationPCR", TSS_TPML_PCR_SELECTION_Marshal>>>>)

TSS_HierarchyControl_In_Marshal == Struct(<<
    <<"authHandle", TSS_TPMI_RH_HIERARCHY_Marshal>>,
    <<"enable", TSS_TPMI_RH_ENABLES_Marshal>>,
    <<"state", TSS_TPMI_YES_NO_Marshal>>>>)

TSS_SetPrimaryPolicy_In_Marshal == Struct(<<
    <<"authHandle", TSS_TPMI_RH_HIERARCHY_AUTH_Marshal>>,
    <<"authPolicy", TSS_TPM2B_DIGEST_Marshal>>,
    <<"hashAlg", TSS_TPMI_ALG_HASH_Marshal>>>>)

TSS_ChangePPS_In_Marshal == Struct(<<<<"authHandle", TSS_TPMI_RH_PLATFORM_Marshal>>>>)
TSS_ChangeEPS_In_Marshal == Struct(<<<<"authHandle", TSS_TPMI_RH_PLATFORM_Marshal>>>>)
TSS_Clear_In_Marshal == Struct(<<<<"authHandle", TSS_TPMI_RH_CLEAR_Marshal>>>>)

TSS_ClearControl_In_Marshal == Struct(<<
    <<"auth", TSS_TPMI_RH_CLEAR_Marshal>>,
    <<"disable", TSS_TPMI_YES_NO_Marshal>>>>)

TSS_HierarchyChangeAuth_In_Marshal == Struct(<<
    <<"authHandle", TSS_TPMI_RH_HIERARCHY_AUTH_Marshal>>,
    <<"newAuth", TSS_TPM2B_AUTH_Marshal>>>>)

TSS_DictionaryAttackLockReset_In_Marshal ==
  Struct(<<<<"lockHandle", TSS_TPMI_RH_LOCKOUT_Marshal>>>>)

TSS_DictionaryAttackParameters_In_Marshal == Struct(<<
    <<"lockHandle", TSS_TPMI_RH_LOCKOUT_Marshal>>,
    <<"newMaxTries", TSS_UINT32_Marshal>>,
    <<"newRecoveryTime", TSS_UINT32_Marshal>>,
    <<"lockoutRecovery", TSS_UINT32_Marshal>>>>)

TSS_PP_Commands_In_Marshal == Struct(<<
    <<"auth", TSS_TPMI_RH_PLATFORM_Marshal>>,
    <<"setList", TSS_TPML_CC_Marshal>>,
    <<"clearList", TSS_TPML_CC_Marshal>>>>)

TSS_SetAlgorithmSet_In_Marshal == Struct(<<
    <<"authHandle", TSS_TPMI_RH_PLATFORM_Marshal>>,
    <<"algorithmSet", TSS_UINT32_Marshal>>>>)

TSS_ContextSave_In_Marshal == Struct(<<<<"saveHandle", TSS_TPMI_DH_CONTEXT_Marshal>>>>)
TSS_ContextLoad_In_Marshal == Struct(<<<<"context", TSS_TPMS_CONTEXT_Marshal>>>>)
TSS_FlushContext_In_Marshal == Struct(<<<<"flushHandle", TSS_TPMI_DH_CONTEXT_Marshal>>>>)

TSS_EvictControl_In_Marshal == Struct(<<
    <<"auth", TSS_TPMI_RH_PROVISION_Marshal>>,
    <<"objectHandle", TSS_TPMI_DH_OBJECT_Marshal>>,
    <<"persistentHandle", TSS_TPMI_DH_PERSISTENT_Marshal>>>>)

TSS_ClockSet_In_Marshal == Struct(<<
    <<"auth", TSS_TPMI_RH_PROVISION_Marshal>>,
    <<"newTime", TSS_UINT64_Marshal>>>>)

TSS_ClockRateAdjust_In_Marshal == Struct(<<
    <<"auth", TSS_TPMI_RH_PROVISION_Marshal>>,
    <<"rateAdjust", TSS_TPM_CLOCK_ADJUST_Marshal>>>>)

TSS_GetCapability_In_Marshal == Struct(<<
    <<"capability", TSS_TPM_CAP_Marshal>>,
    <<"property", TSS_UINT32_Marshal>>,
    <<"propertyCount", TSS_UINT32_Marshal>>>>)

TSS_TestParms_In_Marshal == Struct(<<<<"parameters", TSS_TPMT_PUBLIC_PARMS_Marshal>>>>)

TSS_NV_DefineSpace_In_Marshal == Struct(<<
    <<"authHandle", TSS_TPMI_RH_PROVISION_Marshal>>,
    <<"auth", TSS_TPM2B_AUTH_Marshal>>,
    <<"publicInfo", TSS_TPM2B_NV_PUBLIC_Marshal>>>>)

TSS_NV_UndefineSpace_In_Marshal == Struct(<<
    <<"authHandle", TSS_TPMI_RH_PROVISION_Marshal>>,
    <<"nvIndex", TSS_TPMI_RH_NV_INDEX_Marshal>>>>)

TSS_NV_UndefineSpaceSpecial_In_Marshal == Struct(<<
    <<"nvIndex", TSS_TPMI_RH_NV_INDEX_Marshal>>,
    <<"platform", TSS_TPMI_RH_PLATFORM_Marshal>>>>)

TSS_NV_ReadPublic_In_Marshal == Struct(<<<<"nvIndex", TSS_TPMI_RH_NV_INDEX_Marshal>>>>)

TSS_NV_Write_In_Marshal == Struct(<<
    <<"authHandle", TSS_TPMI_RH_NV_AUTH_Marshal>>,
    <<"nvIndex", TSS_TPMI_RH_NV_INDEX_Marshal>>,
    <<"data", TSS_TPM2B_MAX_NV_BUFFER_Marshal>>,
    <<"offset", TSS_UINT16_Marshal>>>>)

TSS_NV_Increment_In_Marshal == Struct(<<
    <<"authHandle", TSS_TPMI_RH_NV_AUTH_Marshal>>,
    <<"nvIndex", TSS_TPMI_RH_NV_INDEX_Marshal>>>>)

TSS_NV_Extend_In_Marshal == Struct(<<
    <<"authHandle", TSS_TPMI_RH_NV_AUTH_Marshal>>,
    <<"nvIndex", TSS_TPMI_RH_NV_INDEX_Marshal>>,
    <<"data", TSS_TPM2B_MAX_NV_BUFFER_Marshal>>>>)

TSS_NV_SetBits_In_Marshal == Struct(<<
    <<"authHandle", TSS_TPMI_RH_NV_AUTH_Marshal>>,
    <<"nvIndex", TSS_TPMI_RH_NV_INDEX_Marshal>>,
    <<"bits", TSS_UINT64_Marshal>>>>)

TSS_NV_WriteLock_In_Marshal == Struct(<<
    <<"authHandle", TSS_TPMI_RH_NV_AUTH_Marshal>>,
    <<"nvIndex", TSS_TPMI_RH_NV_INDEX_Marshal>>>>)

TSS_NV_GlobalWriteLock_In_Marshal == Struct(<<<<"authHandle", TSS_TPMI_RH_PROVISION_Marshal>>>>)

TSS_NV_Read_In_Marshal == Struct(<<
    <<"authHandle", TSS_TPMI_RH_NV_AUTH_Marshal>>,
    <<"nvIndex", TSS_TPMI_RH_NV_INDEX_Marshal>>,
    <<"size", TSS_UINT16_Marshal>>,
    <<"offset", TSS_UINT16_Marshal>>>>)

TSS_NV_ReadLock_In_Marshal == Struct(<<
    <<"authHandle", TSS_TPMI_RH_NV_AUTH_Marshal>>,
    <<"nvIndex", TSS_TPMI_RH_NV_INDEX_Marshal>>>>)

TSS_NV_ChangeAuth_In_Marshal == Struct(<<
    <<"nvIndex", TSS_TPMI_RH_NV_INDEX_Marshal>>,
    <<"newAuth", TSS_TPM2B_AUTH_Marshal>>>>)

TSS_NV_Certify_In_Marshal == Struct(<<
    <<"signHandle", TSS_TPMI_DH_OBJECT_Marshal>>,
    <<"authHandle", TSS_TPMI_RH_NV_AUTH_Marshal>>,
    <<"nvIndex", TSS_TPMI_RH_NV_INDEX_Marshal>>,
    <<"qualifyingData", TSS_TPM2B_DATA_Marshal>>,
    <<"inScheme", TSS_TPMT_SIG_SCHEME_Marshal>>,
    <<"size", TSS_UINT16_Marshal>>,
    <<"offset", TSS_UINT16_Marshal>>>>)

===================================================================================
