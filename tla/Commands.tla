--------------------------------- MODULE Commands ---------------------------------
(*****************************************************************************)
(* Commands.c: how the parameters of each command are unmarshaled. The TSS   *)
(* runs these functions on what it marshaled, to check the ranges of the     *)
(* parameters; the handles come from an array and are not checked.           *)
(*****************************************************************************)
EXTENDS Unmarshal

Command(handles, fields) == [handles |-> handles, parameters |-> Struct(fields)]

Startup_In_Unmarshal == Command(<<>>, <<<<"startupType", TPM_SU_Unmarshal>>>>)
Shutdown_In_Unmarshal == Command(<<>>, <<<<"shutdownType", TPM_SU_Unmarshal>>>>)
SelfTest_In_Unmarshal == Command(<<>>, <<<<"fullTest", TPMI_YES_NO_Unmarshal>>>>)
IncrementalSelfTest_In_Unmarshal == Command(<<>>, <<<<"toTest", TPML_ALG_Unmarshal>>>>)

StartAuthSession_In_Unmarshal == Command(<<"tpmKey", "bind">>, <<
    <<"nonceCaller", TPM2B_NONCE_Unmarshal>>,
    <<"encryptedSalt", TPM2B_ENCRYPTED_SECRET_Unmarshal>>,
    <<"sessionType", TPM_SE_Unmarshal>>,
    <<"symmetric", TPMT_SYM_DEF_Unmarshal(TRUE)>>,
    <<"authHash", TPMI_ALG_HASH_Unmarshal(FALSE)>>>>)

PolicyRestart_In_Unmarshal == Command(<<"sessionHandle">>, <<>>)

Create_In_Unmarshal == Command(<<"parentHandle">>, <<
    <<"inSensitive", TPM2B_SENSITIVE_CREATE_Unmarshal>>,
    <<"inPublic", TPM2B_PUBLIC_Unmarshal(FALSE)>>,
    <<"outsideInfo", TPM2B_DATA_Unmarshal>>,
    <<"creationPCR", TPML_PCR_SELECTION_Unmarshal>>>>)

Load_In_Unmarshal == Command(<<"parentHandle">>, <<
    <<"inPrivate", TPM2B_PRIVATE_Unmarshal>>,
    <<"inPublic", TPM2B_PUBLIC_Unmarshal(FALSE)>>>>)

LoadExternal_In_Unmarshal == Command(<<>>, <<
    <<"inPrivate", TPM2B_SENSITIVE_Unmarshal>>,
    <<"inPublic", TPM2B_PUBLIC_Unmarshal(TRUE)>>,
    <<"hierarchy", TPMI_RH_HIERARCHY_Unmarshal(TRUE)>>>>)

ReadPublic_In_Unmarshal == Command(<<"objectHandle">>, <<>>)

ActivateCredential_In_Unmarshal == Command(<<"activateHandle", "keyHandle">>, <<
    <<"credentialBlob", TPM2B_ID_OBJECT_Unmarshal>>,
    <<"secret", TPM2B_ENCRYPTED_SECRET_Unmarshal>>>>)

MakeCredential_In_Unmarshal == Command(<<"handle">>, <<
    <<"credential", TPM2B_DIGEST_Unmarshal>>,
    <<"objectName", TPM2B_NAME_Unmarshal>>>>)

Unseal_In_Unmarshal == Command(<<"itemHandle">>, <<>>)

ObjectChangeAuth_In_Unmarshal ==
  Command(<<"objectHandle", "parentHandle">>, <<<<"newAuth", TPM2B_AUTH_Unmarshal>>>>)

CreateLoaded_In_Unmarshal == Command(<<"parentHandle">>, <<
    <<"inSensitive", TPM2B_SENSITIVE_CREATE_Unmarshal>>,
    <<"inPublic", TPM2B_TEMPLATE_Unmarshal>>>>)

Duplicate_In_Unmarshal == Command(<<"objectHandle", "newParentHandle">>, <<
    <<"encryptionKeyIn", TPM2B_DATA_Unmarshal>>,
    <<"symmetricAlg", TPMT_SYM_DEF_OBJECT_Unmarshal(TRUE)>>>>)

Rewrap_In_Unmarshal == Command(<<"oldParent", "newParent">>, <<
    <<"inDuplicate", TPM2B_PRIVATE_Unmarshal>>,
    <<"name", TPM2B_NAME_Unmarshal>>,
    <<"inSymSeed", TPM2B_ENCRYPTED_SECRET_Unmarshal>>>>)

Import_In_Unmarshal == Command(<<"parentHandle">>, <<
    <<"encryptionKey", TPM2B_DATA_Unmarshal>>,
    <<"objectPublic", TPM2B_PUBLIC_Unmarshal(FALSE)>>,
    <<"duplicate", TPM2B_PRIVATE_Unmarshal>>,
    <<"inSymSeed", TPM2B_ENCRYPTED_SECRET_Unmarshal>>,
    <<"symmetricAlg", TPMT_SYM_DEF_OBJECT_Unmarshal(TRUE)>>>>)

RSA_Encrypt_In_Unmarshal == Command(<<"keyHandle">>, <<
    <<"message", TPM2B_PUBLIC_KEY_RSA_Unmarshal>>,
    <<"inScheme", TPMT_RSA_DECRYPT_Unmarshal(TRUE)>>,
    <<"label", TPM2B_DATA_Unmarshal>>>>)

RSA_Decrypt_In_Unmarshal == Command(<<"keyHandle">>, <<
    <<"cipherText", TPM2B_PUBLIC_KEY_RSA_Unmarshal>>,
    <<"inScheme", TPMT_RSA_DECRYPT_Unmarshal(TRUE)>>,
    <<"label", TPM2B_DATA_Unmarshal>>>>)

ECDH_KeyGen_In_Unmarshal == Command(<<"keyHandle">>, <<>>)
ECDH_ZGen_In_Unmarshal == Command(<<"keyHandle">>, <<<<"inPoint", TPM2B_ECC_POINT_Unmarshal>>>>)
ECC_Parameters_In_Unmarshal == Command(<<>>, <<<<"curveID", TPMI_ECC_CURVE_Unmarshal>>>>)

ZGen_2Phase_In_Unmarshal == Command(<<"keyA">>, <<
    <<"inQsB", TPM2B_ECC_POINT_Unmarshal>>,
    <<"inQeB", TPM2B_ECC_POINT_Unmarshal>>,
    <<"inScheme", TPMI_ECC_KEY_EXCHANGE_Unmarshal(FALSE)>>,
    <<"counter", UINT16_Unmarshal>>>>)

EncryptDecrypt_In_Unmarshal == Command(<<"keyHandle">>, <<
    <<"decrypt", TPMI_YES_NO_Unmarshal>>,
    <<"mode", TPMI_ALG_SYM_MODE_Unmarshal(TRUE)>>,
    <<"ivIn", TPM2B_IV_Unmarshal>>,
    <<"inData", TPM2B_MAX_BUFFER_Unmarshal>>>>)

EncryptDecrypt2_In_Unmarshal == Command(<<"keyHandle">>, <<
    <<"inData", TPM2B_MAX_BUFFER_Unmarshal>>,
    <<"decrypt", TPMI_YES_NO_Unmarshal>>,
    <<"mode", TPMI_ALG_SYM_MODE_Unmarshal(TRUE)>>,
    <<"ivIn", TPM2B_IV_Unmarshal>>>>)

Hash_In_Unmarshal == Command(<<>>, <<
    <<"data", TPM2B_MAX_BUFFER_Unmarshal>>,
    <<"hashAlg", TPMI_ALG_HASH_Unmarshal(FALSE)>>,
    <<"hierarchy", TPMI_RH_HIERARCHY_Unmarshal(TRUE)>>>>)

HMAC_In_Unmarshal == Command(<<"handle">>, <<
    <<"buffer", TPM2B_MAX_BUFFER_Unmarshal>>,
    <<"hashAlg", TPMI_ALG_HASH_Unmarshal(TRUE)>>>>)

GetRandom_In_Unmarshal == Command(<<>>, <<<<"bytesRequested", UINT16_Unmarshal>>>>)
StirRandom_In_Unmarshal == Command(<<>>, <<<<"inData", TPM2B_SENSITIVE_DATA_Unmarshal>>>>)

HMAC_Start_In_Unmarshal == Command(<<"handle">>, <<
    <<"auth", TPM2B_AUTH_Unmarshal>>,
    <<"hashAlg", TPMI_ALG_HASH_Unmarshal(TRUE)>>>>)

HashSequenceStart_In_Unmarshal == Command(<<>>, <<
    <<"auth", TPM2B_AUTH_Unmarshal>>,
    <<"hashAlg", TPMI_ALG_HASH_Unmarshal(TRUE)>>>>)

SequenceUpdate_In_Unmarshal ==
  Command(<<"sequenceHandle">>, <<<<"buffer", TPM2B_MAX_BUFFER_Unmarshal>>>>)

SequenceComplete_In_Unmarshal == Command(<<"sequenceHandle">>, <<
    <<"buffer", TPM2B_MAX_BUFFER_Unmarshal>>,
    <<"hierarchy", TPMI_RH_HIERARCHY_Unmarshal(TRUE)>>>>)

EventSequenceComplete_In_Unmarshal ==
  Command(<<"pcrHandle", "sequenceHandle">>, <<<<"buffer", TPM2B_MAX_BUFFER_Unmarshal>>>>)

Certify_In_Unmarshal == Command(<<"objectHandle", "signHandle">>, <<
    <<"qualifyingData", TPM2B_DATA_Unmarshal>>,
    <<"inScheme", TPMT_SIG_SCHEME_Unmarshal(TRUE)>>>>)

CertifyCreation_In_Unmarshal == Command(<<"signHandle", "objectHandle">>, <<
    <<"qualifyingData", TPM2B_DATA_Unmarshal>>,
    <<"creationHash", TPM2B_DIGEST_Unmarshal>>,
    <<"inScheme", TPMT_SIG_SCHEME_Unmarshal(TRUE)>>,
    <<"creationTicket", TPMT_TK_CREATION_Unmarshal>>>>)

Quote_In_Unmarshal == Command(<<"signHandle">>, <<
    <<"qualifyingData", TPM2B_DATA_Unmarshal>>,
    <<"inScheme", TPMT_SIG_SCHEME_Unmarshal(TRUE)>>,
    <<"PCRselect", TPML_PCR_SELECTION_Unmarshal>>>>)

GetSessionAuditDigest_In_Unmarshal ==
  Command(<<"privacyAdminHandle", "signHandle", "sessionHandle">>, <<     <<"qualifyingData",
  TPM2B_DATA_Unmarshal>>,     <<"inScheme", TPMT_SIG_SCHEME_Unmarshal(TRUE)>>>>)

GetCommandAuditDigest_In_Unmarshal == Command(<<"privacyHandle", "signHandle">>, <<
    <<"qualifyingData", TPM2B_DATA_Unmarshal>>,
    <<"inScheme", TPMT_SIG_SCHEME_Unmarshal(TRUE)>>>>)

GetTime_In_Unmarshal == Command(<<"privacyAdminHandle", "signHandle">>, <<
    <<"qualifyingData", TPM2B_DATA_Unmarshal>>,
    <<"inScheme", TPMT_SIG_SCHEME_Unmarshal(TRUE)>>>>)

Commit_In_Unmarshal == Command(<<"signHandle">>, <<
    <<"P1", TPM2B_ECC_POINT_Unmarshal>>,
    <<"s2", TPM2B_SENSITIVE_DATA_Unmarshal>>,
    <<"y2", TPM2B_ECC_PARAMETER_Unmarshal>>>>)

EC_Ephemeral_In_Unmarshal == Command(<<>>, <<<<"curveID", TPMI_ECC_CURVE_Unmarshal>>>>)

VerifySignature_In_Unmarshal == Command(<<"keyHandle">>, <<
    <<"digest", TPM2B_DIGEST_Unmarshal>>,
    <<"signature", TPMT_SIGNATURE_Unmarshal(FALSE)>>>>)

Sign_In_Unmarshal == Command(<<"keyHandle">>, <<
    <<"digest", TPM2B_DIGEST_Unmarshal>>,
    <<"inScheme", TPMT_SIG_SCHEME_Unmarshal(TRUE)>>,
    <<"validation", TPMT_TK_HASHCHECK_Unmarshal>>>>)

SetCommandCodeAuditStatus_In_Unmarshal == Command(<<"auth">>, <<
    <<"auditAlg", TPMI_ALG_HASH_Unmarshal(TRUE)>>,
    <<"setList", TPML_CC_Unmarshal>>,
    <<"clearList", TPML_CC_Unmarshal>>>>)

PCR_Extend_In_Unmarshal == Command(<<"pcrHandle">>, <<<<"digests", TPML_DIGEST_VALUES_Unmarshal>>>>)
PCR_Event_In_Unmarshal == Command(<<"pcrHandle">>, <<<<"eventData", TPM2B_EVENT_Unmarshal>>>>)
PCR_Read_In_Unmarshal == Command(<<>>, <<<<"pcrSelectionIn", TPML_PCR_SELECTION_Unmarshal>>>>)

PCR_Allocate_In_Unmarshal ==
  Command(<<"authHandle">>, <<<<"pcrAllocation", TPML_PCR_SELECTION_Unmarshal>>>>)

PCR_SetAuthPolicy_In_Unmarshal == Command(<<"authHandle">>, <<
    <<"authPolicy", TPM2B_DIGEST_Unmarshal>>,
    <<"hashAlg", TPMI_ALG_HASH_Unmarshal(TRUE)>>,
    <<"pcrNum", TPMI_DH_PCR_Unmarshal(FALSE)>>>>)

PCR_SetAuthValue_In_Unmarshal == Command(<<"pcrHandle">>, <<<<"auth", TPM2B_DIGEST_Unmarshal>>>>)
PCR_Reset_In_Unmarshal == Command(<<"pcrHandle">>, <<>>)

PolicySigned_In_Unmarshal == Command(<<"authObject", "policySession">>, <<
    <<"nonceTPM", TPM2B_NONCE_Unmarshal>>,
    <<"cpHashA", TPM2B_DIGEST_Unmarshal>>,
    <<"policyRef", TPM2B_NONCE_Unmarshal>>,
    <<"expiration", INT32_Unmarshal>>,
    <<"auth", TPMT_SIGNATURE_Unmarshal(FALSE)>>>>)

PolicySecret_In_Unmarshal == Command(<<"authHandle", "policySession">>, <<
    <<"nonceTPM", TPM2B_NONCE_Unmarshal>>,
    <<"cpHashA", TPM2B_DIGEST_Unmarshal>>,
    <<"policyRef", TPM2B_NONCE_Unmarshal>>,
    <<"expiration", INT32_Unmarshal>>>>)

PolicyTicket_In_Unmarshal == Command(<<"policySession">>, <<
    <<"timeout", TPM2B_TIMEOUT_Unmarshal>>,
    <<"cpHashA", TPM2B_DIGEST_Unmarshal>>,
    <<"policyRef", TPM2B_NONCE_Unmarshal>>,
    <<"authName", TPM2B_NAME_Unmarshal>>,
    <<"ticket", TPMT_TK_AUTH_Unmarshal>>>>)

PolicyOR_In_Unmarshal == Command(<<"policySession">>, <<<<"pHashList", TPML_DIGEST_Unmarshal(2)>>>>)

PolicyPCR_In_Unmarshal == Command(<<"policySession">>, <<
    <<"pcrDigest", TPM2B_DIGEST_Unmarshal>>,
    <<"pcrs", TPML_PCR_SELECTION_Unmarshal>>>>)

PolicyLocality_In_Unmarshal ==
  Command(<<"policySession">>, <<<<"locality", TPMA_LOCALITY_Unmarshal>>>>)

PolicyNV_In_Unmarshal == Command(<<"authHandle", "nvIndex", "policySession">>, <<
    <<"operandB", TPM2B_OPERAND_Unmarshal>>,
    <<"offset", UINT16_Unmarshal>>,
    <<"operation", TPM_EO_Unmarshal>>>>)

PolicyAuthorizeNV_In_Unmarshal == Command(<<"authHandle", "nvIndex", "policySession">>, <<>>)

PolicyCounterTimer_In_Unmarshal == Command(<<"policySession">>, <<
    <<"operandB", TPM2B_OPERAND_Unmarshal>>,
    <<"offset", UINT16_Unmarshal>>,
    <<"operation", TPM_EO_Unmarshal>>>>)

PolicyCommandCode_In_Unmarshal == Command(<<"policySession">>, <<<<"code", TPM_CC_Unmarshal>>>>)
PolicyPhysicalPresence_In_Unmarshal == Command(<<"policySession">>, <<>>)
PolicyCpHash_In_Unmarshal == Command(<<"policySession">>, <<<<"cpHashA", TPM2B_DIGEST_Unmarshal>>>>)

PolicyNameHash_In_Unmarshal ==
  Command(<<"policySession">>, <<<<"nameHash", TPM2B_DIGEST_Unmarshal>>>>)

PolicyDuplicationSelect_In_Unmarshal == Command(<<"policySession">>, <<
    <<"objectName", TPM2B_NAME_Unmarshal>>,
    <<"newParentName", TPM2B_NAME_Unmarshal>>,
    <<"includeObject", TPMI_YES_NO_Unmarshal>>>>)

PolicyAuthorize_In_Unmarshal == Command(<<"policySession">>, <<
    <<"approvedPolicy", TPM2B_DIGEST_Unmarshal>>,
    <<"policyRef", TPM2B_NONCE_Unmarshal>>,
    <<"keySign", TPM2B_NAME_Unmarshal>>,
    <<"checkTicket", TPMT_TK_VERIFIED_Unmarshal>>>>)

PolicyAuthValue_In_Unmarshal == Command(<<"policySession">>, <<>>)
PolicyPassword_In_Unmarshal == Command(<<"policySession">>, <<>>)
PolicyGetDigest_In_Unmarshal == Command(<<"policySession">>, <<>>)

PolicyNvWritten_In_Unmarshal ==
  Command(<<"policySession">>, <<<<"writtenSet", TPMI_YES_NO_Unmarshal>>>>)

PolicyTemplate_In_Unmarshal ==
  Command(<<"policySession">>, <<<<"templateHash", TPM2B_DIGEST_Unmarshal>>>>)

CreatePrimary_In_Unmarshal == Command(<<"primaryHandle">>, <<
    <<"inSensitive", TPM2B_SENSITIVE_CREATE_Unmarshal>>,
    <<"inPublic", TPM2B_PUBLIC_Unmarshal(FALSE)>>,
    <<"outsideInfo", TPM2B_DATA_Unmarshal>>,
    <<"creationPCR", TPML_PCR_SELECTION_Unmarshal>>>>)

HierarchyControl_In_Unmarshal == Command(<<"authHandle">>, <<
    <<"enable", TPMI_RH_ENABLES_Unmarshal(FALSE)>>,
    <<"state", TPMI_YES_NO_Unmarshal>>>>)

SetPrimaryPolicy_In_Unmarshal == Command(<<"authHandle">>, <<
    <<"authPolicy", TPM2B_DIGEST_Unmarshal>>,
    <<"hashAlg", TPMI_ALG_HASH_Unmarshal(TRUE)>>>>)

ChangePPS_In_Unmarshal == Command(<<"authHandle">>, <<>>)
ChangeEPS_In_Unmarshal == Command(<<"authHandle">>, <<>>)
Clear_In_Unmarshal == Command(<<"authHandle">>, <<>>)
ClearControl_In_Unmarshal == Command(<<"auth">>, <<<<"disable", TPMI_YES_NO_Unmarshal>>>>)

HierarchyChangeAuth_In_Unmarshal ==
  Command(<<"authHandle">>, <<<<"newAuth", TPM2B_AUTH_Unmarshal>>>>)

DictionaryAttackLockReset_In_Unmarshal == Command(<<"lockHandle">>, <<>>)

DictionaryAttackParameters_In_Unmarshal == Command(<<"lockHandle">>, <<
    <<"newMaxTries", UINT32_Unmarshal>>,
    <<"newRecoveryTime", UINT32_Unmarshal>>,
    <<"lockoutRecovery", UINT32_Unmarshal>>>>)

PP_Commands_In_Unmarshal == Command(<<"auth">>, <<
    <<"setList", TPML_CC_Unmarshal>>,
    <<"clearList", TPML_CC_Unmarshal>>>>)

SetAlgorithmSet_In_Unmarshal == Command(<<"authHandle">>, <<<<"algorithmSet", UINT32_Unmarshal>>>>)
ContextSave_In_Unmarshal == Command(<<"saveHandle">>, <<>>)
ContextLoad_In_Unmarshal == Command(<<>>, <<<<"context", TPMS_CONTEXT_Unmarshal>>>>)
FlushContext_In_Unmarshal == Command(<<>>, <<<<"flushHandle", TPMI_DH_CONTEXT_Unmarshal(FALSE)>>>>)

EvictControl_In_Unmarshal ==
  Command(<<"auth", "objectHandle">>, <<<<"persistentHandle", TPMI_DH_PERSISTENT_Unmarshal>>>>)

ClockSet_In_Unmarshal == Command(<<"auth">>, <<<<"newTime", UINT64_Unmarshal>>>>)

ClockRateAdjust_In_Unmarshal ==
  Command(<<"auth">>, <<<<"rateAdjust", TPM_CLOCK_ADJUST_Unmarshal>>>>)

GetCapability_In_Unmarshal == Command(<<>>, <<
    <<"capability", TPM_CAP_Unmarshal>>,
    <<"property", UINT32_Unmarshal>>,
    <<"propertyCount", UINT32_Unmarshal>>>>)

TestParms_In_Unmarshal == Command(<<>>, <<<<"parameters", TPMT_PUBLIC_PARMS_Unmarshal>>>>)

NV_DefineSpace_In_Unmarshal == Command(<<"authHandle">>, <<
    <<"auth", TPM2B_AUTH_Unmarshal>>,
    <<"publicInfo", TPM2B_NV_PUBLIC_Unmarshal>>>>)

NV_UndefineSpace_In_Unmarshal == Command(<<"authHandle", "nvIndex">>, <<>>)
NV_UndefineSpaceSpecial_In_Unmarshal == Command(<<"nvIndex", "platform">>, <<>>)
NV_ReadPublic_In_Unmarshal == Command(<<"nvIndex">>, <<>>)

NV_Write_In_Unmarshal == Command(<<"authHandle", "nvIndex">>, <<
    <<"data", TPM2B_MAX_NV_BUFFER_Unmarshal>>,
    <<"offset", UINT16_Unmarshal>>>>)

NV_Increment_In_Unmarshal == Command(<<"authHandle", "nvIndex">>, <<>>)

NV_Extend_In_Unmarshal ==
  Command(<<"authHandle", "nvIndex">>, <<<<"data", TPM2B_MAX_NV_BUFFER_Unmarshal>>>>)

NV_SetBits_In_Unmarshal == Command(<<"authHandle", "nvIndex">>, <<<<"bits", UINT64_Unmarshal>>>>)
NV_WriteLock_In_Unmarshal == Command(<<"authHandle", "nvIndex">>, <<>>)
NV_GlobalWriteLock_In_Unmarshal == Command(<<"authHandle">>, <<>>)

NV_Read_In_Unmarshal ==
  Command(<<"authHandle", "nvIndex">>, <<<<"size", UINT16_Unmarshal>>, <<"offset",
  UINT16_Unmarshal>>>>)

NV_ReadLock_In_Unmarshal == Command(<<"authHandle", "nvIndex">>, <<>>)
NV_ChangeAuth_In_Unmarshal == Command(<<"nvIndex">>, <<<<"newAuth", TPM2B_AUTH_Unmarshal>>>>)

NV_Certify_In_Unmarshal == Command(<<"signHandle", "authHandle", "nvIndex">>, <<
    <<"qualifyingData", TPM2B_DATA_Unmarshal>>,
    <<"inScheme", TPMT_SIG_SCHEME_Unmarshal(TRUE)>>,
    <<"size", UINT16_Unmarshal>>,
    <<"offset", UINT16_Unmarshal>>>>)

===================================================================================
