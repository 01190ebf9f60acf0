------------------------------ MODULE TssOutUnmarshal ------------------------------
(*****************************************************************************)
(* The part of tssmarshal.c that unmarshals the parameters of a response:    *)
(* its handles, the size of its parameters if the command had sessions, and  *)
(* the parameters.                                                           *)
(*****************************************************************************)
EXTENDS Unmarshal

Response(handles, fields) == [handles |-> handles, parameters |-> Struct(fields)]

TSS_IncrementalSelfTest_Out_Unmarshal == Response(<<>>, <<<<"toDoList", TPML_ALG_Unmarshal>>>>)

TSS_GetTestResult_Out_Unmarshal == Response(<<>>, <<
    <<"outData", TPM2B_MAX_BUFFER_Unmarshal>>,
    <<"testResult", TPM_RC_Unmarshal>>>>)

TSS_StartAuthSession_Out_Unmarshal ==
  Response(<<"sessionHandle">>, <<<<"nonceTPM", TPM2B_NONCE_Unmarshal>>>>)

TSS_Create_Out_Unmarshal == Response(<<>>, <<
    <<"outPrivate", TPM2B_PRIVATE_Unmarshal>>,
    <<"outPublic", TPM2B_PUBLIC_Unmarshal(FALSE)>>,
    <<"creationData", TPM2B_CREATION_DATA_Unmarshal>>,
    <<"creationHash", TPM2B_DIGEST_Unmarshal>>,
    <<"creationTicket", TPMT_TK_CREATION_Unmarshal>>>>)

TSS_Load_Out_Unmarshal == Response(<<"objectHandle">>, <<<<"name", TPM2B_NAME_Unmarshal>>>>)
TSS_LoadExternal_Out_Unmarshal == Response(<<"objectHandle">>, <<<<"name", TPM2B_NAME_Unmarshal>>>>)

TSS_ReadPublic_Out_Unmarshal == Response(<<>>, <<
    <<"outPublic", TPM2B_PUBLIC_Unmarshal(FALSE)>>,
    <<"name", TPM2B_NAME_Unmarshal>>,
    <<"qualifiedName", TPM2B_NAME_Unmarshal>>>>)

TSS_ActivateCredential_Out_Unmarshal == Response(<<>>, <<<<"certInfo", TPM2B_DIGEST_Unmarshal>>>>)

TSS_MakeCredential_Out_Unmarshal == Response(<<>>, <<
    <<"credentialBlob", TPM2B_ID_OBJECT_Unmarshal>>,
    <<"secret", TPM2B_ENCRYPTED_SECRET_Unmarshal>>>>)

TSS_Unseal_Out_Unmarshal == Response(<<>>, <<<<"outData", TPM2B_SENSITIVE_DATA_Unmarshal>>>>)
TSS_ObjectChangeAuth_Out_Unmarshal == Response(<<>>, <<<<"outPrivate", TPM2B_PRIVATE_Unmarshal>>>>)

TSS_CreateLoaded_Out_Unmarshal == Response(<<"objectHandle">>, <<
    <<"outPrivate", TPM2B_PRIVATE_Unmarshal>>,
    <<"outPublic", TPM2B_PUBLIC_Unmarshal(FALSE)>>,
    <<"name", TPM2B_NAME_Unmarshal>>>>)

TSS_Duplicate_Out_Unmarshal == Response(<<>>, <<
    <<"encryptionKeyOut", TPM2B_DATA_Unmarshal>>,
    <<"duplicate", TPM2B_PRIVATE_Unmarshal>>,
    <<"outSymSeed", TPM2B_ENCRYPTED_SECRET_Unmarshal>>>>)

TSS_Rewrap_Out_Unmarshal == Response(<<>>, <<
    <<"outDuplicate", TPM2B_PRIVATE_Unmarshal>>,
    <<"outSymSeed", TPM2B_ENCRYPTED_SECRET_Unmarshal>>>>)

TSS_Import_Out_Unmarshal == Response(<<>>, <<<<"outPrivate", TPM2B_PRIVATE_Unmarshal>>>>)
TSS_RSA_Encrypt_Out_Unmarshal == Response(<<>>, <<<<"outData", TPM2B_PUBLIC_KEY_RSA_Unmarshal>>>>)
TSS_RSA_Decrypt_Out_Unmarshal == Response(<<>>, <<<<"message", TPM2B_PUBLIC_KEY_RSA_Unmarshal>>>>)

TSS_ECDH_KeyGen_Out_Unmarshal == Response(<<>>, <<
    <<"zPoint", TPM2B_ECC_POINT_Unmarshal>>,
    <<"pubPoint", TPM2B_ECC_POINT_Unmarshal>>>>)

TSS_ECDH_ZGen_Out_Unmarshal == Response(<<>>, <<<<"outPoint", TPM2B_ECC_POINT_Unmarshal>>>>)

TSS_ECC_Parameters_Out_Unmarshal ==
  Response(<<>>, <<<<"parameters", TPMS_ALGORITHM_DETAIL_ECC_Unmarshal>>>>)

TSS_ZGen_2Phase_Out_Unmarshal == Response(<<>>, <<
    <<"outZ1", TPM2B_ECC_POINT_Unmarshal>>,
    <<"outZ2", TPM2B_ECC_POINT_Unmarshal>>>>)

TSS_EncryptDecrypt_Out_Unmarshal == Response(<<>>, <<
    <<"outData", TPM2B_MAX_BUFFER_Unmarshal>>,
    <<"ivOut", TPM2B_IV_Unmarshal>>>>)

TSS_EncryptDecrypt2_Out_Unmarshal == TSS_EncryptDecrypt_Out_Unmarshal

TSS_Hash_Out_Unmarshal == Response(<<>>, <<
    <<"outHash", TPM2B_DIGEST_Unmarshal>>,
    <<"validation", TPMT_TK_HASHCHECK_Unmarshal>>>>)

TSS_HMAC_Out_Unmarshal == Response(<<>>, <<<<"outHMAC", TPM2B_DIGEST_Unmarshal>>>>)
TSS_GetRandom_Out_Unmarshal == Response(<<>>, <<<<"randomBytes", TPM2B_DIGEST_Unmarshal>>>>)
TSS_HMAC_Start_Out_Unmarshal == Response(<<"sequenceHandle">>, <<>>)
TSS_HashSequenceStart_Out_Unmarshal == Response(<<"sequenceHandle">>, <<>>)

TSS_SequenceComplete_Out_Unmarshal == Response(<<>>, <<
    <<"result", TPM2B_DIGEST_Unmarshal>>,
    <<"validation", TPMT_TK_HASHCHECK_Unmarshal>>>>)

TSS_EventSequenceComplete_Out_Unmarshal ==
  Response(<<>>, <<<<"results", TPML_DIGEST_VALUES_Unmarshal>>>>)

TSS_Certify_Out_Unmarshal == Response(<<>>, <<
    <<"certifyInfo", TPM2B_ATTEST_Unmarshal>>,
    <<"signature", TPMT_SIGNATURE_Unmarshal(FALSE)>>>>)

TSS_CertifyCreation_Out_Unmarshal == Response(<<>>, <<
    <<"certifyInfo", TPM2B_ATTEST_Unmarshal>>,
    <<"signature", TPMT_SIGNATURE_Unmarshal(FALSE)>>>>)

TSS_Quote_Out_Unmarshal == Response(<<>>, <<
    <<"quoted", TPM2B_ATTEST_Unmarshal>>,
    <<"signature", TPMT_SIGNATURE_Unmarshal(FALSE)>>>>)

TSS_GetSessionAuditDigest_Out_Unmarshal == Response(<<>>, <<
    <<"auditInfo", TPM2B_ATTEST_Unmarshal>>,
    <<"signature", TPMT_SIGNATURE_Unmarshal(FALSE)>>>>)

TSS_GetCommandAuditDigest_Out_Unmarshal == Response(<<>>, <<
    <<"auditInfo", TPM2B_ATTEST_Unmarshal>>,
    <<"signature", TPMT_SIGNATURE_Unmarshal(FALSE)>>>>)

TSS_GetTime_Out_Unmarshal == Response(<<>>, <<
    <<"timeInfo", TPM2B_ATTEST_Unmarshal>>,
    <<"signature", TPMT_SIGNATURE_Unmarshal(FALSE)>>>>)

TSS_Commit_Out_Unmarshal == Response(<<>>, <<
    <<"K", TPM2B_ECC_POINT_Unmarshal>>,
    <<"L", TPM2B_ECC_POINT_Unmarshal>>,
    <<"E", TPM2B_ECC_POINT_Unmarshal>>,
    <<"counter", UINT16_Unmarshal>>>>)

TSS_EC_Ephemeral_Out_Unmarshal == Response(<<>>, <<
    <<"Q", TPM2B_ECC_POINT_Unmarshal>>,
    <<"counter", UINT16_Unmarshal>>>>)

TSS_VerifySignature_Out_Unmarshal ==
  Response(<<>>, <<<<"validation", TPMT_TK_VERIFIED_Unmarshal>>>>)

TSS_Sign_Out_Unmarshal == Response(<<>>, <<<<"signature", TPMT_SIGNATURE_Unmarshal(FALSE)>>>>)
TSS_PCR_Event_Out_Unmarshal == Response(<<>>, <<<<"digests", TPML_DIGEST_VALUES_Unmarshal>>>>)

TSS_PCR_Read_Out_Unmarshal == Response(<<>>, <<
    <<"pcrUpdateCounter", UINT32_Unmarshal>>,
    <<"pcrSelectionOut", TPML_PCR_SELECTION_Unmarshal>>,
    <<"pcrValues", TPML_DIGEST_Unmarshal(0)>>>>)

TSS_PCR_Allocate_Out_Unmarshal == Response(<<>>, <<
    <<"allocationSuccess", TPMI_YES_NO_Unmarshal>>,
    <<"maxPCR", UINT32_Unmarshal>>,
    <<"sizeNeeded", UINT32_Unmarshal>>,
    <<"sizeAvailable", UINT32_Unmarshal>>>>)

TSS_PolicySigned_Out_Unmarshal == Response(<<>>, <<
    <<"timeout", TPM2B_TIMEOUT_Unmarshal>>,
    <<"policyTicket", TPMT_TK_AUTH_Unmarshal>>>>)

TSS_PolicySecret_Out_Unmarshal == Response(<<>>, <<
    <<"timeout", TPM2B_TIMEOUT_Unmarshal>>,
    <<"policyTicket", TPMT_TK_AUTH_Unmarshal>>>>)

TSS_PolicyGetDigest_Out_Unmarshal == Response(<<>>, <<<<"policyDigest", TPM2B_DIGEST_Unmarshal>>>>)

TSS_CreatePrimary_Out_Unmarshal == Response(<<"objectHandle">>, <<
    <<"outPublic", TPM2B_PUBLIC_Unmarshal(FALSE)>>,
    <<"creationData", TPM2B_CREATION_DATA_Unmarshal>>,
    <<"creationHash", TPM2B_DIGEST_Unmarshal>>,
    <<"creationTicket", TPMT_TK_CREATION_Unmarshal>>,
    <<"name", TPM2B_NAME_Unmarshal>>>>)

TSS_ContextSave_Out_Unmarshal == Response(<<>>, <<<<"context", TPMS_CONTEXT_Unmarshal>>>>)
TSS_ContextLoad_Out_Unmarshal == Response(<<"loadedHandle">>, <<>>)
TSS_ReadClock_Out_Unmarshal == Response(<<>>, <<<<"currentTime", TPMS_TIME_INFO_Unmarshal>>>>)

TSS_GetCapability_Out_Unmarshal == Response(<<>>, <<
    <<"moreData", TPMI_YES_NO_Unmarshal>>,
    <<"capabilityData", TPMS_CAPABILITY_DATA_Unmarshal>>>>)

TSS_NV_ReadPublic_Out_Unmarshal == Response(<<>>, <<
    <<"nvPublic", TPM2B_NV_PUBLIC_Unmarshal>>,
    <<"nvName", TPM2B_NAME_Unmarshal>>>>)

TSS_NV_Read_Out_Unmarshal == Response(<<>>, <<<<"data", TPM2B_MAX_NV_BUFFER_Unmarshal>>>>)

TSS_NV_Certify_Out_Unmarshal == Response(<<>>, <<
    <<"certifyInfo", TPM2B_ATTEST_Unmarshal>>,
    <<"signature", TPMT_SIGNATURE_Unmarshal(FALSE)>>>>)

====================================================================================
