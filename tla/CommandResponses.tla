----------------------------- MODULE CommandResponses -----------------------------
(*****************************************************************************)
(* What the TPM answers: the handles and the parameters of each response, in *)
(* the order of the structures that the headers of tss2 declare.             *)
(*****************************************************************************)
EXTENDS TssMarshal, CommandAttributes

Answer(handles, fields) == [handles |-> Struct(handles), parameters |-> Struct(fields)]

ActivateCredential_Out == Answer(<<>>, <<<<"certInfo", TSS_TPM2B_DIGEST_Marshal>>>>)

Certify_Out == Answer(<<>>, <<
    <<"certifyInfo", TSS_TPM2B_ATTEST_Marshal>>,
    <<"signature", TSS_TPMT_SIGNATURE_Marshal>>>>)

CertifyCreation_Out == Answer(<<>>, <<
    <<"certifyInfo", TSS_TPM2B_ATTEST_Marshal>>,
    <<"signature", TSS_TPMT_SIGNATURE_Marshal>>>>)

Commit_Out == Answer(<<>>, <<
    <<"K", TSS_TPM2B_ECC_POINT_Marshal>>,
    <<"L", TSS_TPM2B_ECC_POINT_Marshal>>,
    <<"E", TSS_TPM2B_ECC_POINT_Marshal>>,
    <<"counter", TSS_UINT16_Marshal>>>>)

ContextLoad_Out == Answer(<<<<"loadedHandle", TSS_TPMI_DH_CONTEXT_Marshal>>>>, <<>>)
ContextSave_Out == Answer(<<>>, <<<<"context", TSS_TPMS_CONTEXT_Marshal>>>>)

Create_Out == Answer(<<>>, <<
    <<"outPrivate", TSS_TPM2B_PRIVATE_Marshal>>,
    <<"outPublic", TSS_TPM2B_PUBLIC_Marshal>>,
    <<"creationData", TSS_TPM2B_CREATION_DATA_Marshal>>,
    <<"creationHash", TSS_TPM2B_DIGEST_Marshal>>,
    <<"creationTicket", TSS_TPMT_TK_CREATION_Marshal>>>>)

CreateLoaded_Out == Answer(<<<<"objectHandle", TSS_TPM_HANDLE_Marshal>>>>, <<
    <<"outPrivate", TSS_TPM2B_PRIVATE_Marshal>>,
    <<"outPublic", TSS_TPM2B_PUBLIC_Marshal>>,
    <<"name", TSS_TPM2B_NAME_Marshal>>>>)

CreatePrimary_Out == Answer(<<<<"objectHandle", TSS_TPM_HANDLE_Marshal>>>>, <<
    <<"outPublic", TSS_TPM2B_PUBLIC_Marshal>>,
    <<"creationData", TSS_TPM2B_CREATION_DATA_Marshal>>,
    <<"creationHash", TSS_TPM2B_DIGEST_Marshal>>,
    <<"creationTicket", TSS_TPMT_TK_CREATION_Marshal>>,
    <<"name", TSS_TPM2B_NAME_Marshal>>>>)

Duplicate_Out == Answer(<<>>, <<
    <<"encryptionKeyOut", TSS_TPM2B_DATA_Marshal>>,
    <<"duplicate", TSS_TPM2B_PRIVATE_Marshal>>,
    <<"outSymSeed", TSS_TPM2B_ENCRYPTED_SECRET_Marshal>>>>)

ECC_Parameters_Out == Answer(<<>>, <<<<"parameters", TSS_TPMS_ALGORITHM_DETAIL_ECC_Marshal>>>>)

ECDH_KeyGen_Out == Answer(<<>>, <<
    <<"zPoint", TSS_TPM2B_ECC_POINT_Marshal>>,
    <<"pubPoint", TSS_TPM2B_ECC_POINT_Marshal>>>>)

ECDH_ZGen_Out == Answer(<<>>, <<<<"outPoint", TSS_TPM2B_ECC_POINT_Marshal>>>>)

EC_Ephemeral_Out == Answer(<<>>, <<
    <<"Q", TSS_TPM2B_ECC_POINT_Marshal>>,
    <<"counter", TSS_UINT16_Marshal>>>>)

EncryptDecrypt_Out == Answer(<<>>, <<
    <<"outData", TSS_TPM2B_MAX_BUFFER_Marshal>>,
    <<"ivOut", TSS_TPM2B_IV_Marshal>>>>)

EncryptDecrypt2_Out == Answer(<<>>, <<
    <<"outData", TSS_TPM2B_MAX_BUFFER_Marshal>>,
    <<"ivOut", TSS_TPM2B_IV_Marshal>>>>)

EventSequenceComplete_Out == Answer(<<>>, <<<<"results", TSS_TPML_DIGEST_VALUES_Marshal>>>>)

GetCapability_Out == Answer(<<>>, <<
    <<"moreData", TSS_TPMI_YES_NO_Marshal>>,
    <<"capabilityData", TSS_TPMS_CAPABILITY_DATA_Marshal>>>>)

GetCommandAuditDigest_Out == Answer(<<>>, <<
    <<"auditInfo", TSS_TPM2B_ATTEST_Marshal>>,
    <<"signature", TSS_TPMT_SIGNATURE_Marshal>>>>)

GetRandom_Out == Answer(<<>>, <<<<"randomBytes", TSS_TPM2B_DIGEST_Marshal>>>>)

GetSessionAuditDigest_Out == Answer(<<>>, <<
    <<"auditInfo", TSS_TPM2B_ATTEST_Marshal>>,
    <<"signature", TSS_TPMT_SIGNATURE_Marshal>>>>)

GetTestResult_Out == Answer(<<>>, <<
    <<"outData", TSS_TPM2B_MAX_BUFFER_Marshal>>,
    <<"testResult", TSS_TPM_RC_Marshal>>>>)

GetTime_Out == Answer(<<>>, <<
    <<"timeInfo", TSS_TPM2B_ATTEST_Marshal>>,
    <<"signature", TSS_TPMT_SIGNATURE_Marshal>>>>)

HMAC_Out == Answer(<<>>, <<<<"outHMAC", TSS_TPM2B_DIGEST_Marshal>>>>)
HMAC_Start_Out == Answer(<<<<"sequenceHandle", TSS_TPMI_DH_OBJECT_Marshal>>>>, <<>>)

Hash_Out == Answer(<<>>, <<
    <<"outHash", TSS_TPM2B_DIGEST_Marshal>>,
    <<"validation", TSS_TPMT_TK_HASHCHECK_Marshal>>>>)

HashSequenceStart_Out == Answer(<<<<"sequenceHandle", TSS_TPMI_DH_OBJECT_Marshal>>>>, <<>>)
Import_Out == Answer(<<>>, <<<<"outPrivate", TSS_TPM2B_PRIVATE_Marshal>>>>)
IncrementalSelfTest_Out == Answer(<<>>, <<<<"toDoList", TSS_TPML_ALG_Marshal>>>>)
Load_Out == Answer(<<<<"objectHandle", TSS_TPM_HANDLE_Marshal>>>>, <<<<"name", TSS_TPM2B_NAME_Marshal>>>>)
LoadExternal_Out == Answer(<<<<"objectHandle", TSS_TPM_HANDLE_Marshal>>>>, <<<<"name", TSS_TPM2B_NAME_Marshal>>>>)

MakeCredential_Out == Answer(<<>>, <<
    <<"credentialBlob", TSS_TPM2B_ID_OBJECT_Marshal>>,
    <<"secret", TSS_TPM2B_ENCRYPTED_SECRET_Marshal>>>>)

NV_Certify_Out == Answer(<<>>, <<
    <<"certifyInfo", TSS_TPM2B_ATTEST_Marshal>>,
    <<"signature", TSS_TPMT_SIGNATURE_Marshal>>>>)

NV_Read_Out == Answer(<<>>, <<<<"data", TSS_TPM2B_MAX_NV_BUFFER_Marshal>>>>)

NV_ReadPublic_Out == Answer(<<>>, <<
    <<"nvPublic", TSS_TPM2B_NV_PUBLIC_Marshal>>,
    <<"nvName", TSS_TPM2B_NAME_Marshal>>>>)

ObjectChangeAuth_Out == Answer(<<>>, <<<<"outPrivate", TSS_TPM2B_PRIVATE_Marshal>>>>)

PCR_Allocate_Out == Answer(<<>>, <<
    <<"allocationSuccess", TSS_TPMI_YES_NO_Marshal>>,
    <<"maxPCR", TSS_UINT32_Marshal>>,
    <<"sizeNeeded", TSS_UINT32_Marshal>>,
    <<"sizeAvailable", TSS_UINT32_Marshal>>>>)

PCR_Event_Out == Answer(<<>>, <<<<"digests", TSS_TPML_DIGEST_VALUES_Marshal>>>>)

PCR_Read_Out == Answer(<<>>, <<
    <<"pcrUpdateCounter", TSS_UINT32_Marshal>>,
    <<"pcrSelectionOut", TSS_TPML_PCR_SELECTION_Marshal>>,
    <<"pcrValues", TSS_TPML_DIGEST_Marshal>>>>)

PolicyGetDigest_Out == Answer(<<>>, <<<<"policyDigest", TSS_TPM2B_DIGEST_Marshal>>>>)

PolicySecret_Out == Answer(<<>>, <<
    <<"timeout", TSS_TPM2B_TIMEOUT_Marshal>>,
    <<"policyTicket", TSS_TPMT_TK_AUTH_Marshal>>>>)

PolicySigned_Out == Answer(<<>>, <<
    <<"timeout", TSS_TPM2B_TIMEOUT_Marshal>>,
    <<"policyTicket", TSS_TPMT_TK_AUTH_Marshal>>>>)

Quote_Out == Answer(<<>>, <<
    <<"quoted", TSS_TPM2B_ATTEST_Marshal>>,
    <<"signature", TSS_TPMT_SIGNATURE_Marshal>>>>)

RSA_Decrypt_Out == Answer(<<>>, <<<<"message", TSS_TPM2B_PUBLIC_KEY_RSA_Marshal>>>>)
RSA_Encrypt_Out == Answer(<<>>, <<<<"outData", TSS_TPM2B_PUBLIC_KEY_RSA_Marshal>>>>)
ReadClock_Out == Answer(<<>>, <<<<"currentTime", TSS_TPMS_TIME_INFO_Marshal>>>>)

ReadPublic_Out == Answer(<<>>, <<
    <<"outPublic", TSS_TPM2B_PUBLIC_Marshal>>,
    <<"name", TSS_TPM2B_NAME_Marshal>>,
    <<"qualifiedName", TSS_TPM2B_NAME_Marshal>>>>)

Rewrap_Out == Answer(<<>>, <<
    <<"outDuplicate", TSS_TPM2B_PRIVATE_Marshal>>,
    <<"outSymSeed", TSS_TPM2B_ENCRYPTED_SECRET_Marshal>>>>)

SequenceComplete_Out == Answer(<<>>, <<
    <<"result", TSS_TPM2B_DIGEST_Marshal>>,
    <<"validation", TSS_TPMT_TK_HASHCHECK_Marshal>>>>)

Sign_Out == Answer(<<>>, <<<<"signature", TSS_TPMT_SIGNATURE_Marshal>>>>)
StartAuthSession_Out == Answer(<<<<"sessionHandle", TSS_TPMI_SH_AUTH_SESSION_Marshal>>>>, <<<<"nonceTPM", TSS_TPM2B_NONCE_Marshal>>>>)
Unseal_Out == Answer(<<>>, <<<<"outData", TSS_TPM2B_SENSITIVE_DATA_Marshal>>>>)
VerifySignature_Out == Answer(<<>>, <<<<"validation", TSS_TPMT_TK_VERIFIED_Marshal>>>>)

ZGen_2Phase_Out == Answer(<<>>, <<
    <<"outZ1", TSS_TPM2B_ECC_POINT_Marshal>>,
    <<"outZ2", TSS_TPM2B_ECC_POINT_Marshal>>>>)

Responses ==
  [ActivateCredential |-> ActivateCredential_Out, Certify |-> Certify_Out,
   CertifyCreation |-> CertifyCreation_Out, Commit |-> Commit_Out,
   ContextLoad |-> ContextLoad_Out, ContextSave |-> ContextSave_Out, Create |-> Create_Out,
   CreateLoaded |-> CreateLoaded_Out, CreatePrimary |-> CreatePrimary_Out,
   Duplicate |-> Duplicate_Out, ECC_Parameters |-> ECC_Parameters_Out,
   ECDH_KeyGen |-> ECDH_KeyGen_Out, ECDH_ZGen |-> ECDH_ZGen_Out,
   EC_Ephemeral |-> EC_Ephemeral_Out, EncryptDecrypt |-> EncryptDecrypt_Out,
   EncryptDecrypt2 |-> EncryptDecrypt2_Out, EventSequenceComplete |-> EventSequenceComplete_Out,
   GetCapability |-> GetCapability_Out, GetCommandAuditDigest |-> GetCommandAuditDigest_Out,
   GetRandom |-> GetRandom_Out, GetSessionAuditDigest |-> GetSessionAuditDigest_Out,
   GetTestResult |-> GetTestResult_Out, GetTime |-> GetTime_Out, HMAC |-> HMAC_Out,
   HMAC_Start |-> HMAC_Start_Out, Hash |-> Hash_Out,
   HashSequenceStart |-> HashSequenceStart_Out, Import |-> Import_Out,
   IncrementalSelfTest |-> IncrementalSelfTest_Out, Load |-> Load_Out,
   LoadExternal |-> LoadExternal_Out, MakeCredential |-> MakeCredential_Out,
   NV_Certify |-> NV_Certify_Out, NV_Read |-> NV_Read_Out, NV_ReadPublic |-> NV_ReadPublic_Out,
   ObjectChangeAuth |-> ObjectChangeAuth_Out, PCR_Allocate |-> PCR_Allocate_Out,
   PCR_Event |-> PCR_Event_Out, PCR_Read |-> PCR_Read_Out,
   PolicyGetDigest |-> PolicyGetDigest_Out, PolicySecret |-> PolicySecret_Out,
   PolicySigned |-> PolicySigned_Out, Quote |-> Quote_Out, RSA_Decrypt |-> RSA_Decrypt_Out,
   RSA_Encrypt |-> RSA_Encrypt_Out, ReadClock |-> ReadClock_Out, ReadPublic |-> ReadPublic_Out,
   Rewrap |-> Rewrap_Out, SequenceComplete |-> SequenceComplete_Out, Sign |-> Sign_Out,
   StartAuthSession |-> StartAuthSession_Out, Unseal |-> Unseal_Out,
   VerifySignature |-> VerifySignature_Out, ZGen_2Phase |-> ZGen_2Phase_Out]

TpmResponse[command \in DOMAIN TPM_CC] ==
  IF command \in DOMAIN Responses THEN Responses[command] ELSE Answer(<<>>, <<>>)

===================================================================================
