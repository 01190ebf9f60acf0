-------------------------------- MODULE TssMarshal --------------------------------
(*****************************************************************************)
(* tssmarshal.c: what the marshaling function of each structure writes. They *)
(* check no limit: a union refuses a selector it has no case for, and a list *)
(* writes as many elements as its count says.                                *)
(*****************************************************************************)
EXTENDS Wire, TpmTypes

TSS_UINT8_Marshal == Number(1)
TSS_INT8_Marshal == TSS_UINT8_Marshal
TSS_UINT16_Marshal == Number(2)
TSS_UINT32_Marshal == Number(4)
TSS_INT32_Marshal == TSS_UINT32_Marshal
TSS_UINT64_Marshal == Number(8)
TSS_TPM2B_Marshal == Buffer(65535)
TSS_TPM_KEY_BITS_Marshal == TSS_UINT16_Marshal
TSS_TPM_GENERATED_Marshal == TSS_UINT32_Marshal
TSS_TPM_ALG_ID_Marshal == TSS_UINT16_Marshal
TSS_TPM_ECC_CURVE_Marshal == TSS_UINT16_Marshal
TSS_TPM_RC_Marshal == TSS_UINT32_Marshal
TSS_TPM_CLOCK_ADJUST_Marshal == TSS_INT8_Marshal
TSS_TPM_EO_Marshal == TSS_UINT16_Marshal
TSS_TPM_ST_Marshal == TSS_UINT16_Marshal
TSS_TPM_SU_Marshal == TSS_UINT16_Marshal
TSS_TPM_SE_Marshal == TSS_UINT8_Marshal
TSS_TPM_CAP_Marshal == TSS_UINT32_Marshal
TSS_TPM_PT_Marshal == TSS_UINT32_Marshal
TSS_TPM_PT_PCR_Marshal == TSS_UINT32_Marshal
TSS_TPM_HANDLE_Marshal == TSS_UINT32_Marshal
TSS_TPMA_ALGORITHM_Marshal == TSS_UINT32_Marshal
TSS_TPMA_OBJECT_Marshal == TSS_UINT32_Marshal
TSS_TPMA_SESSION_Marshal == TSS_UINT8_Marshal
TSS_TPMA_LOCALITY_Marshal == TSS_UINT8_Marshal
TSS_TPM_CC_Marshal == TSS_UINT32_Marshal
TSS_TPMA_CC_Marshal == TSS_UINT32_Marshal
TSS_TPMI_YES_NO_Marshal == TSS_UINT8_Marshal
TSS_TPMI_DH_OBJECT_Marshal == TSS_TPM_HANDLE_Marshal
TSS_TPMI_DH_PERSISTENT_Marshal == TSS_TPM_HANDLE_Marshal
TSS_TPMI_DH_ENTITY_Marshal == TSS_TPM_HANDLE_Marshal
TSS_TPMI_DH_PCR_Marshal == TSS_TPM_HANDLE_Marshal
TSS_TPMI_SH_AUTH_SESSION_Marshal == TSS_TPM_HANDLE_Marshal
TSS_TPMI_SH_HMAC_Marshal == TSS_TPM_HANDLE_Marshal
TSS_TPMI_SH_POLICY_Marshal == TSS_TPM_HANDLE_Marshal
TSS_TPMI_DH_CONTEXT_Marshal == TSS_TPM_HANDLE_Marshal
TSS_TPMI_RH_HIERARCHY_Marshal == TSS_TPM_HANDLE_Marshal
TSS_TPMI_RH_ENABLES_Marshal == TSS_TPM_HANDLE_Marshal
TSS_TPMI_RH_HIERARCHY_AUTH_Marshal == TSS_TPM_HANDLE_Marshal
TSS_TPMI_RH_PLATFORM_Marshal == TSS_TPM_HANDLE_Marshal
TSS_TPMI_RH_ENDORSEMENT_Marshal == TSS_TPM_HANDLE_Marshal
TSS_TPMI_RH_PROVISION_Marshal == TSS_TPM_HANDLE_Marshal
TSS_TPMI_RH_CLEAR_Marshal == TSS_TPM_HANDLE_Marshal
TSS_TPMI_RH_NV_AUTH_Marshal == TSS_TPM_HANDLE_Marshal
TSS_TPMI_RH_LOCKOUT_Marshal == TSS_TPM_HANDLE_Marshal
TSS_TPMI_RH_NV_INDEX_Marshal == TSS_TPM_HANDLE_Marshal
TSS_TPMI_ALG_HASH_Marshal == TSS_TPM_ALG_ID_Marshal
TSS_TPMI_ALG_SYM_Marshal == TSS_TPM_ALG_ID_Marshal
TSS_TPMI_ALG_SYM_OBJECT_Marshal == TSS_TPM_ALG_ID_Marshal
TSS_TPMI_ALG_SYM_MODE_Marshal == TSS_TPM_ALG_ID_Marshal
TSS_TPMI_ALG_KDF_Marshal == TSS_TPM_ALG_ID_Marshal
TSS_TPMI_ALG_SIG_SCHEME_Marshal == TSS_TPM_ALG_ID_Marshal
TSS_TPMI_ECC_KEY_EXCHANGE_Marshal == TSS_TPM_ALG_ID_Marshal
TSS_TPMI_ST_COMMAND_TAG_Marshal == TSS_TPM_ST_Marshal

TSS_TPMU_HA_Marshal == Union(
    TPM_ALG.SHA1 :> Array(SHA1_DIGEST_SIZE) @@
    TPM_ALG.SHA256 :> Array(SHA256_DIGEST_SIZE) @@
    TPM_ALG.SHA384 :> Array(SHA384_DIGEST_SIZE) @@
    TPM_ALG.NULL :> Nothing)

TSS_TPMT_HA_Marshal == Struct(<<
    <<"hashAlg", TSS_TPMI_ALG_HASH_Marshal>>,
    <<"digest", TSS_TPMU_HA_Marshal, "hashAlg">>>>)

TSS_TPM2B_DIGEST_Marshal == TSS_TPM2B_Marshal
TSS_TPM2B_DATA_Marshal == TSS_TPM2B_Marshal
TSS_TPM2B_NONCE_Marshal == TSS_TPM2B_DIGEST_Marshal
TSS_TPM2B_AUTH_Marshal == TSS_TPM2B_DIGEST_Marshal
TSS_TPM2B_OPERAND_Marshal == TSS_TPM2B_DIGEST_Marshal
TSS_TPM2B_EVENT_Marshal == TSS_TPM2B_Marshal
TSS_TPM2B_MAX_BUFFER_Marshal == TSS_TPM2B_Marshal
TSS_TPM2B_MAX_NV_BUFFER_Marshal == TSS_TPM2B_Marshal
TSS_TPM2B_TIMEOUT_Marshal == TSS_TPM2B_DIGEST_Marshal
TSS_TPM2B_IV_Marshal == TSS_TPM2B_Marshal
TSS_TPM2B_NAME_Marshal == TSS_TPM2B_Marshal

TSS_TPMS_PCR_SELECTION_Marshal == Struct(<<
    <<"hash", TSS_TPMI_ALG_HASH_Marshal>>,
    <<"sizeofSelect", TSS_UINT8_Marshal>>,
    <<"pcrSelect", Array(PCR_SELECT_MAX)>>>>)

TSS_TPMT_TK_CREATION_Marshal == Struct(<<
    <<"tag", TSS_TPM_ST_Marshal>>,
    <<"hierarchy", TSS_TPMI_RH_HIERARCHY_Marshal>>,
    <<"digest", TSS_TPM2B_DIGEST_Marshal>>>>)

TSS_TPMT_TK_VERIFIED_Marshal == Struct(<<
    <<"tag", TSS_TPM_ST_Marshal>>,
    <<"hierarchy", TSS_TPMI_RH_HIERARCHY_Marshal>>,
    <<"digest", TSS_TPM2B_DIGEST_Marshal>>>>)

TSS_TPMT_TK_AUTH_Marshal == Struct(<<
    <<"tag", TSS_TPM_ST_Marshal>>,
    <<"hierarchy", TSS_TPMI_RH_HIERARCHY_Marshal>>,
    <<"digest", TSS_TPM2B_DIGEST_Marshal>>>>)

TSS_TPMT_TK_HASHCHECK_Marshal == Struct(<<
    <<"tag", TSS_TPM_ST_Marshal>>,
    <<"hierarchy", TSS_TPMI_RH_HIERARCHY_Marshal>>,
    <<"digest", TSS_TPM2B_DIGEST_Marshal>>>>)

TSS_TPMS_ALG_PROPERTY_Marshal == Struct(<<
    <<"alg", TSS_TPM_ALG_ID_Marshal>>,
    <<"algProperties", TSS_TPMA_ALGORITHM_Marshal>>>>)

TSS_TPMS_TAGGED_PROPERTY_Marshal == Struct(<<
    <<"property", TSS_TPM_PT_Marshal>>,
    <<"value", TSS_UINT32_Marshal>>>>)

TSS_TPMS_TAGGED_PCR_SELECT_Marshal == Struct(<<
    <<"tag", TSS_TPM_PT_PCR_Marshal>>,
    <<"sizeofSelect", TSS_UINT8_Marshal>>,
    <<"pcrSelect", Array(PCR_SELECT_MAX)>>>>)

TSS_TPML_CC_Marshal == List(0, 65535, TSS_TPM_CC_Marshal)
TSS_TPML_CCA_Marshal == List(0, 65535, TSS_TPMA_CC_Marshal)
TSS_TPML_ALG_Marshal == List(0, 65535, TSS_TPM_ALG_ID_Marshal)
TSS_TPML_HANDLE_Marshal == List(0, 65535, TSS_TPM_HANDLE_Marshal)
TSS_TPML_DIGEST_Marshal == List(0, 65535, TSS_TPM2B_DIGEST_Marshal)
TSS_TPML_DIGEST_VALUES_Marshal == List(0, 65535, TSS_TPMT_HA_Marshal)
TSS_TPML_PCR_SELECTION_Marshal == List(0, 65535, TSS_TPMS_PCR_SELECTION_Marshal)
TSS_TPML_ALG_PROPERTY_Marshal == List(0, 65535, TSS_TPMS_ALG_PROPERTY_Marshal)
TSS_TPML_TAGGED_TPM_PROPERTY_Marshal == List(0, 65535, TSS_TPMS_TAGGED_PROPERTY_Marshal)
TSS_TPML_TAGGED_PCR_PROPERTY_Marshal == List(0, 65535, TSS_TPMS_TAGGED_PCR_SELECT_Marshal)
TSS_TPML_ECC_CURVE_Marshal == List(0, 65535, TSS_TPM_ECC_CURVE_Marshal)

TSS_TPMU_CAPABILITIES_Marshal == Union(
    TPM_CAP.ALGS :> TSS_TPML_ALG_PROPERTY_Marshal @@
    TPM_CAP.HANDLES :> TSS_TPML_HANDLE_Marshal @@
    TPM_CAP.COMMANDS :> TSS_TPML_CCA_Marshal @@
    TPM_CAP.PP_COMMANDS :> TSS_TPML_CC_Marshal @@
    TPM_CAP.AUDIT_COMMANDS :> TSS_TPML_CC_Marshal @@
    TPM_CAP.PCRS :> TSS_TPML_PCR_SELECTION_Marshal @@
    TPM_CAP.TPM_PROPERTIES :> TSS_TPML_TAGGED_TPM_PROPERTY_Marshal @@
    TPM_CAP.PCR_PROPERTIES :> TSS_TPML_TAGGED_PCR_PROPERTY_Marshal @@
    TPM_CAP.ECC_CURVES :> TSS_TPML_ECC_CURVE_Marshal)

TSS_TPMS_CAPABILITY_DATA_Marshal == Struct(<<
    <<"capability", TSS_TPM_CAP_Marshal>>,
    <<"data", TSS_TPMU_CAPABILITIES_Marshal, "capability">>>>)

TSS_TPMS_CLOCK_INFO_Marshal == Struct(<<
    <<"clock", TSS_UINT64_Marshal>>,
    <<"resetCount", TSS_UINT32_Marshal>>,
    <<"restartCount", TSS_UINT32_Marshal>>,
    <<"safe", TSS_TPMI_YES_NO_Marshal>>>>)

TSS_TPMS_TIME_INFO_Marshal == Struct(<<
    <<"time", TSS_UINT64_Marshal>>,
    <<"clockInfo", TSS_TPMS_CLOCK_INFO_Marshal>>>>)

TSS_TPMS_TIME_ATTEST_INFO_Marshal == Struct(<<
    <<"time", TSS_TPMS_TIME_INFO_Marshal>>,
    <<"firmwareVersion", TSS_UINT64_Marshal>>>>)

TSS_TPMS_CERTIFY_INFO_Marshal == Struct(<<
    <<"name", TSS_TPM2B_NAME_Marshal>>,
    <<"qualifiedName", TSS_TPM2B_NAME_Marshal>>>>)

TSS_TPMS_QUOTE_INFO_Marshal == Struct(<<
    <<"pcrSelect", TSS_TPML_PCR_SELECTION_Marshal>>,
    <<"pcrDigest", TSS_TPM2B_DIGEST_Marshal>>>>)

TSS_TPMS_COMMAND_AUDIT_INFO_Marshal == Struct(<<
    <<"auditCounter", TSS_UINT64_Marshal>>,
    <<"digestAlg", TSS_TPM_ALG_ID_Marshal>>,
    <<"auditDigest", TSS_TPM2B_DIGEST_Marshal>>,
    <<"commandDigest", TSS_TPM2B_DIGEST_Marshal>>>>)

TSS_TPMS_SESSION_AUDIT_INFO_Marshal == Struct(<<
    <<"exclusiveSession", TSS_TPMI_YES_NO_Marshal>>,
    <<"sessionDigest", TSS_TPM2B_DIGEST_Marshal>>>>)

TSS_TPMS_CREATION_INFO_Marshal == Struct(<<
    <<"objectName", TSS_TPM2B_NAME_Marshal>>,
    <<"creationHash", TSS_TPM2B_DIGEST_Marshal>>>>)

TSS_TPMS_NV_CERTIFY_INFO_Marshal == Struct(<<
    <<"indexName", TSS_TPM2B_NAME_Marshal>>,
    <<"offset", TSS_UINT16_Marshal>>,
    <<"nvContents", TSS_TPM2B_MAX_NV_BUFFER_Marshal>>>>)

TSS_TPMI_ST_ATTEST_Marshal == TSS_TPM_ST_Marshal

TSS_TPMU_ATTEST_Marshal == Union(
    TPM_ST.ATTEST_CERTIFY :> TSS_TPMS_CERTIFY_INFO_Marshal @@
    TPM_ST.ATTEST_CREATION :> TSS_TPMS_CREATION_INFO_Marshal @@
    TPM_ST.ATTEST_QUOTE :> TSS_TPMS_QUOTE_INFO_Marshal @@
    TPM_ST.ATTEST_COMMAND_AUDIT :> TSS_TPMS_COMMAND_AUDIT_INFO_Marshal @@
    TPM_ST.ATTEST_SESSION_AUDIT :> TSS_TPMS_SESSION_AUDIT_INFO_Marshal @@
    TPM_ST.ATTEST_TIME :> TSS_TPMS_TIME_ATTEST_INFO_Marshal @@
    TPM_ST.ATTEST_NV :> TSS_TPMS_NV_CERTIFY_INFO_Marshal)

TSS_TPMS_ATTEST_Marshal == Struct(<<
    <<"magic", TSS_TPM_GENERATED_Marshal>>,
    <<"type", TSS_TPMI_ST_ATTEST_Marshal>>,
    <<"qualifiedSigner", TSS_TPM2B_NAME_Marshal>>,
    <<"extraData", TSS_TPM2B_DATA_Marshal>>,
    <<"clockInfo", TSS_TPMS_CLOCK_INFO_Marshal>>,
    <<"firmwareVersion", TSS_UINT64_Marshal>>,
    <<"attested", TSS_TPMU_ATTEST_Marshal, "type">>>>)

TSS_TPM2B_ATTEST_Marshal == TSS_TPM2B_Marshal

TSS_TPMS_AUTH_COMMAND_Marshal == Struct(<<
    <<"sessionHandle", TSS_TPMI_SH_AUTH_SESSION_Marshal>>,
    <<"nonce", TSS_TPM2B_NONCE_Marshal>>,
    <<"sessionAttributes", TSS_TPMA_SESSION_Marshal>>,
    <<"hmac", TSS_TPM2B_AUTH_Marshal>>>>)

TSS_TPMI_AES_KEY_BITS_Marshal == TSS_TPM_KEY_BITS_Marshal

TSS_TPMU_SYM_KEY_BITS_Marshal == UnionOrNothing(
    TPM_ALG.AES :> TSS_TPMI_AES_KEY_BITS_Marshal @@
    TPM_ALG.XOR :> TSS_TPMI_ALG_HASH_Marshal @@
    TPM_ALG.NULL :> Nothing)

TSS_TPMU_SYM_MODE_Marshal == Union(
    TPM_ALG.AES :> TSS_TPMI_ALG_SYM_MODE_Marshal @@
    TPM_ALG.XOR :> Nothing @@
    TPM_ALG.NULL :> Nothing)

TSS_TPMT_SYM_DEF_Marshal == Struct(<<
    <<"algorithm", TSS_TPMI_ALG_SYM_Marshal>>,
    <<"keyBits", TSS_TPMU_SYM_KEY_BITS_Marshal, "algorithm">>,
    <<"mode", TSS_TPMU_SYM_MODE_Marshal, "algorithm">>>>)

TSS_TPMT_SYM_DEF_OBJECT_Marshal == Struct(<<
    <<"algorithm", TSS_TPMI_ALG_SYM_OBJECT_Marshal>>,
    <<"keyBits", TSS_TPMU_SYM_KEY_BITS_Marshal, "algorithm">>,
    <<"mode", TSS_TPMU_SYM_MODE_Marshal, "algorithm">>>>)

TSS_TPM2B_SYM_KEY_Marshal == TSS_TPM2B_Marshal
TSS_TPM2B_LABEL_Marshal == TSS_TPM2B_Marshal
TSS_TPMS_SYMCIPHER_PARMS_Marshal == Struct(<<<<"sym", TSS_TPMT_SYM_DEF_OBJECT_Marshal>>>>)
TSS_TPM2B_SENSITIVE_DATA_Marshal == TSS_TPM2B_Marshal

TSS_TPMS_SENSITIVE_CREATE_Marshal == Struct(<<
    <<"userAuth", TSS_TPM2B_AUTH_Marshal>>,
    <<"data", TSS_TPM2B_SENSITIVE_DATA_Marshal>>>>)

TSS_TPM2B_SENSITIVE_CREATE_Marshal == Sized(TSS_TPMS_SENSITIVE_CREATE_Marshal)
TSS_TPMS_SCHEME_HASH_Marshal == Struct(<<<<"hashAlg", TSS_TPMI_ALG_HASH_Marshal>>>>)

TSS_TPMS_SCHEME_ECDAA_Marshal == Struct(<<
    <<"hashAlg", TSS_TPMI_ALG_HASH_Marshal>>,
    <<"count", TSS_UINT16_Marshal>>>>)

TSS_TPMI_ALG_KEYEDHASH_SCHEME_Marshal == TSS_TPM_ALG_ID_Marshal
TSS_TPMS_SCHEME_HMAC_Marshal == TSS_TPMS_SCHEME_HASH_Marshal

TSS_TPMS_SCHEME_XOR_Marshal == Struct(<<
    <<"hashAlg", TSS_TPMI_ALG_HASH_Marshal>>,
    <<"kdf", TSS_TPMI_ALG_KDF_Marshal>>>>)

TSS_TPMU_SCHEME_KEYEDHASH_Marshal == Union(
    TPM_ALG.HMAC :> TSS_TPMS_SCHEME_HMAC_Marshal @@
    TPM_ALG.XOR :> TSS_TPMS_SCHEME_XOR_Marshal @@
    TPM_ALG.NULL :> Nothing)

TSS_TPMT_KEYEDHASH_SCHEME_Marshal == Struct(<<
    <<"scheme", TSS_TPMI_ALG_KEYEDHASH_SCHEME_Marshal>>,
    <<"details", TSS_TPMU_SCHEME_KEYEDHASH_Marshal, "scheme">>>>)

TSS_TPMS_SIG_SCHEME_RSASSA_Marshal == TSS_TPMS_SCHEME_HASH_Marshal
TSS_TPMS_SIG_SCHEME_RSAPSS_Marshal == TSS_TPMS_SCHEME_HASH_Marshal
TSS_TPMS_SIG_SCHEME_ECDSA_Marshal == TSS_TPMS_SCHEME_HASH_Marshal
TSS_TPMS_SIG_SCHEME_SM2_Marshal == TSS_TPMS_SCHEME_HASH_Marshal
TSS_TPMS_SIG_SCHEME_ECSCHNORR_Marshal == TSS_TPMS_SCHEME_HASH_Marshal
TSS_TPMS_SIG_SCHEME_ECDAA_Marshal == TSS_TPMS_SCHEME_ECDAA_Marshal

TSS_TPMU_SIG_SCHEME_Marshal == Union(
    TPM_ALG.RSASSA :> TSS_TPMS_SIG_SCHEME_RSASSA_Marshal @@
    TPM_ALG.RSAPSS :> TSS_TPMS_SIG_SCHEME_RSAPSS_Marshal @@
    TPM_ALG.ECDSA :> TSS_TPMS_SIG_SCHEME_ECDSA_Marshal @@
    TPM_ALG.ECDAA :> TSS_TPMS_SIG_SCHEME_ECDAA_Marshal @@
    TPM_ALG.SM2 :> TSS_TPMS_SIG_SCHEME_SM2_Marshal @@
    TPM_ALG.ECSCHNORR :> TSS_TPMS_SIG_SCHEME_ECSCHNORR_Marshal @@
    TPM_ALG.HMAC :> TSS_TPMS_SCHEME_HMAC_Marshal @@
    TPM_ALG.NULL :> Nothing)

TSS_TPMT_SIG_SCHEME_Marshal == Struct(<<
    <<"scheme", TSS_TPMI_ALG_SIG_SCHEME_Marshal>>,
    <<"details", TSS_TPMU_SIG_SCHEME_Marshal, "scheme">>>>)

TSS_TPMS_ENC_SCHEME_OAEP_Marshal == TSS_TPMS_SCHEME_HASH_Marshal
TSS_TPMS_ENC_SCHEME_RSAES_Marshal == Nothing
TSS_TPMS_KEY_SCHEME_ECDH_Marshal == TSS_TPMS_SCHEME_HASH_Marshal
TSS_TPMS_KEY_SCHEME_ECMQV_Marshal == TSS_TPMS_SCHEME_HASH_Marshal
TSS_TPMS_SCHEME_MGF1_Marshal == TSS_TPMS_SCHEME_HASH_Marshal
TSS_TPMS_SCHEME_KDF1_SP800_56A_Marshal == TSS_TPMS_SCHEME_HASH_Marshal
TSS_TPMS_SCHEME_KDF2_Marshal == TSS_TPMS_SCHEME_HASH_Marshal
TSS_TPMS_SCHEME_KDF1_SP800_108_Marshal == TSS_TPMS_SCHEME_HASH_Marshal

TSS_TPMU_KDF_SCHEME_Marshal == Union(
    TPM_ALG.MGF1 :> TSS_TPMS_SCHEME_MGF1_Marshal @@
    TPM_ALG.KDF1_SP800_56A :> TSS_TPMS_SCHEME_KDF1_SP800_56A_Marshal @@
    TPM_ALG.KDF1_SP800_108 :> TSS_TPMS_SCHEME_KDF1_SP800_108_Marshal @@
    TPM_ALG.NULL :> Nothing)

TSS_TPMT_KDF_SCHEME_Marshal == Struct(<<
    <<"scheme", TSS_TPMI_ALG_KDF_Marshal>>,
    <<"details", TSS_TPMU_KDF_SCHEME_Marshal, "scheme">>>>)

TSS_TPMU_ASYM_SCHEME_Marshal == Union(
    TPM_ALG.ECDH :> TSS_TPMS_KEY_SCHEME_ECDH_Marshal @@
    TPM_ALG.RSASSA :> TSS_TPMS_SIG_SCHEME_RSASSA_Marshal @@
    TPM_ALG.RSAPSS :> TSS_TPMS_SIG_SCHEME_RSAPSS_Marshal @@
    TPM_ALG.ECDSA :> TSS_TPMS_SIG_SCHEME_ECDSA_Marshal @@
    TPM_ALG.ECDAA :> TSS_TPMS_SIG_SCHEME_ECDAA_Marshal @@
    TPM_ALG.SM2 :> TSS_TPMS_SIG_SCHEME_SM2_Marshal @@
    TPM_ALG.ECSCHNORR :> TSS_TPMS_SIG_SCHEME_ECSCHNORR_Marshal @@
    TPM_ALG.RSAES :> TSS_TPMS_ENC_SCHEME_RSAES_Marshal @@
    TPM_ALG.OAEP :> TSS_TPMS_ENC_SCHEME_OAEP_Marshal @@
    TPM_ALG.NULL :> Nothing)

TSS_TPMI_ALG_RSA_SCHEME_Marshal == TSS_TPM_ALG_ID_Marshal

TSS_TPMT_RSA_SCHEME_Marshal == Struct(<<
    <<"scheme", TSS_TPMI_ALG_RSA_SCHEME_Marshal>>,
    <<"details", TSS_TPMU_ASYM_SCHEME_Marshal, "scheme">>>>)

TSS_TPMI_ALG_RSA_DECRYPT_Marshal == TSS_TPM_ALG_ID_Marshal

TSS_TPMT_RSA_DECRYPT_Marshal == Struct(<<
    <<"scheme", TSS_TPMI_ALG_RSA_DECRYPT_Marshal>>,
    <<"details", TSS_TPMU_ASYM_SCHEME_Marshal, "scheme">>>>)

TSS_TPM2B_PUBLIC_KEY_RSA_Marshal == TSS_TPM2B_Marshal
TSS_TPMI_RSA_KEY_BITS_Marshal == TSS_TPM_KEY_BITS_Marshal
TSS_TPM2B_PRIVATE_KEY_RSA_Marshal == TSS_TPM2B_Marshal
TSS_TPM2B_ECC_PARAMETER_Marshal == TSS_TPM2B_Marshal

TSS_TPMS_ECC_POINT_Marshal == Struct(<<
    <<"x", TSS_TPM2B_ECC_PARAMETER_Marshal>>,
    <<"y", TSS_TPM2B_ECC_PARAMETER_Marshal>>>>)

TSS_TPM2B_ECC_POINT_Marshal == Sized(TSS_TPMS_ECC_POINT_Marshal)
TSS_TPMI_ALG_ECC_SCHEME_Marshal == TSS_TPM_ALG_ID_Marshal
TSS_TPMI_ECC_CURVE_Marshal == TSS_TPM_ECC_CURVE_Marshal

TSS_TPMT_ECC_SCHEME_Marshal == Struct(<<
    <<"scheme", TSS_TPMI_ALG_ECC_SCHEME_Marshal>>,
    <<"details", TSS_TPMU_ASYM_SCHEME_Marshal, "scheme">>>>)

TSS_TPMS_ALGORITHM_DETAIL_ECC_Marshal == Struct(<<
    <<"curveID", TSS_TPM_ECC_CURVE_Marshal>>,
    <<"keySize", TSS_UINT16_Marshal>>,
    <<"kdf", TSS_TPMT_KDF_SCHEME_Marshal>>,
    <<"sign", TSS_TPMT_ECC_SCHEME_Marshal>>,
    <<"p", TSS_TPM2B_ECC_PARAMETER_Marshal>>,
    <<"a", TSS_TPM2B_ECC_PARAMETER_Marshal>>,
    <<"b", TSS_TPM2B_ECC_PARAMETER_Marshal>>,
    <<"gX", TSS_TPM2B_ECC_PARAMETER_Marshal>>,
    <<"gY", TSS_TPM2B_ECC_PARAMETER_Marshal>>,
    <<"n", TSS_TPM2B_ECC_PARAMETER_Marshal>>,
    <<"h", TSS_TPM2B_ECC_PARAMETER_Marshal>>>>)

TSS_TPMS_SIGNATURE_RSA_Marshal == Struct(<<
    <<"hash", TSS_TPMI_ALG_HASH_Marshal>>,
    <<"sig", TSS_TPM2B_PUBLIC_KEY_RSA_Marshal>>>>)

TSS_TPMS_SIGNATURE_RSASSA_Marshal == TSS_TPMS_SIGNATURE_RSA_Marshal
TSS_TPMS_SIGNATURE_RSAPSS_Marshal == TSS_TPMS_SIGNATURE_RSA_Marshal

TSS_TPMS_SIGNATURE_ECC_Marshal == Struct(<<
    <<"hash", TSS_TPMI_ALG_HASH_Marshal>>,
    <<"signatureR", TSS_TPM2B_ECC_PARAMETER_Marshal>>,
    <<"signatureS", TSS_TPM2B_ECC_PARAMETER_Marshal>>>>)

TSS_TPMS_SIGNATURE_ECDSA_Marshal == TSS_TPMS_SIGNATURE_ECC_Marshal
TSS_TPMS_SIGNATURE_ECDAA_Marshal == TSS_TPMS_SIGNATURE_ECC_Marshal
TSS_TPMS_SIGNATURE_SM2_Marshal == TSS_TPMS_SIGNATURE_ECC_Marshal
TSS_TPMS_SIGNATURE_ECSCHNORR_Marshal == TSS_TPMS_SIGNATURE_ECC_Marshal

TSS_TPMU_SIGNATURE_Marshal == Union(
    TPM_ALG.RSASSA :> TSS_TPMS_SIGNATURE_RSASSA_Marshal @@
    TPM_ALG.RSAPSS :> TSS_TPMS_SIGNATURE_RSAPSS_Marshal @@
    TPM_ALG.ECDSA :> TSS_TPMS_SIGNATURE_ECDSA_Marshal @@
    TPM_ALG.ECDAA :> TSS_TPMS_SIGNATURE_ECDSA_Marshal @@
    TPM_ALG.SM2 :> TSS_TPMS_SIGNATURE_ECDSA_Marshal @@
    TPM_ALG.ECSCHNORR :> TSS_TPMS_SIGNATURE_ECDSA_Marshal @@
    TPM_ALG.HMAC :> TSS_TPMT_HA_Marshal @@
    TPM_ALG.NULL :> Nothing)

TSS_TPMT_SIGNATURE_Marshal == Struct(<<
    <<"sigAlg", TSS_TPMI_ALG_SIG_SCHEME_Marshal>>,
    <<"signature", TSS_TPMU_SIGNATURE_Marshal, "sigAlg">>>>)

TSS_TPM2B_ENCRYPTED_SECRET_Marshal == TSS_TPM2B_Marshal
TSS_TPMI_ALG_PUBLIC_Marshal == TSS_TPM_ALG_ID_Marshal

TSS_TPMU_PUBLIC_ID_Marshal == Union(
    TPM_ALG.KEYEDHASH :> TSS_TPM2B_DIGEST_Marshal @@
    TPM_ALG.SYMCIPHER :> TSS_TPM2B_DIGEST_Marshal @@
    TPM_ALG.RSA :> TSS_TPM2B_PUBLIC_KEY_RSA_Marshal @@
    TPM_ALG.ECC :> TSS_TPMS_ECC_POINT_Marshal)

TSS_TPMS_KEYEDHASH_PARMS_Marshal == Struct(<<<<"scheme", TSS_TPMT_KEYEDHASH_SCHEME_Marshal>>>>)

TSS_TPMS_RSA_PARMS_Marshal == Struct(<<
    <<"symmetric", TSS_TPMT_SYM_DEF_OBJECT_Marshal>>,
    <<"scheme", TSS_TPMT_RSA_SCHEME_Marshal>>,
    <<"keyBits", TSS_TPMI_RSA_KEY_BITS_Marshal>>,
    <<"exponent", TSS_UINT32_Marshal>>>>)

TSS_TPMS_ECC_PARMS_Marshal == Struct(<<
    <<"symmetric", TSS_TPMT_SYM_DEF_OBJECT_Marshal>>,
    <<"scheme", TSS_TPMT_ECC_SCHEME_Marshal>>,
    <<"curveID", TSS_TPMI_ECC_CURVE_Marshal>>,
    <<"kdf", TSS_TPMT_KDF_SCHEME_Marshal>>>>)

TSS_TPMU_PUBLIC_PARMS_Marshal == Union(
    TPM_ALG.KEYEDHASH :> TSS_TPMS_KEYEDHASH_PARMS_Marshal @@
    TPM_ALG.SYMCIPHER :> TSS_TPMS_SYMCIPHER_PARMS_Marshal @@
    TPM_ALG.RSA :> TSS_TPMS_RSA_PARMS_Marshal @@
    TPM_ALG.ECC :> TSS_TPMS_ECC_PARMS_Marshal)

TSS_TPMT_PUBLIC_PARMS_Marshal == Struct(<<
    <<"type", TSS_TPMI_ALG_PUBLIC_Marshal>>,
    <<"parameters", TSS_TPMU_PUBLIC_PARMS_Marshal, "type">>>>)

TSS_TPMT_PUBLIC_Marshal == Struct(<<
    <<"type", TSS_TPMI_ALG_PUBLIC_Marshal>>,
    <<"nameAlg", TSS_TPMI_ALG_HASH_Marshal>>,
    <<"objectAttributes", TSS_TPMA_OBJECT_Marshal>>,
    <<"authPolicy", TSS_TPM2B_DIGEST_Marshal>>,
    <<"parameters", TSS_TPMU_PUBLIC_PARMS_Marshal, "type">>,
    <<"unique", TSS_TPMU_PUBLIC_ID_Marshal, "type">>>>)

TSS_TPMT_PUBLIC_D_Marshal ==
  Struct(TSS_TPMT_PUBLIC_Marshal.fields \o <<<<"unique.context", TSS_TPM2B_LABEL_Marshal>>>>)

TSS_TPM2B_PUBLIC_Marshal == Sized(TSS_TPMT_PUBLIC_Marshal)
TSS_TPM2B_TEMPLATE_Marshal == TSS_TPM2B_Marshal

TSS_TPMU_SENSITIVE_COMPOSITE_Marshal == Union(
    TPM_ALG.RSA :> TSS_TPM2B_PRIVATE_KEY_RSA_Marshal @@
    TPM_ALG.ECC :> TSS_TPM2B_ECC_PARAMETER_Marshal @@
    TPM_ALG.KEYEDHASH :> TSS_TPM2B_SENSITIVE_DATA_Marshal @@
    TPM_ALG.SYMCIPHER :> TSS_TPM2B_SYM_KEY_Marshal)

TSS_TPMT_SENSITIVE_Marshal == Struct(<<
    <<"sensitiveType", TSS_TPMI_ALG_PUBLIC_Marshal>>,
    <<"authValue", TSS_TPM2B_AUTH_Marshal>>,
    <<"seedValue", TSS_TPM2B_DIGEST_Marshal>>,
    <<"sensitive", TSS_TPMU_SENSITIVE_COMPOSITE_Marshal, "sensitiveType">>>>)

TSS_TPM2B_SENSITIVE_Marshal == Sized(TSS_TPMT_SENSITIVE_Marshal)
TSS_TPM2B_PRIVATE_Marshal == TSS_TPM2B_Marshal
TSS_TPM2B_ID_OBJECT_Marshal == TSS_TPM2B_Marshal
TSS_TPMA_NV_Marshal == TSS_UINT32_Marshal

TSS_TPMS_NV_PUBLIC_Marshal == Struct(<<
    <<"nvIndex", TSS_TPMI_RH_NV_INDEX_Marshal>>,
    <<"nameAlg", TSS_TPMI_ALG_HASH_Marshal>>,
    <<"attributes", TSS_TPMA_NV_Marshal>>,
    <<"authPolicy", TSS_TPM2B_DIGEST_Marshal>>,
    <<"dataSize", TSS_UINT16_Marshal>>>>)

TSS_TPM2B_NV_PUBLIC_Marshal == Sized(TSS_TPMS_NV_PUBLIC_Marshal)
TSS_TPM2B_CONTEXT_SENSITIVE_Marshal == TSS_TPM2B_Marshal
TSS_TPM2B_CONTEXT_DATA_Marshal == TSS_TPM2B_Marshal

\* A mutant: two fields in the other order.
TSS_TPMS_CONTEXT_Marshal_HierarchyFirst == Struct(<<
    <<"sequence", TSS_UINT64_Marshal>>,
    <<"hierarchy", TSS_TPMI_RH_HIERARCHY_Marshal>>,
    <<"savedHandle", TSS_TPMI_DH_CONTEXT_Marshal>>,
    <<"contextBlob", TSS_TPM2B_CONTEXT_DATA_Marshal>>>>)

TSS_TPMS_CONTEXT_Marshal == Struct(<<
    <<"sequence", TSS_UINT64_Marshal>>,
    <<"savedHandle", TSS_TPMI_DH_CONTEXT_Marshal>>,
    <<"hierarchy", TSS_TPMI_RH_HIERARCHY_Marshal>>,
    <<"contextBlob", TSS_TPM2B_CONTEXT_DATA_Marshal>>>>)

TSS_TPMS_CREATION_DATA_Marshal == Struct(<<
    <<"pcrSelect", TSS_TPML_PCR_SELECTION_Marshal>>,
    <<"pcrDigest", TSS_TPM2B_DIGEST_Marshal>>,
    <<"locality", TSS_TPMA_LOCALITY_Marshal>>,
    <<"parentNameAlg", TSS_TPM_ALG_ID_Marshal>>,
    <<"parentName", TSS_TPM2B_NAME_Marshal>>,
    <<"parentQualifiedName", TSS_TPM2B_NAME_Marshal>>,
    <<"outsideInfo", TSS_TPM2B_DATA_Marshal>>>>)

TSS_TPM2B_CREATION_DATA_Marshal == Sized(TSS_TPMS_CREATION_DATA_Marshal)

===================================================================================
