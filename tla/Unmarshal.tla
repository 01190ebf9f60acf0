--------------------------------- MODULE Unmarshal ---------------------------------
(*****************************************************************************)
(* Unmarshal.c: what each unmarshaling function accepts. A parameter         *)
(* allowNull lets the function accept the null algorithm or handle, minCount *)
(* is the least length of a list.                                            *)
(*****************************************************************************)
EXTENDS Wire, TpmTypes

UINT8_Unmarshal == Number(1)
INT8_Unmarshal == UINT8_Unmarshal
UINT16_Unmarshal == Number(2)
UINT32_Unmarshal == Number(4)
INT32_Unmarshal == UINT32_Unmarshal
UINT64_Unmarshal == Number(8)
TPM_KEY_BITS_Unmarshal == UINT16_Unmarshal
TPM_GENERATED_Unmarshal == Only(UINT32_Unmarshal, {TPM_GENERATED_VALUE})
TPM_ALG_ID_Unmarshal == UINT16_Unmarshal

TPM_ECC_CURVE_Unmarshal ==
  Only(UINT16_Unmarshal, {TPM_ECC.NONE, TPM_ECC.NIST_P192, TPM_ECC.NIST_P224, TPM_ECC.NIST_P256,
  TPM_ECC.NIST_P384, TPM_ECC.NIST_P521, TPM_ECC.BN_P256, TPM_ECC.BN_P638, TPM_ECC.SM2_P256})

TPM_CC_Unmarshal == UINT32_Unmarshal
TPM_RC_Unmarshal == UINT32_Unmarshal

TPM_CLOCK_ADJUST_Unmarshal ==
  Only(INT8_Unmarshal, {TPM_CLOCK.COARSE_SLOWER, TPM_CLOCK.MEDIUM_SLOWER, TPM_CLOCK.FINE_SLOWER,
  TPM_CLOCK.NO_CHANGE, TPM_CLOCK.FINE_FASTER, TPM_CLOCK.MEDIUM_FASTER, TPM_CLOCK.COARSE_FASTER})

TPM_EO_Unmarshal ==
  Only(UINT16_Unmarshal, {TPM_EO.EQ, TPM_EO.NEQ, TPM_EO.SIGNED_GT, TPM_EO.UNSIGNED_GT,
  TPM_EO.SIGNED_LT, TPM_EO.UNSIGNED_LT, TPM_EO.SIGNED_GE, TPM_EO.UNSIGNED_GE, TPM_EO.SIGNED_LE,
  TPM_EO.UNSIGNED_LE, TPM_EO.BITSET, TPM_EO.BITCLEAR})

TPM_ST_Unmarshal ==
  Only(UINT16_Unmarshal, {TPM_ST.RSP_COMMAND, TPM_ST.NULL, TPM_ST.NO_SESSIONS, TPM_ST.SESSIONS,
  TPM_ST.ATTEST_NV, TPM_ST.ATTEST_COMMAND_AUDIT, TPM_ST.ATTEST_SESSION_AUDIT,
  TPM_ST.ATTEST_CERTIFY, TPM_ST.ATTEST_QUOTE, TPM_ST.ATTEST_TIME, TPM_ST.ATTEST_CREATION,
  TPM_ST.CREATION, TPM_ST.VERIFIED, TPM_ST.AUTH_SECRET, TPM_ST.HASHCHECK, TPM_ST.AUTH_SIGNED})

TPM_SU_Unmarshal == Only(UINT16_Unmarshal, {TPM_SU_CLEAR, TPM_SU_STATE})
TPM_SE_Unmarshal == Only(UINT8_Unmarshal, {TPM_SE.HMAC, TPM_SE.POLICY, TPM_SE.TRIAL})

TPM_CAP_Unmarshal ==
  Only(UINT32_Unmarshal, {TPM_CAP.ALGS, TPM_CAP.HANDLES, TPM_CAP.COMMANDS, TPM_CAP.PP_COMMANDS,
  TPM_CAP.AUDIT_COMMANDS, TPM_CAP.PCRS, TPM_CAP.TPM_PROPERTIES, TPM_CAP.PCR_PROPERTIES,
  TPM_CAP.ECC_CURVES, TPM_CAP.VENDOR_PROPERTY})

TPM_PT_Unmarshal == UINT32_Unmarshal
TPM_PT_PCR_Unmarshal == UINT32_Unmarshal
TPM_HANDLE_Unmarshal == UINT32_Unmarshal
TPMA_ALGORITHM_Unmarshal == Flags(UINT32_Unmarshal, TPMA_ALGORITHM_RESERVED)
TPMA_OBJECT_Unmarshal == Flags(UINT32_Unmarshal, TPMA_OBJECT_RESERVED)
TPMA_SESSION_Unmarshal == Flags(UINT8_Unmarshal, TPMA_SESSION_RESERVED)
TPMA_LOCALITY_Unmarshal == UINT8_Unmarshal
TPMA_CC_Unmarshal == Flags(UINT32_Unmarshal, TPMA_CC_RESERVED)
TPMI_YES_NO_Unmarshal == Only(UINT8_Unmarshal, {NO, YES})

TPMI_DH_OBJECT_Unmarshal(allowNull) ==
  Within(TPM_HANDLE_Unmarshal, {<<TRANSIENT_FIRST, TRANSIENT_LAST>>, <<PERSISTENT_FIRST,
  PERSISTENT_LAST>>} \union If(allowNull, <<TPM_RH.NULL, TPM_RH.NULL>>))

TPMI_DH_PERSISTENT_Unmarshal ==
  Within(TPM_HANDLE_Unmarshal, {<<PERSISTENT_FIRST, PERSISTENT_LAST>>})

TPMI_DH_ENTITY_Unmarshal(allowNull) ==
  Within(TPM_HANDLE_Unmarshal, {<<TPM_RH.OWNER, TPM_RH.OWNER>>, <<TPM_RH.ENDORSEMENT,
  TPM_RH.ENDORSEMENT>>, <<TPM_RH.PLATFORM, TPM_RH.PLATFORM>>, <<TPM_RH.LOCKOUT,
  TPM_RH.LOCKOUT>>, <<TRANSIENT_FIRST, TRANSIENT_LAST>>, <<PERSISTENT_FIRST, PERSISTENT_LAST>>,
  <<NV_INDEX_FIRST, NV_INDEX_LAST>>, <<0, PCR_LAST>>, <<TPM_RH.AUTH_00, TPM_RH.AUTH_FF>>} \union
  If(allowNull, <<TPM_RH.NULL, TPM_RH.NULL>>))

TPMI_DH_PCR_Unmarshal(allowNull) ==
  Within(TPM_HANDLE_Unmarshal, {<<0, PCR_LAST>>} \union If(allowNull, <<TPM_RH.NULL,
  TPM_RH.NULL>>))

TPMI_SH_AUTH_SESSION_Unmarshal(allowNull) ==
  Within(TPM_HANDLE_Unmarshal, {<<HMAC_SESSION_FIRST, HMAC_SESSION_LAST>>,
  <<POLICY_SESSION_FIRST, POLICY_SESSION_LAST>>} \union If(allowNull, <<TPM_RS_PW, TPM_RS_PW>>))

TPMI_SH_HMAC_Unmarshal(allowNull) ==
  Within(TPM_HANDLE_Unmarshal, {<<HMAC_SESSION_FIRST, HMAC_SESSION_LAST>>})

TPMI_SH_POLICY_Unmarshal(allowNull) ==
  Within(TPM_HANDLE_Unmarshal, {<<POLICY_SESSION_FIRST, POLICY_SESSION_LAST>>})

TPMI_DH_CONTEXT_Unmarshal(allowNull) ==
  Within(TPM_HANDLE_Unmarshal, {<<HMAC_SESSION_FIRST, HMAC_SESSION_LAST>>,
  <<POLICY_SESSION_FIRST, POLICY_SESSION_LAST>>, <<TRANSIENT_FIRST, TRANSIENT_LAST>>})

TPMI_RH_HIERARCHY_Unmarshal(allowNull) ==
  Only(TPM_HANDLE_Unmarshal, {TPM_RH.OWNER, TPM_RH.PLATFORM, TPM_RH.ENDORSEMENT} \union
  If(allowNull, TPM_RH.NULL))

TPMI_RH_ENABLES_Unmarshal(allowNull) ==
  Only(TPM_HANDLE_Unmarshal, {TPM_RH.OWNER, TPM_RH.PLATFORM, TPM_RH.ENDORSEMENT,
  TPM_RH.PLATFORM_NV} \union If(allowNull, TPM_RH.NULL))

TPMI_RH_HIERARCHY_AUTH_Unmarshal(allowNull) ==
  Only(TPM_HANDLE_Unmarshal, {TPM_RH.OWNER, TPM_RH.PLATFORM, TPM_RH.ENDORSEMENT,
  TPM_RH.LOCKOUT})

TPMI_RH_PLATFORM_Unmarshal(allowNull) == Only(TPM_HANDLE_Unmarshal, {TPM_RH.PLATFORM})

TPMI_RH_ENDORSEMENT_Unmarshal(allowNull) ==
  Only(TPM_HANDLE_Unmarshal, {TPM_RH.ENDORSEMENT} \union If(allowNull, TPM_RH.NULL))

TPMI_RH_PROVISION_Unmarshal(allowNull) ==
  Only(TPM_HANDLE_Unmarshal, {TPM_RH.OWNER, TPM_RH.PLATFORM})

TPMI_RH_CLEAR_Unmarshal(allowNull) == Only(TPM_HANDLE_Unmarshal, {TPM_RH.LOCKOUT, TPM_RH.PLATFORM})

TPMI_RH_NV_AUTH_Unmarshal(allowNull) ==
  Within(TPM_HANDLE_Unmarshal, {<<TPM_RH.OWNER, TPM_RH.OWNER>>, <<TPM_RH.PLATFORM,
  TPM_RH.PLATFORM>>, <<NV_INDEX_FIRST, NV_INDEX_LAST>>})

TPMI_RH_LOCKOUT_Unmarshal(allowNull) == Only(TPM_HANDLE_Unmarshal, {TPM_RH.LOCKOUT})

TPMI_RH_NV_INDEX_Unmarshal(allowNull) ==
  Within(TPM_HANDLE_Unmarshal, {<<NV_INDEX_FIRST, NV_INDEX_LAST>>})

TPMI_ALG_HASH_Unmarshal(allowNull) ==
  Only(TPM_ALG_ID_Unmarshal, {TPM_ALG.SHA1, TPM_ALG.SHA256, TPM_ALG.SHA384} \union If(allowNull,
  TPM_ALG.NULL))

TPMI_ALG_SYM_Unmarshal(allowNull) ==
  Only(TPM_ALG_ID_Unmarshal, {TPM_ALG.AES, TPM_ALG.XOR} \union If(allowNull, TPM_ALG.NULL))

TPMI_ALG_SYM_OBJECT_Unmarshal(allowNull) ==
  Only(TPM_ALG_ID_Unmarshal, {TPM_ALG.AES} \union If(allowNull, TPM_ALG.NULL))

TPMI_ALG_SYM_MODE_Unmarshal(allowNull) ==
  Only(TPM_ALG_ID_Unmarshal, {TPM_ALG.CTR, TPM_ALG.OFB, TPM_ALG.CBC, TPM_ALG.CFB, TPM_ALG.ECB}
  \union If(allowNull, TPM_ALG.NULL))

TPMI_ALG_KDF_Unmarshal(allowNull) ==
  Only(TPM_ALG_ID_Unmarshal, {TPM_ALG.MGF1, TPM_ALG.KDF1_SP800_56A, TPM_ALG.KDF1_SP800_108}
  \union If(allowNull, TPM_ALG.NULL))

TPMI_ALG_SIG_SCHEME_Unmarshal(allowNull) ==
  Only(TPM_ALG_ID_Unmarshal, {TPM_ALG.HMAC, TPM_ALG.RSASSA, TPM_ALG.RSAPSS, TPM_ALG.ECDSA,
  TPM_ALG.ECDAA, TPM_ALG.SM2, TPM_ALG.ECSCHNORR} \union If(allowNull, TPM_ALG.NULL))

TPMI_ECC_KEY_EXCHANGE_Unmarshal(allowNull) ==
  Only(TPM_ALG_ID_Unmarshal, {TPM_ALG.ECDH, TPM_ALG.SM2} \union If(allowNull, TPM_ALG.NULL))

TPMI_ST_COMMAND_TAG_Unmarshal == Only(TPM_ST_Unmarshal, {TPM_ST.NO_SESSIONS, TPM_ST.SESSIONS})
TPMS_EMPTY_Unmarshal == Nothing

TPMU_HA_Unmarshal == Union(
    TPM_ALG.SHA1 :> Array(SHA1_DIGEST_SIZE) @@
    TPM_ALG.SHA256 :> Array(SHA256_DIGEST_SIZE) @@
    TPM_ALG.SHA384 :> Array(SHA384_DIGEST_SIZE) @@
    TPM_ALG.NULL :> Nothing)

TPMT_HA_Unmarshal(allowNull) == Struct(<<
    <<"hashAlg", TPMI_ALG_HASH_Unmarshal(allowNull)>>,
    <<"digest", TPMU_HA_Unmarshal, "hashAlg">>>>)

TPM2B_DIGEST_Unmarshal == Buffer(sizeof_TPMU_HA)
TPM2B_DATA_Unmarshal == Buffer(sizeof_TPMT_HA)
TPM2B_NONCE_Unmarshal == TPM2B_DIGEST_Unmarshal
TPM2B_AUTH_Unmarshal == TPM2B_DIGEST_Unmarshal
TPM2B_OPERAND_Unmarshal == TPM2B_DIGEST_Unmarshal
TPM2B_EVENT_Unmarshal == Buffer(sizeof_EVENT)
TPM2B_MAX_BUFFER_Unmarshal == Buffer(MAX_DIGEST_BUFFER)
TPM2B_MAX_NV_BUFFER_Unmarshal == Buffer(MAX_NV_BUFFER_SIZE)
TPM2B_TIMEOUT_Unmarshal == TPM2B_DIGEST_Unmarshal
TPM2B_IV_Unmarshal == Buffer(MAX_SYM_BLOCK_SIZE)
TPM2B_NAME_Unmarshal == Buffer(sizeof_TPMU_NAME)

TPMS_PCR_SELECTION_Unmarshal == Struct(<<
    <<"hash", TPMI_ALG_HASH_Unmarshal(FALSE)>>,
    <<"sizeofSelect", Within(UINT8_Unmarshal, {<<PCR_SELECT_MIN, PCR_SELECT_MAX>>})>>,
    <<"pcrSelect", ArrayOf, "sizeofSelect">>>>)

TPMT_TK_CREATION_Unmarshal == Struct(<<
    <<"tag", Only(TPM_ST_Unmarshal, {TPM_ST.CREATION})>>,
    <<"hierarchy", TPMI_RH_HIERARCHY_Unmarshal(TRUE)>>,
    <<"digest", TPM2B_DIGEST_Unmarshal>>>>)

TPMT_TK_VERIFIED_Unmarshal == Struct(<<
    <<"tag", Only(TPM_ST_Unmarshal, {TPM_ST.VERIFIED})>>,
    <<"hierarchy", TPMI_RH_HIERARCHY_Unmarshal(TRUE)>>,
    <<"digest", TPM2B_DIGEST_Unmarshal>>>>)

TPMT_TK_AUTH_Unmarshal == Struct(<<
    <<"tag", Only(TPM_ST_Unmarshal, {TPM_ST.AUTH_SIGNED, TPM_ST.AUTH_SECRET})>>,
    <<"hierarchy", TPMI_RH_HIERARCHY_Unmarshal(TRUE)>>,
    <<"digest", TPM2B_DIGEST_Unmarshal>>>>)

TPMT_TK_HASHCHECK_Unmarshal == Struct(<<
    <<"tag", Only(TPM_ST_Unmarshal, {TPM_ST.HASHCHECK})>>,
    <<"hierarchy", TPMI_RH_HIERARCHY_Unmarshal(TRUE)>>,
    <<"digest", TPM2B_DIGEST_Unmarshal>>>>)

TPMS_ALG_PROPERTY_Unmarshal == Struct(<<
    <<"alg", TPM_ALG_ID_Unmarshal>>,
    <<"algProperties", TPMA_ALGORITHM_Unmarshal>>>>)

TPMS_TAGGED_PROPERTY_Unmarshal ==
  Struct(<<<<"property", TPM_PT_Unmarshal>>, <<"value", UINT32_Unmarshal>>>>)

TPMS_TAGGED_PCR_SELECT_Unmarshal == Struct(<<
    <<"tag", TPM_PT_PCR_Unmarshal>>,
    <<"sizeofSelect", UINT8_Unmarshal>>,
    <<"pcrSelect", ArrayOf, "sizeofSelect">>>>)

TPML_CC_Unmarshal == List(0, MAX_CAP_CC, TPM_CC_Unmarshal)
TPML_CCA_Unmarshal == List(0, MAX_CAP_CC, TPMA_CC_Unmarshal)
TPML_ALG_Unmarshal == List(0, MAX_ALG_LIST_SIZE, TPM_ALG_ID_Unmarshal)
TPML_HANDLE_Unmarshal == List(0, MAX_CAP_HANDLES, TPM_HANDLE_Unmarshal)
TPML_DIGEST_Unmarshal(minCount) == List(minCount, 8, TPM2B_DIGEST_Unmarshal)
TPML_DIGEST_VALUES_Unmarshal == List(0, HASH_COUNT, TPMT_HA_Unmarshal(FALSE))
TPML_PCR_SELECTION_Unmarshal == List(0, HASH_COUNT, TPMS_PCR_SELECTION_Unmarshal)
TPML_ALG_PROPERTY_Unmarshal == List(0, MAX_CAP_ALGS, TPMS_ALG_PROPERTY_Unmarshal)
TPML_TAGGED_TPM_PROPERTY_Unmarshal == List(0, MAX_TPM_PROPERTIES, TPMS_TAGGED_PROPERTY_Unmarshal)
TPML_TAGGED_PCR_PROPERTY_Unmarshal == List(0, MAX_PCR_PROPERTIES, TPMS_TAGGED_PCR_SELECT_Unmarshal)
TPML_ECC_CURVE_Unmarshal == List(0, MAX_ECC_CURVES, TPM_ECC_CURVE_Unmarshal)

TPMU_CAPABILITIES_Unmarshal == Union(
    TPM_CAP.ALGS :> TPML_ALG_PROPERTY_Unmarshal @@
    TPM_CAP.HANDLES :> TPML_HANDLE_Unmarshal @@
    TPM_CAP.COMMANDS :> TPML_CCA_Unmarshal @@
    TPM_CAP.PP_COMMANDS :> TPML_CC_Unmarshal @@
    TPM_CAP.AUDIT_COMMANDS :> TPML_CC_Unmarshal @@
    TPM_CAP.PCRS :> TPML_PCR_SELECTION_Unmarshal @@
    TPM_CAP.TPM_PROPERTIES :> TPML_TAGGED_TPM_PROPERTY_Unmarshal @@
    TPM_CAP.PCR_PROPERTIES :> TPML_TAGGED_PCR_PROPERTY_Unmarshal @@
    TPM_CAP.ECC_CURVES :> TPML_ECC_CURVE_Unmarshal)

TPMS_CAPABILITY_DATA_Unmarshal == Struct(<<
    <<"capability", TPM_CAP_Unmarshal>>,
    <<"data", TPMU_CAPABILITIES_Unmarshal, "capability">>>>)

TPMS_CLOCK_INFO_Unmarshal == Struct(<<
    <<"clock", UINT64_Unmarshal>>,
    <<"resetCount", UINT32_Unmarshal>>,
    <<"restartCount", UINT32_Unmarshal>>,
    <<"safe", TPMI_YES_NO_Unmarshal>>>>)

TPMS_TIME_INFO_Unmarshal == Struct(<<
    <<"time", UINT64_Unmarshal>>,
    <<"clockInfo", TPMS_CLOCK_INFO_Unmarshal>>>>)

TPMS_TIME_ATTEST_INFO_Unmarshal == Struct(<<
    <<"time", TPMS_TIME_INFO_Unmarshal>>,
    <<"firmwareVersion", UINT64_Unmarshal>>>>)

TPMS_CERTIFY_INFO_Unmarshal == Struct(<<
    <<"name", TPM2B_NAME_Unmarshal>>,
    <<"qualifiedName", TPM2B_NAME_Unmarshal>>>>)

TPMS_QUOTE_INFO_Unmarshal == Struct(<<
    <<"pcrSelect", TPML_PCR_SELECTION_Unmarshal>>,
    <<"pcrDigest", TPM2B_DIGEST_Unmarshal>>>>)

TPMS_COMMAND_AUDIT_INFO_Unmarshal == Struct(<<
    <<"auditCounter", UINT64_Unmarshal>>,
    <<"digestAlg", TPM_ALG_ID_Unmarshal>>,
    <<"auditDigest", TPM2B_DIGEST_Unmarshal>>,
    <<"commandDigest", TPM2B_DIGEST_Unmarshal>>>>)

TPMS_SESSION_AUDIT_INFO_Unmarshal == Struct(<<
    <<"exclusiveSession", TPMI_YES_NO_Unmarshal>>,
    <<"sessionDigest", TPM2B_DIGEST_Unmarshal>>>>)

TPMS_CREATION_INFO_Unmarshal == Struct(<<
    <<"objectName", TPM2B_NAME_Unmarshal>>,
    <<"creationHash", TPM2B_DIGEST_Unmarshal>>>>)

TPMS_NV_CERTIFY_INFO_Unmarshal == Struct(<<
    <<"indexName", TPM2B_NAME_Unmarshal>>,
    <<"offset", UINT16_Unmarshal>>,
    <<"nvContents", TPM2B_MAX_NV_BUFFER_Unmarshal>>>>)

TPMI_ST_ATTEST_Unmarshal ==
  Only(TPM_ST_Unmarshal, {TPM_ST.ATTEST_CERTIFY, TPM_ST.ATTEST_CREATION, TPM_ST.ATTEST_QUOTE,
  TPM_ST.ATTEST_COMMAND_AUDIT, TPM_ST.ATTEST_SESSION_AUDIT, TPM_ST.ATTEST_TIME,
  TPM_ST.ATTEST_NV})

TPMU_ATTEST_Unmarshal == Union(
    TPM_ST.ATTEST_CERTIFY :> TPMS_CERTIFY_INFO_Unmarshal @@
    TPM_ST.ATTEST_CREATION :> TPMS_CREATION_INFO_Unmarshal @@
    TPM_ST.ATTEST_QUOTE :> TPMS_QUOTE_INFO_Unmarshal @@
    TPM_ST.ATTEST_COMMAND_AUDIT :> TPMS_COMMAND_AUDIT_INFO_Unmarshal @@
    TPM_ST.ATTEST_SESSION_AUDIT :> TPMS_SESSION_AUDIT_INFO_Unmarshal @@
    TPM_ST.ATTEST_TIME :> TPMS_TIME_ATTEST_INFO_Unmarshal @@
    TPM_ST.ATTEST_NV :> TPMS_NV_CERTIFY_INFO_Unmarshal)

TPMS_ATTEST_Unmarshal == Struct(<<
    <<"magic", TPM_GENERATED_Unmarshal>>,
    <<"type", TPMI_ST_ATTEST_Unmarshal>>,
    <<"qualifiedSigner", TPM2B_NAME_Unmarshal>>,
    <<"extraData", TPM2B_DATA_Unmarshal>>,
    <<"clockInfo", TPMS_CLOCK_INFO_Unmarshal>>,
    <<"firmwareVersion", UINT64_Unmarshal>>,
    <<"attested", TPMU_ATTEST_Unmarshal, "type">>>>)

TPM2B_ATTEST_Unmarshal == Buffer(sizeof_TPMS_ATTEST)

TPMS_AUTH_RESPONSE_Unmarshal == Struct(<<
    <<"nonce", TPM2B_NONCE_Unmarshal>>,
    <<"sessionAttributes", TPMA_SESSION_Unmarshal>>,
    <<"hmac", TPM2B_AUTH_Unmarshal>>>>)

TPMI_AES_KEY_BITS_Unmarshal == Only(TPM_KEY_BITS_Unmarshal, {128, 256})

TPMU_SYM_KEY_BITS_Unmarshal == Union(
    TPM_ALG.AES :> TPMI_AES_KEY_BITS_Unmarshal @@
    TPM_ALG.XOR :> TPMI_ALG_HASH_Unmarshal(FALSE) @@
    TPM_ALG.NULL :> Nothing)

TPMU_SYM_MODE_Unmarshal == Union(
    TPM_ALG.AES :> TPMI_ALG_SYM_MODE_Unmarshal(TRUE) @@
    TPM_ALG.XOR :> Nothing @@
    TPM_ALG.NULL :> Nothing)

TPMT_SYM_DEF_Unmarshal(allowNull) == Struct(<<
    <<"algorithm", TPMI_ALG_SYM_Unmarshal(allowNull)>>,
    <<"keyBits", TPMU_SYM_KEY_BITS_Unmarshal, "algorithm">>,
    <<"mode", TPMU_SYM_MODE_Unmarshal, "algorithm">>>>)

TPMT_SYM_DEF_OBJECT_Unmarshal(allowNull) == Struct(<<
    <<"algorithm", TPMI_ALG_SYM_OBJECT_Unmarshal(allowNull)>>,
    <<"keyBits", TPMU_SYM_KEY_BITS_Unmarshal, "algorithm">>,
    <<"mode", TPMU_SYM_MODE_Unmarshal, "algorithm">>>>)

TPM2B_SYM_KEY_Unmarshal == Buffer(MAX_SYM_KEY_BYTES)
TPMS_SYMCIPHER_PARMS_Unmarshal == Struct(<<<<"sym", TPMT_SYM_DEF_OBJECT_Unmarshal(FALSE)>>>>)
TPM2B_SENSITIVE_DATA_Unmarshal == Buffer(MAX_SYM_DATA)

TPMS_SENSITIVE_CREATE_Unmarshal == Struct(<<
    <<"userAuth", TPM2B_AUTH_Unmarshal>>,
    <<"data", TPM2B_SENSITIVE_DATA_Unmarshal>>>>)

TPM2B_SENSITIVE_CREATE_Unmarshal == Sized(TPMS_SENSITIVE_CREATE_Unmarshal)
TPMS_SCHEME_HASH_Unmarshal == Struct(<<<<"hashAlg", TPMI_ALG_HASH_Unmarshal(FALSE)>>>>)

TPMS_SCHEME_ECDAA_Unmarshal == Struct(<<
    <<"hashAlg", TPMI_ALG_HASH_Unmarshal(FALSE)>>,
    <<"count", UINT16_Unmarshal>>>>)

TPMI_ALG_KEYEDHASH_SCHEME_Unmarshal(allowNull) ==
  Only(TPM_ALG_ID_Unmarshal, {TPM_ALG.HMAC, TPM_ALG.XOR} \union If(allowNull, TPM_ALG.NULL))

TPMS_SCHEME_HMAC_Unmarshal == TPMS_SCHEME_HASH_Unmarshal

TPMS_SCHEME_XOR_Unmarshal == Struct(<<
    <<"hashAlg", TPMI_ALG_HASH_Unmarshal(TRUE)>>,
    <<"kdf", TPMI_ALG_KDF_Unmarshal(TRUE)>>>>)

TPMU_SCHEME_KEYEDHASH_Unmarshal == Union(
    TPM_ALG.HMAC :> TPMS_SCHEME_HMAC_Unmarshal @@
    TPM_ALG.XOR :> TPMS_SCHEME_XOR_Unmarshal @@
    TPM_ALG.NULL :> Nothing)

TPMT_KEYEDHASH_SCHEME_Unmarshal(allowNull) == Struct(<<
    <<"scheme", TPMI_ALG_KEYEDHASH_SCHEME_Unmarshal(allowNull)>>,
    <<"details", TPMU_SCHEME_KEYEDHASH_Unmarshal, "scheme">>>>)

TPMS_SIG_SCHEME_RSAPSS_Unmarshal == TPMS_SCHEME_HASH_Unmarshal
TPMS_SIG_SCHEME_RSASSA_Unmarshal == TPMS_SCHEME_HASH_Unmarshal
TPMS_SIG_SCHEME_ECDAA_Unmarshal == TPMS_SCHEME_ECDAA_Unmarshal
TPMS_SIG_SCHEME_ECDSA_Unmarshal == TPMS_SCHEME_HASH_Unmarshal
TPMS_SIG_SCHEME_ECSCHNORR_Unmarshal == TPMS_SCHEME_HASH_Unmarshal
TPMS_SIG_SCHEME_SM2_Unmarshal == TPMS_SCHEME_HASH_Unmarshal

TPMU_SIG_SCHEME_Unmarshal == Union(
    TPM_ALG.RSASSA :> TPMS_SIG_SCHEME_RSASSA_Unmarshal @@
    TPM_ALG.RSAPSS :> TPMS_SIG_SCHEME_RSAPSS_Unmarshal @@
    TPM_ALG.ECDSA :> TPMS_SIG_SCHEME_ECDSA_Unmarshal @@
    TPM_ALG.ECDAA :> TPMS_SIG_SCHEME_ECDAA_Unmarshal @@
    TPM_ALG.SM2 :> TPMS_SIG_SCHEME_SM2_Unmarshal @@
    TPM_ALG.ECSCHNORR :> TPMS_SIG_SCHEME_ECSCHNORR_Unmarshal @@
    TPM_ALG.HMAC :> TPMS_SCHEME_HMAC_Unmarshal @@
    TPM_ALG.NULL :> Nothing)

TPMT_SIG_SCHEME_Unmarshal(allowNull) == Struct(<<
    <<"scheme", TPMI_ALG_SIG_SCHEME_Unmarshal(allowNull)>>,
    <<"details", TPMU_SIG_SCHEME_Unmarshal, "scheme">>>>)

TPMS_ENC_SCHEME_OAEP_Unmarshal == TPMS_SCHEME_HASH_Unmarshal
TPMS_ENC_SCHEME_RSAES_Unmarshal == TPMS_EMPTY_Unmarshal
TPMS_KEY_SCHEME_ECDH_Unmarshal == TPMS_SCHEME_HASH_Unmarshal
TPMS_KEY_SCHEME_ECMQV_Unmarshal == TPMS_SCHEME_HASH_Unmarshal
TPMS_SCHEME_KDF1_SP800_108_Unmarshal == TPMS_SCHEME_HASH_Unmarshal
TPMS_SCHEME_KDF1_SP800_56A_Unmarshal == TPMS_SCHEME_HASH_Unmarshal
TPMS_SCHEME_KDF2_Unmarshal == TPMS_SCHEME_HASH_Unmarshal
TPMS_SCHEME_MGF1_Unmarshal == TPMS_SCHEME_HASH_Unmarshal

TPMU_KDF_SCHEME_Unmarshal == Union(
    TPM_ALG.MGF1 :> TPMS_SCHEME_MGF1_Unmarshal @@
    TPM_ALG.KDF1_SP800_56A :> TPMS_SCHEME_KDF1_SP800_56A_Unmarshal @@
    TPM_ALG.KDF1_SP800_108 :> TPMS_SCHEME_KDF1_SP800_108_Unmarshal @@
    TPM_ALG.NULL :> Nothing)

TPMT_KDF_SCHEME_Unmarshal(allowNull) == Struct(<<
    <<"scheme", TPMI_ALG_KDF_Unmarshal(allowNull)>>,
    <<"details", TPMU_KDF_SCHEME_Unmarshal, "scheme">>>>)

TPMU_ASYM_SCHEME_Unmarshal == Union(
    TPM_ALG.ECDH :> TPMS_KEY_SCHEME_ECDH_Unmarshal @@
    TPM_ALG.RSASSA :> TPMS_SIG_SCHEME_RSASSA_Unmarshal @@
    TPM_ALG.RSAPSS :> TPMS_SIG_SCHEME_RSAPSS_Unmarshal @@
    TPM_ALG.ECDSA :> TPMS_SIG_SCHEME_ECDSA_Unmarshal @@
    TPM_ALG.ECDAA :> TPMS_SIG_SCHEME_ECDAA_Unmarshal @@
    TPM_ALG.SM2 :> TPMS_SIG_SCHEME_SM2_Unmarshal @@
    TPM_ALG.ECSCHNORR :> TPMS_SIG_SCHEME_ECSCHNORR_Unmarshal @@
    TPM_ALG.RSAES :> TPMS_ENC_SCHEME_RSAES_Unmarshal @@
    TPM_ALG.OAEP :> TPMS_ENC_SCHEME_OAEP_Unmarshal @@
    TPM_ALG.NULL :> Nothing)

TPMI_ALG_RSA_SCHEME_Unmarshal(allowNull) ==
  Only(TPM_ALG_ID_Unmarshal, {TPM_ALG.RSASSA, TPM_ALG.RSAPSS, TPM_ALG.RSAES, TPM_ALG.OAEP}
  \union If(allowNull, TPM_ALG.NULL))

TPMT_RSA_SCHEME_Unmarshal(allowNull) == Struct(<<
    <<"scheme", TPMI_ALG_RSA_SCHEME_Unmarshal(allowNull)>>,
    <<"details", TPMU_ASYM_SCHEME_Unmarshal, "scheme">>>>)

TPMI_ALG_RSA_DECRYPT_Unmarshal(allowNull) ==
  Only(TPM_ALG_ID_Unmarshal, {TPM_ALG.RSAES, TPM_ALG.OAEP} \union If(allowNull, TPM_ALG.NULL))

TPMT_RSA_DECRYPT_Unmarshal(allowNull) == Struct(<<
    <<"scheme", TPMI_ALG_RSA_DECRYPT_Unmarshal(allowNull)>>,
    <<"details", TPMU_ASYM_SCHEME_Unmarshal, "scheme">>>>)

TPM2B_PUBLIC_KEY_RSA_Unmarshal == Buffer(MAX_RSA_KEY_BYTES)
TPMI_RSA_KEY_BITS_Unmarshal == Only(TPM_KEY_BITS_Unmarshal, {1024, 2048})
TPM2B_PRIVATE_KEY_RSA_Unmarshal == Buffer(MAX_RSA_KEY_BYTES \div 2)
TPM2B_ECC_PARAMETER_Unmarshal == Buffer(MAX_ECC_KEY_BYTES)

TPMS_ECC_POINT_Unmarshal == Struct(<<
    <<"x", TPM2B_ECC_PARAMETER_Unmarshal>>,
    <<"y", TPM2B_ECC_PARAMETER_Unmarshal>>>>)

TPM2B_ECC_POINT_Unmarshal == Sized(TPMS_ECC_POINT_Unmarshal)

TPMI_ALG_ECC_SCHEME_Unmarshal(allowNull) ==
  Only(TPM_ALG_ID_Unmarshal, {TPM_ALG.ECDSA, TPM_ALG.SM2, TPM_ALG.ECDAA, TPM_ALG.ECSCHNORR,
  TPM_ALG.ECDH} \union If(allowNull, TPM_ALG.NULL))

TPMI_ECC_CURVE_Unmarshal ==
  Only(TPM_ECC_CURVE_Unmarshal, {TPM_ECC.BN_P256, TPM_ECC.NIST_P256, TPM_ECC.NIST_P384})

TPMT_ECC_SCHEME_Unmarshal(allowNull) == Struct(<<
    <<"scheme", TPMI_ALG_ECC_SCHEME_Unmarshal(allowNull)>>,
    <<"details", TPMU_ASYM_SCHEME_Unmarshal, "scheme">>>>)

TPMS_ALGORITHM_DETAIL_ECC_Unmarshal == Struct(<<
    <<"curveID", TPM_ECC_CURVE_Unmarshal>>,
    <<"keySize", UINT16_Unmarshal>>,
    <<"kdf", TPMT_KDF_SCHEME_Unmarshal(TRUE)>>,
    <<"sign", TPMT_ECC_SCHEME_Unmarshal(TRUE)>>,
    <<"p", TPM2B_ECC_PARAMETER_Unmarshal>>,
    <<"a", TPM2B_ECC_PARAMETER_Unmarshal>>,
    <<"b", TPM2B_ECC_PARAMETER_Unmarshal>>,
    <<"gX", TPM2B_ECC_PARAMETER_Unmarshal>>,
    <<"gY", TPM2B_ECC_PARAMETER_Unmarshal>>,
    <<"n", TPM2B_ECC_PARAMETER_Unmarshal>>,
    <<"h", TPM2B_ECC_PARAMETER_Unmarshal>>>>)

TPMS_SIGNATURE_RSA_Unmarshal == Struct(<<
    <<"hash", TPMI_ALG_HASH_Unmarshal(FALSE)>>,
    <<"sig", TPM2B_PUBLIC_KEY_RSA_Unmarshal>>>>)

TPMS_SIGNATURE_RSASSA_Unmarshal == TPMS_SIGNATURE_RSA_Unmarshal
TPMS_SIGNATURE_RSAPSS_Unmarshal == TPMS_SIGNATURE_RSA_Unmarshal

TPMS_SIGNATURE_ECC_Unmarshal == Struct(<<
    <<"hash", TPMI_ALG_HASH_Unmarshal(FALSE)>>,
    <<"signatureR", TPM2B_ECC_PARAMETER_Unmarshal>>,
    <<"signatureS", TPM2B_ECC_PARAMETER_Unmarshal>>>>)

TPMS_SIGNATURE_ECDSA_Unmarshal == TPMS_SIGNATURE_ECC_Unmarshal
TPMS_SIGNATURE_ECDAA_Unmarshal == TPMS_SIGNATURE_ECC_Unmarshal
TPMS_SIGNATURE_SM2_Unmarshal == TPMS_SIGNATURE_ECC_Unmarshal
TPMS_SIGNATURE_ECSCHNORR_Unmarshal == TPMS_SIGNATURE_ECC_Unmarshal

TPMU_SIGNATURE_Unmarshal == Union(
    TPM_ALG.RSASSA :> TPMS_SIGNATURE_RSASSA_Unmarshal @@
    TPM_ALG.RSAPSS :> TPMS_SIGNATURE_RSAPSS_Unmarshal @@
    TPM_ALG.ECDSA :> TPMS_SIGNATURE_ECDSA_Unmarshal @@
    TPM_ALG.ECDAA :> TPMS_SIGNATURE_ECDAA_Unmarshal @@
    TPM_ALG.SM2 :> TPMS_SIGNATURE_SM2_Unmarshal @@
    TPM_ALG.ECSCHNORR :> TPMS_SIGNATURE_ECSCHNORR_Unmarshal @@
    TPM_ALG.HMAC :> TPMT_HA_Unmarshal(FALSE) @@
    TPM_ALG.NULL :> Nothing)

TPMT_SIGNATURE_Unmarshal(allowNull) == Struct(<<
    <<"sigAlg", TPMI_ALG_SIG_SCHEME_Unmarshal(allowNull)>>,
    <<"signature", TPMU_SIGNATURE_Unmarshal, "sigAlg">>>>)

TPM2B_ENCRYPTED_SECRET_Unmarshal == Buffer(sizeof_TPMU_ENCRYPTED_SECRET)

TPMI_ALG_PUBLIC_Unmarshal ==
  Only(TPM_ALG_ID_Unmarshal, {TPM_ALG.KEYEDHASH, TPM_ALG.RSA, TPM_ALG.ECC, TPM_ALG.SYMCIPHER})

TPMU_PUBLIC_ID_Unmarshal == Union(
    TPM_ALG.KEYEDHASH :> TPM2B_DIGEST_Unmarshal @@
    TPM_ALG.SYMCIPHER :> TPM2B_DIGEST_Unmarshal @@
    TPM_ALG.RSA :> TPM2B_PUBLIC_KEY_RSA_Unmarshal @@
    TPM_ALG.ECC :> TPMS_ECC_POINT_Unmarshal)

TPMS_KEYEDHASH_PARMS_Unmarshal == Struct(<<<<"scheme", TPMT_KEYEDHASH_SCHEME_Unmarshal(TRUE)>>>>)

TPMS_RSA_PARMS_Unmarshal == Struct(<<
    <<"symmetric", TPMT_SYM_DEF_OBJECT_Unmarshal(TRUE)>>,
    <<"scheme", TPMT_RSA_SCHEME_Unmarshal(TRUE)>>,
    <<"keyBits", TPMI_RSA_KEY_BITS_Unmarshal>>,
    <<"exponent", UINT32_Unmarshal>>>>)

TPMS_ECC_PARMS_Unmarshal == Struct(<<
    <<"symmetric", TPMT_SYM_DEF_OBJECT_Unmarshal(TRUE)>>,
    <<"scheme", TPMT_ECC_SCHEME_Unmarshal(TRUE)>>,
    <<"curveID", TPMI_ECC_CURVE_Unmarshal>>,
    <<"kdf", TPMT_KDF_SCHEME_Unmarshal(TRUE)>>>>)

TPMU_PUBLIC_PARMS_Unmarshal == Union(
    TPM_ALG.KEYEDHASH :> TPMS_KEYEDHASH_PARMS_Unmarshal @@
    TPM_ALG.SYMCIPHER :> TPMS_SYMCIPHER_PARMS_Unmarshal @@
    TPM_ALG.RSA :> TPMS_RSA_PARMS_Unmarshal @@
    TPM_ALG.ECC :> TPMS_ECC_PARMS_Unmarshal)

TPMT_PUBLIC_PARMS_Unmarshal == Struct(<<
    <<"type", TPMI_ALG_PUBLIC_Unmarshal>>,
    <<"parameters", TPMU_PUBLIC_PARMS_Unmarshal, "type">>>>)

TPMT_PUBLIC_Unmarshal(allowNull) == Struct(<<
    <<"type", TPMI_ALG_PUBLIC_Unmarshal>>,
    <<"nameAlg", TPMI_ALG_HASH_Unmarshal(allowNull)>>,
    <<"objectAttributes", TPMA_OBJECT_Unmarshal>>,
    <<"authPolicy", TPM2B_DIGEST_Unmarshal>>,
    <<"parameters", TPMU_PUBLIC_PARMS_Unmarshal, "type">>,
    <<"unique", TPMU_PUBLIC_ID_Unmarshal, "type">>>>)

TPM2B_PUBLIC_Unmarshal(allowNull) == Sized(TPMT_PUBLIC_Unmarshal(allowNull))
TPM2B_TEMPLATE_Unmarshal == Buffer(sizeof_TPMT_PUBLIC)

TPMU_SENSITIVE_COMPOSITE_Unmarshal == Union(
    TPM_ALG.RSA :> TPM2B_PRIVATE_KEY_RSA_Unmarshal @@
    TPM_ALG.ECC :> TPM2B_ECC_PARAMETER_Unmarshal @@
    TPM_ALG.KEYEDHASH :> TPM2B_SENSITIVE_DATA_Unmarshal @@
    TPM_ALG.SYMCIPHER :> TPM2B_SYM_KEY_Unmarshal)

TPMT_SENSITIVE_Unmarshal == Struct(<<
    <<"sensitiveType", TPMI_ALG_PUBLIC_Unmarshal>>,
    <<"authValue", TPM2B_AUTH_Unmarshal>>,
    <<"seedValue", TPM2B_DIGEST_Unmarshal>>,
    <<"sensitive", TPMU_SENSITIVE_COMPOSITE_Unmarshal, "sensitiveType">>>>)

TPM2B_SENSITIVE_Unmarshal == Optional(Sized(TPMT_SENSITIVE_Unmarshal))
TPM2B_PRIVATE_Unmarshal == Buffer(sizeof_PRIVATE)
TPM2B_ID_OBJECT_Unmarshal == Buffer(sizeof_ID_OBJECT)
TPMA_NV_Unmarshal == Flags(UINT32_Unmarshal, TPMA_NV_RESERVED)

TPMS_NV_PUBLIC_Unmarshal == Struct(<<
    <<"nvIndex", TPMI_RH_NV_INDEX_Unmarshal(FALSE)>>,
    <<"nameAlg", TPMI_ALG_HASH_Unmarshal(FALSE)>>,
    <<"attributes", TPMA_NV_Unmarshal>>,
    <<"authPolicy", TPM2B_DIGEST_Unmarshal>>,
    <<"dataSize", Within(UINT16_Unmarshal, {<<0, MAX_NV_INDEX_SIZE>>})>>>>)

TPM2B_NV_PUBLIC_Unmarshal == Sized(TPMS_NV_PUBLIC_Unmarshal)
TPM2B_CONTEXT_SENSITIVE_Unmarshal == Buffer(MAX_CONTEXT_SIZE)

TPMS_CONTEXT_DATA_Unmarshal == Struct(<<
    <<"integrity", TPM2B_DIGEST_Unmarshal>>,
    <<"encrypted", TPM2B_CONTEXT_SENSITIVE_Unmarshal>>>>)

TPM2B_CONTEXT_DATA_Unmarshal == Buffer(sizeof_TPMS_CONTEXT_DATA)

TPMS_CONTEXT_Unmarshal == Struct(<<
    <<"sequence", UINT64_Unmarshal>>,
    <<"savedHandle", TPMI_DH_CONTEXT_Unmarshal(FALSE)>>,
    <<"hierarchy", TPMI_RH_HIERARCHY_Unmarshal(TRUE)>>,
    <<"contextBlob", TPM2B_CONTEXT_DATA_Unmarshal>>>>)

TPMS_CREATION_DATA_Unmarshal == Struct(<<
    <<"pcrSelect", TPML_PCR_SELECTION_Unmarshal>>,
    <<"pcrDigest", TPM2B_DIGEST_Unmarshal>>,
    <<"locality", TPMA_LOCALITY_Unmarshal>>,
    <<"parentNameAlg", TPM_ALG_ID_Unmarshal>>,
    <<"parentName", TPM2B_NAME_Unmarshal>>,
    <<"parentQualifiedName", TPM2B_NAME_Unmarshal>>,
    <<"outsideInfo", TPM2B_DATA_Unmarshal>>>>)

TPM2B_CREATION_DATA_Unmarshal == Sized(TPMS_CREATION_DATA_Unmarshal)

====================================================================================
