--------------------------------- MODULE TpmTypes ---------------------------------
(*****************************************************************************)
(* The constants of the TPM 2.0 library as the headers of the TSS define     *)
(* them: the algorithms, structure tags and handles a limit of the           *)
(* unmarshaling functions names, and the sizes of the implementation's       *)
(* buffers.                                                                  *)
(*                                                                           *)
(* A 32 bit number is signed here (TPM handles from 0x80000000 are           *)
(* negative), and a mask of reserved bits is the set of their numbers. A     *)
(* sizeof is the value of the build.                                         *)
(*****************************************************************************)
EXTENDS Integers

TPM_ALG ==
  [RSA |-> 1, SHA1 |-> 4, HMAC |-> 5, AES |-> 6, MGF1 |-> 7, KEYEDHASH |-> 8, XOR |-> 10,
   SHA256 |-> 11, SHA384 |-> 12, NULL |-> 16, RSASSA |-> 20, RSAES |-> 21, RSAPSS |-> 22,
   OAEP |-> 23, ECDSA |-> 24, ECDH |-> 25, ECDAA |-> 26, SM2 |-> 27, ECSCHNORR |-> 28,
   KDF1_SP800_56A |-> 32, KDF1_SP800_108 |-> 34, ECC |-> 35, SYMCIPHER |-> 37, CTR |-> 64,
   OFB |-> 65, CBC |-> 66, CFB |-> 67, ECB |-> 68]

TPM_ECC ==
  [NONE |-> 0, NIST_P192 |-> 1, NIST_P224 |-> 2, NIST_P256 |-> 3, NIST_P384 |-> 4,
   NIST_P521 |-> 5, BN_P256 |-> 16, BN_P638 |-> 17, SM2_P256 |-> 32]

TPM_ST ==
  [RSP_COMMAND |-> 196, NULL |-> 32768, NO_SESSIONS |-> 32769, SESSIONS |-> 32770,
   ATTEST_NV |-> 32788, ATTEST_COMMAND_AUDIT |-> 32789, ATTEST_SESSION_AUDIT |-> 32790,
   ATTEST_CERTIFY |-> 32791, ATTEST_QUOTE |-> 32792, ATTEST_TIME |-> 32793,
   ATTEST_CREATION |-> 32794, CREATION |-> 32801, VERIFIED |-> 32802, AUTH_SECRET |-> 32803,
   HASHCHECK |-> 32804, AUTH_SIGNED |-> 32805]

TPM_SE ==
  [HMAC |-> 0, POLICY |-> 1, TRIAL |-> 3]

TPM_CAP ==
  [ALGS |-> 0, HANDLES |-> 1, COMMANDS |-> 2, PP_COMMANDS |-> 3, AUDIT_COMMANDS |-> 4,
   PCRS |-> 5, TPM_PROPERTIES |-> 6, PCR_PROPERTIES |-> 7, ECC_CURVES |-> 8,
   VENDOR_PROPERTY |-> 256]

TPM_CLOCK ==
  [COARSE_SLOWER |-> -3, MEDIUM_SLOWER |-> -2, FINE_SLOWER |-> -1, NO_CHANGE |-> 0,
   FINE_FASTER |-> 1, MEDIUM_FASTER |-> 2, COARSE_FASTER |-> 3]

TPM_EO ==
  [EQ |-> 0, NEQ |-> 1, SIGNED_GT |-> 2, UNSIGNED_GT |-> 3, SIGNED_LT |-> 4, UNSIGNED_LT |-> 5,
   SIGNED_GE |-> 6, UNSIGNED_GE |-> 7, SIGNED_LE |-> 8, UNSIGNED_LE |-> 9, BITSET |-> 10,
   BITCLEAR |-> 11]

TPM_RH ==
  [OWNER |-> 1073741825, NULL |-> 1073741831, LOCKOUT |-> 1073741834,
   ENDORSEMENT |-> 1073741835, PLATFORM |-> 1073741836, PLATFORM_NV |-> 1073741837,
   AUTH_00 |-> 1073741840, AUTH_FF |-> 1073742095]

YES == 1
NO == 0
MAX_RSA_KEY_BYTES == 256
MAX_ECC_KEY_BYTES == 48
PCR_SELECT_MIN == 3
PCR_SELECT_MAX == 3
MAX_CONTEXT_SIZE == 2048
MAX_DIGEST_BUFFER == 2048
MAX_NV_INDEX_SIZE == 2048
MAX_NV_BUFFER_SIZE == 2048
MAX_ALG_LIST_SIZE == 64
MAX_SYM_DATA == 128
SHA1_DIGEST_SIZE == 20
SHA256_DIGEST_SIZE == 32
SHA384_DIGEST_SIZE == 48
HASH_COUNT == 3
MAX_SYM_KEY_BYTES == 32
MAX_SYM_BLOCK_SIZE == 16
MAX_CAP_ALGS == 255
MAX_CAP_HANDLES == 510
MAX_CAP_CC == 510
MAX_TPM_PROPERTIES == 255
MAX_PCR_PROPERTIES == 255
MAX_ECC_CURVES == 1020
TPM_GENERATED_VALUE == -11254969
TPM_SU_CLEAR == 0
TPM_SU_STATE == 1
TPM_RS_PW == 1073741833
PCR_LAST == 23
HMAC_SESSION_FIRST == 33554432
HMAC_SESSION_LAST == 50331647
POLICY_SESSION_FIRST == 50331648
POLICY_SESSION_LAST == 67108863
TRANSIENT_FIRST == -2147483647 - 1
TRANSIENT_LAST == -1879048193
PERSISTENT_FIRST == -2130706432
PERSISTENT_LAST == -2113929217
NV_INDEX_FIRST == 16777216
NV_INDEX_LAST == 33554431
TPMA_ALGORITHM_RESERVED == (4 .. 7) \union (11 .. 31)
TPMA_OBJECT_RESERVED == {0, 3} \union (8 .. 9) \union (12 .. 15) \union (19 .. 31)
TPMA_SESSION_RESERVED == (3 .. 4)
TPMA_CC_RESERVED == (16 .. 21) \union (30 .. 31)
TPMA_NV_RESERVED == (8 .. 9) \union (20 .. 24)
sizeof_EVENT == 1024
sizeof_TPMS_ATTEST == 2496
sizeof_TPMS_CONTEXT_DATA == 2180
sizeof_TPMT_HA == 130
sizeof_TPMT_PUBLIC == 420
sizeof_TPMU_ENCRYPTED_SECRET == 256
sizeof_TPMU_HA == 128
sizeof_TPMU_NAME == 132
sizeof_ID_OBJECT == 260
sizeof_PRIVATE == 1166

===================================================================================
