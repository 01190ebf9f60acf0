------------------------------ MODULE UtilityKeys ------------------------------
(***************************************************************************)
(* The utilities for the keys and the other objects: how they are made,    *)
(* loaded, moved between TPMs and used.  For each the variables its        *)
(* options set, and main() from the end of the option loop on.             *)
(***************************************************************************)
EXTENDS ObjectTemplates

\* create.c
create_Options ==
  Arguments(
    {"creationHashFilename", "dataFilename", "keyPassword", "parentHandle", "pemFilename",
     "policyFilename", "privateKeyFilename", "publicKeyFilename", "ticketFilename"})
  \union OneOf("algPublic", {"TPM_ALG_RSA", "TPM_ALG_ECC"})
  \union Counted("keyType", "keyTypeSpecified", "none", KeyTypes)

create_main ==
  <<Requires({"parentHandle"}), Refuse(Not(Is("keyTypeSpecified", "once")))>>
  \o CheckKeyType
  \o <<Sets({"parentHandle"}),
       When(Given("keyPassword"),
         <<Try({"inSensitive.userAuth"})>>,
         <<Sets({"inSensitive.userAuth"})>>),
       When(Given("dataFilename"), <<Try({"inSensitive.data"})>>, <<Sets({"inSensitive.data"})>>),
       PublicTemplate("inPublic"),
       Sets({"creationPCR", "outsideInfo"}),
       TSS_Create,
       TSS_Execute("Create", Handles(1, 3)),
       TSS_Delete,
       Try({}),
       Writes(
         {"privateKeyFilename", "publicKeyFilename", "pemFilename", "ticketFilename",
          "creationHashFilename"})>>

\* createloaded.c
createloaded_Options ==
  Arguments(
    {"dataFilename", "derived", "keyPassword", "parentHandle", "pemFilename", "policyFilename",
     "privateKeyFilename", "publicKeyFilename"})
  \union OneOf("algPublic", {"TPM_ALG_RSA", "TPM_ALG_ECC"})
  \union Counted("keyType", "keyTypeSpecified", "none", KeyTypes \ {"TYPE_DAA", "TYPE_DAAR"})

createloaded_main ==
  <<Requires({"parentHandle"}), Refuse(Not(Is("keyTypeSpecified", "once")))>>
  \o CheckKeyType
  \o <<Sets({"parentHandle"}),
       When(Given("keyPassword"),
         <<Try({"inSensitive.userAuth"})>>,
         <<Sets({"inSensitive.userAuth"})>>),
       When(Given("dataFilename"), <<Try({"inSensitive.data"})>>, <<Sets({"inSensitive.data"})>>),
       PublicTemplate("publicArea"),
       When(Given("derived"),
         <<Sets({"publicArea.unique.context"}),
           Marshals("TPMT_PUBLIC_D", "publicArea", "inPublic")>>,
         <<Marshals("TPMT_PUBLIC", "publicArea", "inPublic")>>),
       TSS_Create,
       TSS_Execute("CreateLoaded", Handles(1, 3)),
       TSS_Delete,
       Writes({"privateKeyFilename", "publicKeyFilename", "pemFilename"})>>

\* createprimary.c
createprimary_Options ==
  Arguments(
    {"creationHashFilename", "dataFilename", "keyPassword", "parentPassword",
     "parentPasswordFilename", "pemFilename", "policyFilename", "publicKeyFilename",
     "ticketFilename", "uniqueFilename"})
  \union OneOf("algPublic", {"TPM_ALG_RSA", "TPM_ALG_ECC"})
  \union OneOf("hierarchyChar", {"n", "e", "o", "p", "other"})
  \union Counted("keyType", "keyTypeSpecified", "TYPE_ST", KeyTypes)

createprimary_main ==
  <<Refuse(Is("keyTypeSpecified", "again"))>>
  \o CheckKeyType
  \o <<Refuse(And(Given("parentPassword"), Given("parentPasswordFilename"))),
       When(Not(Given("parentPassword")),
         <<When(Given("parentPasswordFilename"), <<Try({})>>, <<>>)>>,
         <<>>),
       Refuse(Not(Among("hierarchyChar", {"e", "n", "o", "p"}))),
       Sets({"primaryHandle"}),
       When(Given("keyPassword"),
         <<Try({"inSensitive.userAuth"})>>,
         <<Sets({"inSensitive.userAuth"})>>),
       When(Given("dataFilename"), <<Try({"inSensitive.data"})>>, <<Sets({"inSensitive.data"})>>),
       PublicTemplate("inPublic"),
       When(Given("uniqueFilename"), <<Try({"inPublic.unique"})>>, <<Sets({"inPublic.unique"})>>),
       Sets({"creationPCR", "outsideInfo"}),
       TSS_Create,
       TSS_Execute("CreatePrimary", Handles(1, 3)),
       TSS_Delete,
       Try({}),
       Writes({"publicKeyFilename", "pemFilename", "ticketFilename", "creationHashFilename"})>>

\* load.c
load_Options == Arguments({"parentHandle", "privateKeyFilename", "publicKeyFilename"})

load_main ==
  <<Requires({"parentHandle", "privateKeyFilename", "publicKeyFilename"}),
    Try({"inPrivate", "inPublic"}),
    Sets({"parentHandle"}),
    TSS_Create,
    TSS_Execute("Load", Handles(1, 3)),
    TSS_Delete>>

\* loadexternal.c
loadexternal_Options ==
  OneOf("algPublic", {"TPM_ALG_RSA", "TPM_ALG_ECC"})
  \union OnlyOne("inputCount", {"derKeyFilename", "pemKeyFilename", "publicKeyFilename"})

loadexternal_main ==
  <<Refuse(Not(Is("inputCount", "once"))),
    Refuse(Perhaps),
    Sets({"inPrivate"}),
    When(Given("publicKeyFilename"),
      <<Try({"inPublic"})>>,
      <<When(Given("pemKeyFilename"),
          <<When(Is("algPublic", "TPM_ALG_RSA"), <<Try({"inPublic"})>>, <<Try({"inPublic"})>>)>>,
          <<Requires({"derKeyFilename"}),
            Try({"inPrivate", "inPublic"}),
            Sets({"inPrivate"})>>)>>),
    Sets({"hierarchy"}),
    TSS_Create,
    TSS_Execute("LoadExternal", Handles(0, 4)),
    TSS_Delete>>

\* importpem.c
importpem_Options ==
  Arguments(
    {"outPrivateFilename", "outPublicFilename", "parentHandle", "pemKeyFilename",
     "policyFilename"})

importpem_main ==
  <<Requires({"parentHandle", "pemKeyFilename", "outPublicFilename", "outPrivateFilename"}),
    Sets({"encryptionKey", "inSymSeed", "parentHandle"}),
    Selects("symmetricAlg.algorithm", TPM_ALG.NULL),
    Try({"duplicate", "objectPublic"})>>
  \o getPolicy("objectPublic")
  \o <<TSS_Create,
       TSS_Execute("Import", Handles(1, 3)),
       TSS_Delete,
       Try({})>>

\* import.c
import_Options ==
  Arguments(
    {"duplicateFilename", "encryptionKeyFilename", "inSymSeedFilename", "objectPublicFilename",
     "outPrivateFilename", "parentHandle"})
  \union OneOf("symmetricAlg.algorithm", {"TPM_ALG_NULL", "TPM_ALG_AES"})

import_main ==
  <<When(Is("symmetricAlg.algorithm", "TPM_ALG_NULL"),
      <<Selects("symmetricAlg.algorithm", TPM_ALG.NULL)>>,
      <<Selects("symmetricAlg.algorithm", TPM_ALG.AES),
        Sets({"symmetricAlg.keyBits", "symmetricAlg.mode"})>>),
    Refuse(And(Is("symmetricAlg.algorithm", "TPM_ALG_NULL"), Given("encryptionKeyFilename"))),
    Refuse(
      And(Not(Is("symmetricAlg.algorithm", "TPM_ALG_NULL")),
        Not(Given("encryptionKeyFilename")))),
    Requires(
      {"parentHandle", "objectPublicFilename", "duplicateFilename", "inSymSeedFilename",
       "outPrivateFilename"}),
    Sets({"parentHandle"}),
    When(Given("encryptionKeyFilename"), <<Try({"encryptionKey"})>>, <<Sets({"encryptionKey"})>>),
    Try({"duplicate", "inSymSeed", "objectPublic"}),
    TSS_Create,
    TSS_Execute("Import", Handles(1, 3)),
    TSS_Delete,
    Try({})>>

\* duplicate.c
duplicate_Options ==
  Arguments(
    {"duplicateFilename", "encryptionKeyInFilename", "encryptionKeyOutFilename", "objectHandle",
     "outSymSeedFilename"})
  \union OneOf("symmetricAlg.algorithm", {"TPM_ALG_NULL", "TPM_ALG_AES"})

duplicate_main ==
  <<When(Is("symmetricAlg.algorithm", "TPM_ALG_NULL"),
      <<Selects("symmetricAlg.algorithm", TPM_ALG.NULL)>>,
      <<Selects("symmetricAlg.algorithm", TPM_ALG.AES),
        Sets({"symmetricAlg.keyBits", "symmetricAlg.mode"})>>),
    Requires({"objectHandle"}),
    Refuse(And(Is("symmetricAlg.algorithm", "TPM_ALG_NULL"), Given("encryptionKeyInFilename"))),
    Refuse(
      And(Not(Is("symmetricAlg.algorithm", "TPM_ALG_NULL")),
        Not(Given("encryptionKeyInFilename")))),
    Sets({"newParentHandle", "objectHandle"}),
    When(Given("encryptionKeyInFilename"),
      <<Anyway({"encryptionKeyIn"})>>,
      <<Sets({"encryptionKeyIn"})>>),
    TSS_Create,
    TSS_Execute("Duplicate", Handles(1, 3)),
    TSS_Delete,
    Writes({"encryptionKeyOutFilename", "duplicateFilename", "outSymSeedFilename"})>>

\* rewrap.c
rewrap_Options ==
  Arguments(
    {"inDuplicateFilename", "inSymSeedFilename", "nameFilename", "newParent", "oldParent",
     "outDuplicateFilename", "outSymSeedFilename"})

rewrap_main ==
  <<Requires(
      {"oldParent", "newParent", "inDuplicateFilename", "nameFilename", "inSymSeedFilename"}),
    Sets({"newParent", "oldParent"}),
    Try({"inDuplicate", "inSymSeed", "name"}),
    TSS_Create,
    TSS_Execute("Rewrap", Handles(1, 3)),
    TSS_Delete,
    Writes({"outDuplicateFilename", "outSymSeedFilename"})>>

\* objectchangeauth.c
objectchangeauth_Options ==
  Arguments({"newPassword", "privateKeyFilename"})
  \union OneOf("objectHandle", {"TPM_RH_NULL", "other"})
  \union OneOf("parentHandle", {"TPM_RH_NULL", "other"})

objectchangeauth_main ==
  <<Refuse(Is("parentHandle", "TPM_RH_NULL")),
    Refuse(Is("objectHandle", "TPM_RH_NULL")),
    Sets({"objectHandle", "parentHandle"}),
    When(Given("newPassword"), <<Try({"newAuth"})>>, <<Sets({"newAuth"})>>),
    TSS_Create,
    TSS_Execute("ObjectChangeAuth", Handles(1, 3)),
    TSS_Delete,
    Writes({"privateKeyFilename"})>>

\* readpublic.c
readpublic_Options ==
  Arguments({"pemFilename", "publicKeyFilename"})
  \union OneOf("objectHandle", {"TPM_RH_NULL", "other"})

readpublic_main ==
  <<Refuse(Is("objectHandle", "TPM_RH_NULL")),
    Sets({"objectHandle"}),
    TSS_Create,
    TSS_Execute("ReadPublic", Handles(0, 4)),
    TSS_Delete,
    Writes({"publicKeyFilename", "pemFilename"})>>

\* contextload.c
contextload_Options == Arguments({"contextFilename"})

contextload_main ==
  <<Requires({"contextFilename"}),
    Try({"context"}),
    TSS_Create,
    TSS_Execute("ContextLoad", Handles(0, 1)),
    TSS_Delete>>

\* contextsave.c
contextsave_Options == Arguments({"contextFilename", "saveHandle"})

contextsave_main ==
  <<Requires({"saveHandle"}),
    Sets({"saveHandle"}),
    TSS_Create,
    TSS_Execute("ContextSave", Handles(0, 1)),
    TSS_Delete,
    Writes({"contextFilename"})>>

\* evictcontrol.c
evictcontrol_Options ==
  Arguments({"objectHandle", "persistentHandle"})
  \union OneOf("authHandleChar", {"none", "o", "p", "other"})

evictcontrol_main ==
  <<Requires({"objectHandle", "persistentHandle"}),
    Refuse(Not(Among("authHandleChar", {"o", "p"}))),
    Sets({"auth", "objectHandle", "persistentHandle"}),
    TSS_Create,
    TSS_Execute("EvictControl", Handles(1, 3)),
    TSS_Delete>>

\* flushcontext.c
flushcontext_Options == Arguments({"handle"})

flushcontext_main ==
  <<Requires({"handle"}),
    Sets({"flushHandle"}),
    TSS_Create,
    TSS_Execute("FlushContext", Handles(0, 1)),
    TSS_Delete>>

\* unseal.c
unseal_Options == Arguments({"itemHandle", "outDataFilename"})

unseal_main ==
  <<Requires({"itemHandle"}),
    Sets({"itemHandle"}),
    TSS_Create,
    TSS_Execute("Unseal", Handles(1, 3)),
    TSS_Delete,
    Writes({"outDataFilename"})>>

\* activatecredential.c
activatecredential_Options ==
  Arguments(
    {"activateHandle", "inputCredentialFilename", "keyHandle", "outputCredentialFilename",
     "secretFilename"})

activatecredential_main ==
  <<Requires({"activateHandle", "keyHandle", "inputCredentialFilename", "secretFilename"}),
    Sets({"activateHandle", "keyHandle"}),
    Try({"credentialBlob", "secret"}),
    TSS_Create,
    TSS_Execute("ActivateCredential", Handles(2, 2)),
    TSS_Delete,
    Writes({"outputCredentialFilename"})>>

\* makecredential.c
makecredential_Options ==
  Arguments(
    {"inputCredentialFilename", "nameFilename", "outputCredentialFilename", "pubHandle",
     "secretFilename"})

makecredential_main ==
  <<Requires({"pubHandle", "inputCredentialFilename", "nameFilename"}),
    Sets({"handle"}),
    Try({"credential", "objectName"}),
    TSS_Create,
    TSS_Execute("MakeCredential", Handles(0, 4)),
    TSS_Delete,
    Writes({"outputCredentialFilename", "secretFilename"})>>

\* rsadecrypt.c
rsadecrypt_Options ==
  Arguments({"decryptFilename", "encryptFilename", "keyHandle"})
  \union OneOf("halg", {"TPM_ALG_NULL", "other"})

rsadecrypt_main ==
  <<Requires({"keyHandle", "encryptFilename"}),
    Try({}),
    When(Not(Is("halg", "TPM_ALG_NULL")), <<Try({})>>, <<>>),
    Sets({"cipherText", "keyHandle"}),
    Selects("inScheme.scheme", TPM_ALG.NULL),
    Sets({"label"}),
    TSS_Create,
    TSS_Execute("RSA_Decrypt", Handles(1, 3)),
    TSS_Delete,
    Writes({"decryptFilename"})>>

\* rsaencrypt.c
rsaencrypt_Options == Arguments({"decryptFilename", "encryptFilename", "keyHandle"})

rsaencrypt_main ==
  <<Requires({"keyHandle", "decryptFilename"}),
    Try({}),
    Sets({"keyHandle", "message"}),
    Selects("inScheme.scheme", TPM_ALG.NULL),
    Sets({"label"}),
    TSS_Create,
    TSS_Execute("RSA_Encrypt", Handles(0, 1)),
    TSS_Delete,
    Writes({"encryptFilename"})>>

\* encryptdecrypt.c
encryptdecrypt_Options == Arguments({"inFilename", "keyHandle", "outFilename", "two"})

encryptdecrypt_main ==
  <<Requires({"keyHandle", "inFilename"}),
    Try({}),
    Sets({"decrypt", "keyHandle"}),
    Sets({"mode"}),
    Sets({"inData", "ivIn"}),
    TSS_Create,
    When(Given("two"),
      <<TSS_Execute("EncryptDecrypt2", Handles(1, 3))>>,
      <<TSS_Execute("EncryptDecrypt", Handles(1, 3))>>),
    TSS_Delete,
    Writes({"outFilename"})>>

UtilityKeysPrograms ==
  [create |-> Utility(create_Options, create_main),
   createloaded |-> Utility(createloaded_Options, createloaded_main),
   createprimary |-> Utility(createprimary_Options, createprimary_main),
   load |-> Utility(load_Options, load_main),
   loadexternal |-> Utility(loadexternal_Options, loadexternal_main),
   importpem |-> Utility(importpem_Options, importpem_main),
   import |-> Utility(import_Options, import_main),
   duplicate |-> Utility(duplicate_Options, duplicate_main),
   rewrap |-> Utility(rewrap_Options, rewrap_main),
   objectchangeauth |-> Utility(objectchangeauth_Options, objectchangeauth_main),
   readpublic |-> Utility(readpublic_Options, readpublic_main),
   contextload |-> Utility(contextload_Options, contextload_main),
   contextsave |-> Utility(contextsave_Options, contextsave_main),
   evictcontrol |-> Utility(evictcontrol_Options, evictcontrol_main),
   flushcontext |-> Utility(flushcontext_Options, flushcontext_main),
   unseal |-> Utility(unseal_Options, unseal_main),
   activatecredential |-> Utility(activatecredential_Options, activatecredential_main),
   makecredential |-> Utility(makecredential_Options, makecredential_main),
   rsadecrypt |-> Utility(rsadecrypt_Options, rsadecrypt_main),
   rsaencrypt |-> Utility(rsaencrypt_Options, rsaencrypt_main),
   encryptdecrypt |-> Utility(encryptdecrypt_Options, encryptdecrypt_main)]

================================================================================
