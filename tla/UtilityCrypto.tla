----------------------------- MODULE UtilityCrypto -----------------------------
(***************************************************************************)
(* The utilities for signatures, attestations, hashes and other            *)
(* cryptography.  For each the variables its options set, and main() from  *)
(* the end of the option loop on.                                          *)
(***************************************************************************)
EXTENDS UtilityPrograms, TpmTypes

\* -if gives the message, -ih its hash.
MessageOrHash ==
  {{"messageFilename" :> "none" @@ "doHash" :> "some",
    "messageFilename" :> "some" @@ "doHash" :> "some",
    "messageFilename" :> "some" @@ "doHash" :> "none"}}

\* sign.c
sign_Options ==
  Arguments(
    {"keyHandle", "messageFilename", "publicKeyFilename", "signatureFilename", "ticketFilename"})

sign_main ==
  <<Requires({"messageFilename", "keyHandle"}),
    Try({}),
    Sets({"digest", "inScheme.details", "inScheme.scheme", "keyHandle"}),
    When(Given("ticketFilename"),
      <<Try({"validation"})>>,
      <<Sets({"validation.digest", "validation.hierarchy", "validation.tag"})>>),
    TSS_Create,
    TSS_Execute("Sign", Handles(1, 3)),
    TSS_Delete,
    Writes({"signatureFilename", "publicKeyFilename"})>>

\* verifysignature.c
verifysignature_Options ==
  Arguments({"keyHandle", "pemFilename", "raw", "signatureFilename", "ticketFilename"})
  \union MessageOrHash

verifysignature_main ==
  <<Refuse(And(Not(Given("keyHandle")), Not(Given("pemFilename")))),
    Requires({"messageFilename", "signatureFilename"}),
    Try({}),
    When(Given("doHash"), <<Try({}), Sets({"digest"})>>, <<Sets({"digest"})>>),
    Try({}),
    When(Given("raw"), <<Try({"signature"})>>, <<Try({"signature"})>>),
    When(Given("keyHandle"),
      <<Sets({"keyHandle"}),
        TSS_Create,
        TSS_Execute("VerifySignature", Handles(0, 1)),
        TSS_Delete,
        Writes({"ticketFilename"})>>,
      <<>>),
    When(Given("pemFilename"), <<Try({})>>, <<>>)>>

\* certify.c
certify_Options ==
  Arguments(
    {"attestInfoFilename", "objectHandle", "qualifyingDataFilename", "signHandle",
     "signatureFilename"})

certify_main ==
  <<Requires({"objectHandle", "signHandle"}),
    Sets({"inScheme.details", "inScheme.scheme", "objectHandle", "signHandle"}),
    When(Given("qualifyingDataFilename"),
      <<Try({"qualifyingData"})>>,
      <<Sets({"qualifyingData"})>>),
    TSS_Create,
    TSS_Execute("Certify", Handles(2, 2)),
    TSS_Delete,
    Try({}),
    Writes({"signatureFilename", "attestInfoFilename"})>>

\* certifycreation.c
certifycreation_Options ==
  Arguments(
    {"attestInfoFilename", "objectHandle", "qualifyingDataFilename", "signHandle",
     "signatureFilename", "ticketFilename"})

certifycreation_main ==
  <<Requires({"objectHandle", "signHandle", "ticketFilename"}),
    Sets({"inScheme.details", "inScheme.scheme", "objectHandle", "signHandle"}),
    When(Given("qualifyingDataFilename"),
      <<Try({"qualifyingData"})>>,
      <<Sets({"qualifyingData"})>>),
    Try({"creationTicket"}),
    Sets({"creationHash"}),
    TSS_Create,
    TSS_Execute("CertifyCreation", Handles(1, 3)),
    TSS_Delete,
    Try({}),
    Writes({"signatureFilename", "attestInfoFilename"})>>

\* quote.c
quote_Options ==
  Arguments(
    {"attestInfoFilename", "qualifyingDataFilename", "signHandle", "signatureFilename"})

quote_main ==
  <<Requires({"signHandle"}),
    Refuse(Perhaps),
    Sets({"PCRselect", "inScheme.details", "inScheme.scheme", "signHandle"}),
    When(Given("qualifyingDataFilename"),
      <<Try({"qualifyingData"})>>,
      <<Sets({"qualifyingData"})>>),
    TSS_Create,
    TSS_Execute("Quote", Handles(1, 3)),
    TSS_Delete,
    Try({}),
    Writes({"signatureFilename", "attestInfoFilename"})>>

\* gettime.c
gettime_Options ==
  Arguments(
    {"attestInfoFilename", "qualifyingDataFilename", "signHandle", "signatureFilename"})

gettime_main ==
  <<Requires({"signHandle"}),
    Sets({"inScheme.details", "inScheme.scheme", "privacyAdminHandle", "signHandle"}),
    When(Given("qualifyingDataFilename"),
      <<Try({"qualifyingData"})>>,
      <<Sets({"qualifyingData"})>>),
    TSS_Create,
    TSS_Execute("GetTime", Handles(2, 2)),
    TSS_Delete,
    Try({}),
    Writes({"signatureFilename", "attestInfoFilename"})>>

\* getcommandauditdigest.c
getcommandauditdigest_Options ==
  Arguments(
    {"attestInfoFilename", "qualifyingDataFilename", "signHandle", "signatureFilename"})

getcommandauditdigest_main ==
  <<Requires({"signHandle"}),
    Sets({"inScheme.details", "inScheme.scheme", "privacyHandle", "signHandle"}),
    When(Given("qualifyingDataFilename"),
      <<Try({"qualifyingData"})>>,
      <<Sets({"qualifyingData"})>>),
    TSS_Create,
    TSS_Execute("GetCommandAuditDigest", Handles(2, 2)),
    TSS_Delete,
    Try({}),
    Writes({"signatureFilename", "attestInfoFilename"})>>

\* getsessionauditdigest.c
getsessionauditdigest_Options ==
  Arguments(
    {"attestInfoFilename", "qualifyingDataFilename", "sessionDigestFilename", "sessionHandle",
     "signHandle", "signatureFilename"})

getsessionauditdigest_main ==
  <<Requires({"sessionHandle", "signHandle"}),
    Sets(
      {"inScheme.details", "inScheme.scheme", "privacyAdminHandle", "sessionHandle", "signHandle"}),
    When(Given("qualifyingDataFilename"),
      <<Try({"qualifyingData"})>>,
      <<Sets({"qualifyingData"})>>),
    TSS_Create,
    TSS_Execute("GetSessionAuditDigest", Handles(2, 2)),
    TSS_Delete,
    Try({}),
    Writes({"signatureFilename", "attestInfoFilename", "sessionDigestFilename"})>>

\* hash.c
hash_Options ==
  Arguments({"hashFilename", "inFilename", "inString", "ticketFilename"})
  \union OneOf("hierarchyChar", {"n", "e", "o", "p", "other"})

hash_main ==
  <<Refuse(And(Not(Given("inFilename")), Not(Given("inString")))),
    Refuse(And(Given("inFilename"), Given("inString"))),
    Refuse(Not(Among("hierarchyChar", {"e", "n", "o", "p"}))),
    Sets({"hierarchy"}),
    When(Given("inFilename"), <<Try({}), Sets({"data"})>>, <<>>),
    When(Given("inString"), <<Try({}), Sets({"data"})>>, <<>>),
    Sets({"hashAlg"}),
    TSS_Create,
    TSS_Execute("Hash", Handles(0, 1)),
    TSS_Delete,
    Writes({"hashFilename", "ticketFilename"})>>

\* hashsequencestart.c
hashsequencestart_Options == {}

hashsequencestart_main ==
  <<Try({"auth"}),
    Sets({"hashAlg"}),
    TSS_Create,
    TSS_Execute("HashSequenceStart", Handles(0, 4)),
    TSS_Delete>>

\* hmac.c
hmac_Options == Arguments({"hmacFilename", "inFilename", "inString", "keyHandle"})

hmac_main ==
  <<Requires({"keyHandle"}),
    Refuse(And(Not(Given("inFilename")), Not(Given("inString")))),
    Refuse(And(Given("inFilename"), Given("inString"))),
    When(Given("inFilename"), <<Try({}), Sets({"buffer"})>>, <<>>),
    When(Given("inString"), <<Try({}), Sets({"buffer"})>>, <<>>),
    Sets({"handle", "hashAlg"}),
    TSS_Create,
    TSS_Execute("HMAC", Handles(1, 3)),
    TSS_Delete,
    Writes({"hmacFilename"})>>

\* hmacstart.c
hmacstart_Options == Arguments({"keyHandle"})

hmacstart_main ==
  <<Requires({"keyHandle"}),
    Sets({"handle"}),
    Try({"auth"}),
    Sets({"hashAlg"}),
    TSS_Create,
    TSS_Execute("HMAC_Start", Handles(1, 3)),
    TSS_Delete>>

\* sequenceupdate.c
sequenceupdate_Options == Arguments({"inFilename", "sequenceHandle"})

sequenceupdate_main ==
  <<Requires({"sequenceHandle", "inFilename"}),
    Try({}),
    Sets({"buffer", "sequenceHandle"}),
    TSS_Create,
    TSS_Execute("SequenceUpdate", Handles(1, 3)),
    TSS_Delete>>

\* sequencecomplete.c
sequencecomplete_Options ==
  Arguments({"inFilename", "outFilename", "sequenceHandle", "ticketFilename"})
  \union OneOf("hierarchyChar", {"n", "e", "o", "p", "other"})

sequencecomplete_main ==
  <<Refuse(Not(Among("hierarchyChar", {"e", "n", "o", "p"}))),
    Sets({"hierarchy"}),
    Requires({"sequenceHandle"}),
    When(Given("inFilename"), <<Try({})>>, <<>>),
    Try({}),
    Sets({"buffer", "sequenceHandle"}),
    TSS_Create,
    TSS_Execute("SequenceComplete", Handles(1, 3)),
    TSS_Delete,
    Writes({"outFilename", "ticketFilename"})>>

\* eventsequencecomplete.c
eventsequencecomplete_Options ==
  Arguments({"inFilename", "outFilename1", "outFilename2", "outFilename3", "sequenceHandle"})

eventsequencecomplete_main ==
  <<Requires({"sequenceHandle"}),
    When(Given("inFilename"), <<Try({"buffer"})>>, <<Sets({"buffer"})>>),
    Sets({"pcrHandle", "sequenceHandle"}),
    TSS_Create,
    TSS_Execute("EventSequenceComplete", Handles(2, 2)),
    TSS_Delete,
    WritesEach({"outFilename1", "outFilename2", "outFilename3"})>>

\* stirrandom.c
stirrandom_Options == Arguments({"inputFilename"})

stirrandom_main ==
  <<Requires({"inputFilename"}),
    Try({}),
    Sets({"inData"}),
    TSS_Create,
    TSS_Execute("StirRandom", Handles(0, 1)),
    TSS_Delete>>

\* commit.c
commit_Options ==
  Arguments(
    {"Efilename", "Kfilename", "Lfilename", "dataFilename", "s2Filename", "signHandle",
     "y2Filename"})

commit_main ==
  <<Requires({"signHandle"}),
    Sets({"signHandle"}),
    When(Given("dataFilename"), <<Try({"P1"})>>, <<Sets({"P1.x", "P1.y"})>>),
    When(Given("s2Filename"), <<Try({"s2"})>>, <<Sets({"s2"})>>),
    When(Given("y2Filename"), <<Try({"y2"})>>, <<Sets({"y2"})>>),
    TSS_Create,
    TSS_Execute("Commit", Handles(1, 3)),
    TSS_Delete,
    Writes({"Kfilename", "Lfilename", "Efilename"})>>

\* ecephemeral.c
ecephemeral_Options ==
  Arguments({"QFilename"})
  \union OneOf("curveID", {"TPM_ECC_NONE", "other"})

ecephemeral_main ==
  <<Refuse(Is("curveID", "TPM_ECC_NONE")),
    Sets({"curveID"}),
    TSS_Create,
    TSS_Execute("EC_Ephemeral", Handles(0, 1)),
    TSS_Delete,
    Writes({"QFilename"})>>

\* eccparameters.c
eccparameters_Options ==
  Arguments({"datafilename"})
  \union OneOf("curveID", {"TPM_ECC_NONE", "other"})

eccparameters_main ==
  <<Sets({"curveID"}),
    Refuse(Is("curveID", "TPM_ECC_NONE")),
    TSS_Create,
    TSS_Execute("ECC_Parameters", Handles(0, 1)),
    TSS_Delete,
    Writes({"datafilename"})>>

UtilityCryptoPrograms ==
  [sign |-> Utility(sign_Options, sign_main),
   verifysignature |-> Utility(verifysignature_Options, verifysignature_main),
   certify |-> Utility(certify_Options, certify_main),
   certifycreation |-> Utility(certifycreation_Options, certifycreation_main),
   quote |-> Utility(quote_Options, quote_main),
   gettime |-> Utility(gettime_Options, gettime_main),
   getcommandauditdigest |-> Utility(getcommandauditdigest_Options, getcommandauditdigest_main),
   getsessionauditdigest |-> Utility(getsessionauditdigest_Options, getsessionauditdigest_main),
   hash |-> Utility(hash_Options, hash_main),
   hashsequencestart |-> Utility(hashsequencestart_Options, hashsequencestart_main),
   hmac |-> Utility(hmac_Options, hmac_main),
   hmacstart |-> Utility(hmacstart_Options, hmacstart_main),
   sequenceupdate |-> Utility(sequenceupdate_Options, sequenceupdate_main),
   sequencecomplete |-> Utility(sequencecomplete_Options, sequencecomplete_main),
   eventsequencecomplete |-> Utility(eventsequencecomplete_Options, eventsequencecomplete_main),
   stirrandom |-> Utility(stirrandom_Options, stirrandom_main),
   commit |-> Utility(commit_Options, commit_main),
   ecephemeral |-> Utility(ecephemeral_Options, ecephemeral_main),
   eccparameters |-> Utility(eccparameters_Options, eccparameters_main)]

================================================================================
