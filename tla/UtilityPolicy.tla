----------------------------- MODULE UtilityPolicy -----------------------------
(***************************************************************************)
(* The utilities for sessions and policies.  For each the variables its    *)
(* options set, and main() from the end of the option loop on.             *)
(***************************************************************************)
EXTENDS UtilityPrograms, TpmTypes

\* policyauthorize.c
policyauthorize_Options ==
  Arguments(
    {"approvedPolicyFilename", "policyRefFilename", "policySession", "signingKeyNameFilename",
     "ticketFilename"})

policyauthorize_main ==
  <<Requires({"policySession", "approvedPolicyFilename"}),
    When(Not(Given("policyRefFilename")), <<Sets({"policyRef"})>>, <<>>),
    Requires({"signingKeyNameFilename", "ticketFilename"}),
    Sets({"policySession"}),
    Try({"approvedPolicy"}),
    When(Given("policyRefFilename"), <<Try({"policyRef"})>>, <<>>),
    Try({"checkTicket", "keySign"}),
    TSS_Create,
    TSS_Execute("PolicyAuthorize", Handles(0, 4)),
    TSS_Delete>>

\* policyauthorizenv.c
policyauthorizenv_Options ==
  Arguments({"nvIndex", "policySession"})
  \union OneOf("hierarchyChar", {"none", "o", "p", "other"})

policyauthorizenv_main ==
  <<Requires({"nvIndex", "policySession"}),
    Refuse(Not(Among("hierarchyChar", {"none", "o", "p"}))),
    Sets({"authHandle", "nvIndex", "policySession"}),
    TSS_Create,
    TSS_Execute("PolicyAuthorizeNV", Handles(1, 3)),
    TSS_Delete>>

\* policyauthvalue.c
policyauthvalue_Options == Arguments({"policySession"})

policyauthvalue_main ==
  <<Requires({"policySession"}),
    Sets({"policySession"}),
    TSS_Create,
    TSS_Execute("PolicyAuthValue", Handles(0, 1)),
    TSS_Delete>>

\* policycommandcode.c
policycommandcode_Options == Arguments({"commandCode", "policySession"})

policycommandcode_main ==
  <<Requires({"policySession", "commandCode"}),
    Sets({"code", "policySession"}),
    TSS_Create,
    TSS_Execute("PolicyCommandCode", Handles(0, 1)),
    TSS_Delete>>

\* policycountertimer.c
policycountertimer_Options == Arguments({"operandBData", "operandBFilename", "policySession"})

policycountertimer_main ==
  <<Requires({"policySession"}),
    Refuse(And(Not(Given("operandBData")), Not(Given("operandBFilename")))),
    Refuse(And(Given("operandBData"), Given("operandBFilename"))),
    Sets({"offset", "operation", "policySession"}),
    When(Given("operandBData"), <<Anyway({"operandB"})>>, <<>>),
    When(Given("operandBFilename"), <<Anyway({"operandB"})>>, <<>>),
    TSS_Create,
    TSS_Execute("PolicyCounterTimer", Handles(0, 4)),
    TSS_Delete>>

\* policycphash.c
policycphash_Options == Arguments({"cpHashAFilename", "policySession"})

policycphash_main ==
  <<Requires({"policySession", "cpHashAFilename"}),
    Sets({"policySession"}),
    Try({"cpHashA"}),
    TSS_Create,
    TSS_Execute("PolicyCpHash", Handles(0, 1)),
    TSS_Delete>>

\* policygetdigest.c
policygetdigest_Options == Arguments({"digestFilename", "policySession"})

policygetdigest_main ==
  <<Requires({"policySession"}),
    Sets({"policySession"}),
    TSS_Create,
    TSS_Execute("PolicyGetDigest", Handles(0, 1)),
    TSS_Delete,
    Writes({"digestFilename"})>>

\* policynv.c
policynv_Options ==
  Arguments({"nvIndex", "operandBData", "operandBFilename", "policySession"})
  \union OneOf("hierarchyChar", {"none", "o", "p", "other"})

\* A mutant: both -ic and -if may be given.
policynv_main_BothOperands ==
  <<Requires({"nvIndex", "policySession"}),
    Refuse(And(Not(Given("operandBData")), Not(Given("operandBFilename")))),
    Refuse(Not(Among("hierarchyChar", {"none", "o", "p"}))),
    Sets({"authHandle", "nvIndex", "offset", "operation", "policySession"}),
    When(Given("operandBData"), <<Anyway({"operandB"})>>, <<>>),
    When(Given("operandBFilename"), <<Anyway({"operandB"})>>, <<>>),
    TSS_Create,
    TSS_Execute("PolicyNV", Handles(1, 3)),
    TSS_Delete>>

policynv_main ==
  <<Requires({"nvIndex", "policySession"}),
    Refuse(And(Not(Given("operandBData")), Not(Given("operandBFilename")))),
    Refuse(And(Given("operandBData"), Given("operandBFilename"))),
    Refuse(Not(Among("hierarchyChar", {"none", "o", "p"}))),
    Sets({"authHandle", "nvIndex", "offset", "operation", "policySession"}),
    When(Given("operandBData"), <<Anyway({"operandB"})>>, <<>>),
    When(Given("operandBFilename"), <<Anyway({"operandB"})>>, <<>>),
    TSS_Create,
    TSS_Execute("PolicyNV", Handles(1, 3)),
    TSS_Delete>>

\* policynvwritten.c
policynvwritten_Options ==
  Arguments({"policySession"})
  \union OneOf("writtenSetChar", {"none", "n", "y", "other"})

policynvwritten_main ==
  <<Requires({"policySession"}),
    Refuse(Not(Among("writtenSetChar", {"n", "y"}))),
    Sets({"policySession", "writtenSet"}),
    TSS_Create,
    TSS_Execute("PolicyNvWritten", Handles(0, 4)),
    TSS_Delete>>

\* policyor.c
policyor_Options == Arguments({"policySession"})

policyor_main ==
  <<Requires({"policySession"}),
    Refuse(Perhaps),
    Sets({"pHashList", "policySession"}),
    Try({}),
    TSS_Create,
    TSS_Execute("PolicyOR", Handles(0, 4)),
    TSS_Delete>>

\* policypassword.c
policypassword_Options == Arguments({"policySession"})

policypassword_main ==
  <<Requires({"policySession"}),
    Sets({"policySession"}),
    TSS_Create,
    TSS_Execute("PolicyPassword", Handles(0, 1)),
    TSS_Delete>>

\* policypcr.c
policypcr_Options ==
  Arguments({"policySession"})
  \union OneOf("pcrmask", {"0xffffffff", "other"})

policypcr_main ==
  <<Requires({"policySession"}),
    Refuse(Is("pcrmask", "0xffffffff")),
    Sets({"pcrDigest", "pcrs", "policySession"}),
    TSS_Create,
    TSS_Execute("PolicyPCR", Handles(0, 4)),
    TSS_Delete>>

\* policyrestart.c
policyrestart_Options == Arguments({"sessionHandle"})

policyrestart_main ==
  <<Requires({"sessionHandle"}),
    Sets({"sessionHandle"}),
    TSS_Create,
    TSS_Execute("PolicyRestart", Handles(0, 4)),
    TSS_Delete>>

\* policysecret.c
policysecret_Options ==
  Arguments(
    {"authHandle", "cpHashAFilename", "nonceTPMFilename", "policyRefFilename", "policySession",
     "ticketFilename", "timeoutFilename"})

policysecret_main ==
  <<Sets({"cpHashA", "nonceTPM", "policyRef"}),
    Requires({"authHandle", "policySession"}),
    Sets({"authHandle", "policySession"}),
    When(Given("nonceTPMFilename"), <<Try({"nonceTPM"})>>, <<>>),
    When(Given("cpHashAFilename"), <<Try({"cpHashA"})>>, <<>>),
    When(Given("policyRefFilename"), <<Try({"policyRef"})>>, <<>>),
    Sets({"expiration"}),
    TSS_Create,
    TSS_Execute("PolicySecret", Handles(1, 3)),
    TSS_Delete,
    Writes({"ticketFilename", "timeoutFilename"})>>

\* policysigned.c
policysigned_Options ==
  Arguments(
    {"authObject", "cpHashAFilename", "nonceTPMFilename", "policyRefFilename", "policySession",
     "signingKeyFilename", "ticketFilename", "timeoutFilename"})

policysigned_main ==
  <<Sets({"cpHashA", "nonceTPM", "policyRef"}),
    Requires({"authObject", "policySession", "signingKeyFilename"}),
    Sets({"authObject", "policySession"}),
    When(Given("nonceTPMFilename"), <<Try({"nonceTPM"})>>, <<>>),
    When(Given("cpHashAFilename"), <<Try({"cpHashA"})>>, <<>>),
    When(Given("policyRefFilename"), <<Try({"policyRef"})>>, <<>>),
    Sets({"auth.sigAlg", "auth.signature", "expiration"}),
    Try({"auth.signature"}),
    TSS_Create,
    TSS_Execute("PolicySigned", Handles(0, 1)),
    TSS_Delete,
    Writes({"ticketFilename", "timeoutFilename"})>>

\* policytemplate.c
policytemplate_Options == Arguments({"policySession", "templateFilename"})

policytemplate_main ==
  <<Requires({"policySession", "templateFilename"}),
    Sets({"policySession"}),
    Try({"templateHash"}),
    TSS_Create,
    TSS_Execute("PolicyTemplate", Handles(0, 1)),
    TSS_Delete>>

\* policyticket.c
policyticket_Options ==
  Arguments(
    {"authNameFilename", "cpHashAFilename", "policyRefFilename", "policySession",
     "ticketFilename", "timeoutFilename"})
  \union OneOf("hierarchyChar", {"none", "e", "o", "p", "other"})

policyticket_main ==
  <<Sets({"cpHashA", "policyRef"}),
    Requires({"policySession", "timeoutFilename", "ticketFilename"}),
    Refuse(And(Not(Given("authNameFilename")), Not(Given("hierarchyChar")))),
    Refuse(And(Given("authNameFilename"), Given("hierarchyChar"))),
    Sets({"policySession"}),
    Try({"timeout"}),
    When(Given("cpHashAFilename"), <<Try({"cpHashA"})>>, <<>>),
    When(Given("policyRefFilename"), <<Try({"policyRef"})>>, <<>>),
    When(Given("authNameFilename"), <<Try({"authName"})>>, <<>>),
    When(Given("hierarchyChar"),
      <<Refuse(Not(Among("hierarchyChar", {"e", "o", "p"}))), Try({"authName"})>>,
      <<>>),
    Try({"ticket"}),
    TSS_Create,
    TSS_Execute("PolicyTicket", Handles(0, 4)),
    TSS_Delete>>

\* startauthsession.c
startauthsession_Options ==
  Arguments({"nonceTPMFilename"})
  \union OneOf("seChar", {"none", "h", "p", "t", "other"})
  \union OneOf("symmetric.algorithm", {"TPM_ALG_XOR", "TPM_ALG_AES"})

startauthsession_main ==
  <<Refuse(Not(Among("seChar", {"h", "p", "t"}))),
    Sets(
      {"authHash", "bind", "encryptedSalt", "nonceCaller", "sessionType", "symmetric.algorithm",
       "tpmKey"}),
    When(Is("symmetric.algorithm", "TPM_ALG_XOR"),
      <<Sets({"symmetric.keyBits"}), Sets({"symmetric.mode"})>>,
      <<Sets({"symmetric.keyBits", "symmetric.mode"})>>),
    TSS_Create,
    TSS_Execute("StartAuthSession", Handles(0, 1)),
    TSS_Delete,
    Writes({"nonceTPMFilename"})>>

UtilityPolicyPrograms ==
  [policyauthorize |-> Utility(policyauthorize_Options, policyauthorize_main),
   policyauthorizenv |-> Utility(policyauthorizenv_Options, policyauthorizenv_main),
   policyauthvalue |-> Utility(policyauthvalue_Options, policyauthvalue_main),
   policycommandcode |-> Utility(policycommandcode_Options, policycommandcode_main),
   policycountertimer |-> Utility(policycountertimer_Options, policycountertimer_main),
   policycphash |-> Utility(policycphash_Options, policycphash_main),
   policygetdigest |-> Utility(policygetdigest_Options, policygetdigest_main),
   policynv |-> Utility(policynv_Options, policynv_main),
   policynvwritten |-> Utility(policynvwritten_Options, policynvwritten_main),
   policyor |-> Utility(policyor_Options, policyor_main),
   policypassword |-> Utility(policypassword_Options, policypassword_main),
   policypcr |-> Utility(policypcr_Options, policypcr_main),
   policyrestart |-> Utility(policyrestart_Options, policyrestart_main),
   policysecret |-> Utility(policysecret_Options, policysecret_main),
   policysigned |-> Utility(policysigned_Options, policysigned_main),
   policytemplate |-> Utility(policytemplate_Options, policytemplate_main),
   policyticket |-> Utility(policyticket_Options, policyticket_main),
   startauthsession |-> Utility(startauthsession_Options, startauthsession_main)]

================================================================================
