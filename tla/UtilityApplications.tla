-------------------------- MODULE UtilityApplications --------------------------
(***************************************************************************)
(* The programs of more than one command: the two demonstrations signapp   *)
(* and writeapp, createek with ekutils.c, which both build on, the replay  *)
(* of event logs into the PCRs, startup, powerup and timepacket.           *)
(***************************************************************************)
EXTENDS UtilityPrograms, TpmTypes

Constant == [name \in {} |-> 0]

NoSession == Handles(0, 1)

Password == Handles(1, 1)

-----------------------------------------------------------------------------
(* ekutils.c                                                               *)

readNvBufferMax ==
  Calls("GetCapability", NoSession, {}, {"capability", "property", "propertyCount"}, Constant)

readChunk == Calls("NV_Read", Password, {}, {"authHandle", "nvIndex", "offset", "size"}, Constant)

getIndexData == <<readNvBufferMax, Try({}), readChunk, Repeat(<<readChunk>>)>>

getIndexSize == Calls("NV_ReadPublic", NoSession, {}, {"nvIndex"}, Constant)

getIndexContents == <<getIndexSize>> \o getIndexData

\* A handle error is taken for an EK nonce that does not exist.  When it comes from NV_Read the
\* buffer is allocated: the nonce counts as found.
processEKNonce(found, missing) ==
  <<Probe(getIndexSize, "perhaps",
      <<readNvBufferMax, Try({}), Repeat(<<readChunk>>), Probe(readChunk, "perhaps", <<>>, <<>>)>> \o found,
      missing)>>

processEKTemplate == getIndexContents \o <<Try({})>>

processEKCertificate == getIndexContents \o <<Try({}), Try({})>>

\* The handle is copied out of the output structure if TSS_Execute returns 0.
CreatePrimary(publicArea, selects) ==
  <<Makes("ekKeyHandle", "success",
      Calls("CreatePrimary", Password, {},
        {"primaryHandle", "inSensitive.userAuth", "inSensitive.data", "outsideInfo", "creationPCR"}
        \union publicArea, selects))>>

\* The templates of the IWG: AES and no scheme.
IwgTemplate(names, selects) ==
  CreatePrimary(
    {"inPublic." \o name : name \in
       {"nameAlg", "objectAttributes", "authPolicy", "parameters.symmetric.keyBits",
        "parameters.symmetric.mode", "parameters.scheme.details", "unique"} \union names},
    "inPublic.parameters.symmetric.algorithm" :> TPM_ALG.AES
    @@ "inPublic.parameters.scheme.scheme" :> TPM_ALG.NULL @@ selects)

getRsaTemplate ==
  IwgTemplate({"parameters.keyBits", "parameters.exponent"}, "inPublic.type" :> TPM_ALG.RSA)

getEccTemplate ==
  IwgTemplate({"parameters.curveID", "parameters.kdf.details"},
    "inPublic.type" :> TPM_ALG.ECC @@ "inPublic.parameters.kdf.scheme" :> TPM_ALG.NULL)

\* The key is made from the template and the nonce in NV, or from the default template; then
\* its public key is compared to that of the certificate.
processPrimary(default, flushOrKeep) ==
  processEKNonce(processEKTemplate \o CreatePrimary({"inPublic"}, Constant), default)
  \o flushOrKeep \o processEKCertificate \o <<Try({})>>

processRoot == getIndexContents \o <<Try({}), Try({})>>

createek_Options ==
  Arguments({"listFilename", "noFlush"}) \union OneOf("algType", {"none", "rsa", "ec"})
  \union Counted("inputType", "inputCount", "none",
           {"EKTemplateType", "EKNonceType", "EKCertType", "CreateprimaryType"})

flushPrimary ==
  <<Keeps("ekKeyHandle"),
    Removes({"ekKeyHandle"}, Calls("FlushContext", NoSession, {}, {"flushHandle"}, Constant))>>

createek_main ==
  <<Refuse(Is("inputCount", "again")),
    Refuse(And(Is("inputCount", "none"), Not(Given("listFilename")))),
    Requires({"algType"}),
    TSS_Create,
    Switch("inputType", <<
      <<{"EKTemplateType"}, processEKTemplate>>,
      <<{"EKNonceType"}, getIndexContents>>,
      <<{"EKCertType"}, processEKCertificate>>,
      <<{"CreateprimaryType"},
        processPrimary(
          <<When(Is("algType", "rsa"), getRsaTemplate, getEccTemplate)>>,
          <<When(Given("noFlush"), <<>>, flushPrimary)>>)>>>>, <<>>),
    When(Given("listFilename"), <<Try({})>> \o processRoot, <<>>),
    TSS_Delete>>

-----------------------------------------------------------------------------
(* What signapp.c and writeapp.c have in common                            *)

\* processPrimary() of an RSA key that is not flushed.
PrimaryForSalt == processPrimary(getRsaTemplate, <<Keeps("ekKeyHandle")>>)

\* The handle is copied out of the output structure whatever TSS_Execute returns.
startSession(handle, uses) ==
  <<Makes(handle, "perhaps",
      Calls("StartAuthSession", NoSession, uses,
        {"tpmKey", "bind", "sessionType", "authHash", "symmetric.keyBits", "symmetric.mode"},
        "symmetric.algorithm" :> TPM_ALG.AES)),
    Keeps(handle)>>

\* Whatever rc is, and whether or not the handle was ever assigned; no caller looks at the result.
flush(handle) == Finally("FlushContext", NoSession, {"flushHandle"}, handle)

Session == <<"sessionHandle", "TPM_RH_NULL">>

IfSession(statements) == <<When(Given("pwSession"), <<>>, statements)>>

\* A call with the session in sessionHandle, which with -pwsess is TPM_RS_PW: one of two calls.
Authorized(call) == <<When(Given("pwSession"), <<call[Password]>>, <<call[Session]>>)>>

-----------------------------------------------------------------------------
(* signapp.c                                                               *)

OfPolicySession(command, names) ==
  <<Calls(command, NoSession, {"policySessionHandle"}, names, Constant)>>

WithPolicySession(command, uses, fields, selects) ==
  <<Calls(command, <<"policySessionHandle", "TPM_RH_NULL">>, uses, fields, selects)>>

policySecret ==
  <<Calls("PolicySecret", Password, {"policySessionHandle"},
      {"authHandle", "policySession", "nonceTPM", "cpHashA", "policyRef", "expiration"}, Constant)>>

policyRestart == OfPolicySession("PolicyRestart", {"sessionHandle"})

createKey ==
  <<Try({})>>
  \o WithPolicySession("Create", {"ekKeyHandle"},
       {"parentHandle", "inSensitive.userAuth", "inSensitive.data", "inPublic.authPolicy",
        "inPublic.nameAlg", "inPublic.objectAttributes", "inPublic.parameters.keyBits",
        "inPublic.parameters.exponent", "inPublic.unique", "outsideInfo", "creationPCR"},
       "inPublic.type" :> TPM_ALG.RSA @@ "inPublic.parameters.symmetric.algorithm" :> TPM_ALG.NULL
       @@ "inPublic.parameters.scheme.scheme" :> TPM_ALG.NULL)

loadKey ==
  <<Makes("keyHandle", "success",
      Calls("Load", <<"policySessionHandle", "TPM_RH_NULL">>, {"ekKeyHandle"},
        {"parentHandle", "inPrivate", "inPublic"}, Constant)),
    Keeps("keyHandle")>>

sign_Fields ==
  {"keyHandle", "digest", "inScheme.details", "validation.tag", "validation.hierarchy",
   "validation.digest"}

sign_Scheme == "inScheme.scheme" :> TPM_ALG.RSASSA

verify ==
  <<Calls("VerifySignature", NoSession, {"keyHandle"}, {"keyHandle", "digest", "signature"}, Constant)>>

signapp_Options == Arguments({"messageString", "pwSession"})

signapp_main ==
  <<Requires({"messageString"}), Try({}), TSS_Create>>
  \o PrimaryForSalt
  \o startSession("policySessionHandle", {})
  \o policySecret \o OfPolicySession("PolicyGetDigest", {"policySession"})
  \o createKey
  \o policyRestart \o policySecret
  \o loadKey
  \o IfSession(startSession("sessionHandle", {"ekKeyHandle", "keyHandle"}))
  \o Authorized([handles \in {Password, Session} |->
                  Calls("Sign", handles, {"keyHandle"}, sign_Fields, sign_Scheme)])
  \o verify
  \o policyRestart
  \o OfPolicySession("PolicyCommandCode", {"policySession", "code"})
  \o <<When(Given("pwSession"),
         OfPolicySession("PolicyPassword", {"policySession"}),
         OfPolicySession("PolicyAuthValue", {"policySession"}))>>
  \o OfPolicySession("PolicyGetDigest", {"policySession"})
  \o WithPolicySession("Sign", {"keyHandle"}, sign_Fields, sign_Scheme)
  \o verify
  \o <<flush("policySessionHandle")>>
  \o IfSession(<<flush("sessionHandle")>>)
  \o <<flush("ekKeyHandle"), flush("keyHandle"), TSS_Delete>>

-----------------------------------------------------------------------------
(* writeapp.c                                                              *)

\* Any failure to read the public area is taken for an index that does not exist.
nvReadPublic(otherwise) == <<Probe(getIndexSize, "always", <<>>, otherwise)>>

\* The index is named by a constant.
defineSpace ==
  <<Try({})>>
  \o Authorized([handles \in {Password, Session} |->
       Makes("NVINDEX", "always",
         Calls("NV_DefineSpace", handles, {},
           {"auth", "authHandle", "publicInfo.authPolicy", "publicInfo.nvIndex",
            "publicInfo.nameAlg", "publicInfo.attributes", "publicInfo.dataSize"}, Constant))])
  \o <<Keeps("NVINDEX")>>

\* continueSession is not set: the TPM flushes the session when the command succeeds.
nvWrite ==
  Authorized([handles \in {Password, Session} |->
    Removes({"sessionHandle"} \intersect Range(handles),
      Calls("NV_Write", handles, {}, {"authHandle", "nvIndex", "data", "offset"}, Constant))])

undefineSpace ==
  Finally("NV_UndefineSpace", Password, {"authHandle", "nvIndex"}, "NVINDEX")

writeapp_Options == Arguments({"pwSession"})

\* A mutant: the second write goes on with the session of the first.
writeapp_main_OneSession ==
  <<TSS_Create>> \o PrimaryForSalt
  \o IfSession(startSession("sessionHandle", {"ekKeyHandle"}))
  \o nvReadPublic(defineSpace)
  \o IfSession(<<flush("sessionHandle")>>)
  \o IfSession(startSession("sessionHandle", {"ekKeyHandle"}))
  \o nvWrite \o nvWrite
  \o <<undefineSpace>>
  \o IfSession(<<flush("sessionHandle")>>)
  \o <<flush("ekKeyHandle"), TSS_Delete>>

writeapp_main ==
  <<TSS_Create>> \o PrimaryForSalt
  \o IfSession(startSession("sessionHandle", {"ekKeyHandle"}))
  \o nvReadPublic(defineSpace)
  \o IfSession(<<flush("sessionHandle")>>)
  \o IfSession(startSession("sessionHandle", {"ekKeyHandle"}))
  \o nvWrite
  \o IfSession(startSession("sessionHandle", {"ekKeyHandle"}))
  \o nvWrite
  \o <<undefineSpace>>
  \o IfSession(<<flush("sessionHandle")>>)
  \o <<flush("ekKeyHandle"), TSS_Delete>>

-----------------------------------------------------------------------------
(* The event logs.  A file that cannot be opened ends the program at once. *)

pcrread == <<Calls("PCR_Read", NoSession, {}, {"pcrSelectionIn"}, Constant)>>

IfVerbose(statements) == <<When(Given("verbose"), statements, <<>>)>>

Log_Options == Arguments({"infilename", "verbose"})

\* imaextend.c: the end of the file is found when the next event is read.
imaextend_main ==
  <<Requires({"infilename"}), Refuse(Perhaps), TSS_Create, Sets({"digests"})>>
  \o IfVerbose(pcrread)
  \o <<Repeat(
         <<Try({}), Sets({"pcrHandle"}),
           When(Perhaps, <<TSS_Execute("PCR_Extend", Password)>> \o IfVerbose(pcrread), <<>>)>>),
       TSS_Delete>>

\* eventextend.c: the first event is of TPM 1.2; events of type EV_NO_ACTION are passed by.
eventextend_main ==
  <<Requires({"infilename"}), Refuse(Perhaps), Try({})>>
  \o IfVerbose(<<When(Perhaps, <<Try({})>>, <<>>)>>)
  \o <<TSS_Create,
       Repeat(
         <<Try({}),
           When(Perhaps,
             <<Sets({"pcrHandle", "digests"}), TSS_Execute("PCR_Extend", Password)>>
             \o IfVerbose(pcrread),
             <<>>)>>),
       TSS_Delete>>

-----------------------------------------------------------------------------
(* startup.c, powerup.c and timepacket.c                                   *)

\* Without -sto the startup is done.
startup_Options ==
  {{"doStartup" :> "some" @@ "doSelftest" :> x : x \in {"none", "some"}}
   \union {"doStartup" :> "none" @@ "doSelftest" :> "some"}}

InContext(command, names) ==
  <<TSS_Create, Sets(names), TSS_Execute(command, NoSession), TSS_Delete>>

startup_main ==
  <<Guarded(<<When(Given("doStartup"), InContext("Startup", {"startupType"}), <<>>)>>),
    Guarded(<<When(Given("doSelftest"), InContext("SelfTest", {"fullTest"}), <<>>)>>)>>

powerup_main == <<TSS_Create, TSS_Transmit, TSS_Transmit, TSS_Transmit, TSS_Delete>>

timepacket_Options == Arguments({"commandFilename"})

timepacket_main ==
  <<Requires({"commandFilename"}), Try({}), Try({}), TSS_Create, Repeat(<<TSS_Transmit>>), TSS_Delete>>

UtilityApplicationsPrograms ==
  [createek |-> Utility(createek_Options, createek_main),
   eventextend |-> Utility(Log_Options, eventextend_main),
   imaextend |-> Utility(Log_Options, imaextend_main),
   powerup |-> Utility({}, powerup_main),
   signapp |-> Utility(signapp_Options, signapp_main),
   startup |-> Utility(startup_Options, startup_main),
   timepacket |-> Utility(timepacket_Options, timepacket_main),
   writeapp |-> Utility(writeapp_Options, writeapp_main)]

=================================================================================
