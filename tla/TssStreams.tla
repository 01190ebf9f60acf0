----------------------------- MODULE TssStreams -----------------------------
(***************************************************************************)
(* A command from the structure the application fills in to the structure  *)
(* it gets back: tssauth.c, and the part of TSS_Execute_valist (tss.c)     *)
(* that encrypts parameters and orders the steps.                          *)
(*                                                                         *)
(* The TSS marshals the command and unmarshals it again to check the       *)
(* ranges (TSS_Marshal), encrypts the first parameter, covers the          *)
(* parameters with the HMACs of the sessions, moves them to insert the     *)
(* authorizations, and sends the stream.  The TPM is external: it reads    *)
(* the stream as the library specification says and writes a response,     *)
(* which may be malformed.  The TSS reads the authorizations of the        *)
(* response, verifies their HMACs, decrypts the first parameter and        *)
(* unmarshals the response.                                                *)
(*                                                                         *)
(* The second half is a structure that a utility writes to a file and      *)
(* another one reads.                                                      *)
(***************************************************************************)
EXTENDS MarshalTable, CommandResponses

CONSTANTS
  Marshal(_, _, _),    \* what a marshaling function of a format makes of a value, with a selector
  Unmarshal(_, _, _),  \* what an unmarshaling function of a format makes of a stream
  \* the calls of TSS_Execute that are tried, a sequence of records: the
  \* command, whether there is an input and an output structure (hasIn, hasOut), the
  \* values of both (in, and out as the TPM has it), whether they are within their
  \* limits (inGood, outGood), the sessions and the faults of the response
  Calls,
  \* the structures that are written to a file, with the two functions that do it
  Files

\* A session: its kind, the algorithm of the parameter encryption, and whether it is a decrypt
\* or an encrypt session.
SessionRecord == [kind : {"pw", "hmac"}, algorithm : Algorithms, decrypt : BOOLEAN, encrypt : BOOLEAN]

ASSUME CallsAssumption ==
  \A i \in DOMAIN Calls :
    /\ Calls[i].command \in DOMAIN TPM_CC
    /\ Calls[i].sessions \in Seq(SessionRecord)
    /\ Calls[i].hasIn \in BOOLEAN /\ Calls[i].hasOut \in BOOLEAN /\ Calls[i].outGood \in BOOLEAN

MAX_COMMAND_SIZE == 4096

MAX_SESSION_NUM == 3

VARIABLES
  call,           \* the call, of Calls, or the structure, of Files
  pc,             \* the step of TSS_Execute that has completed
  refusedBy,      \* the step that failed, or "none"
  commandBuffer,  \* the stream of the command
  cpBuffer,       \* the offset of its parameters
  authCount,      \* the authorizations TSS_SetCmdAuths added
  hmacs,          \* what the HMACs of the command cover: the sequence of the parameters
  received,       \* the command as the TPM took it, one record at most: ok if it answers properly
  responseBuffer, \* the stream of the response
  given,          \* what TSS_Unmarshal gave the application, one record at most
  file            \* the file of a structure

vars == <<call, pc, refusedBy, commandBuffer, cpBuffer, authCount, hmacs, received, responseBuffer, given,
          file>>
commandVars == <<commandBuffer, cpBuffer, authCount, hmacs>>

NoCall == [command |-> "none"]

TSS_MarshalTable_Process[command \in DOMAIN TPM_CC] == marshalTable[command]

-----------------------------------------------------------------------------
(* The sessions of a call                                                  *)

Indices(sessions, attribute(_)) == {i \in DOMAIN sessions : attribute(sessions[i])}

IsDecrypt(s) == s.decrypt
IsEncrypt(s) == s.encrypt

\* The loops of TSS_Sessions_GetDecryptSession and GetEncryptSession end at the first
\* password session.
BeforePassword(sessions) ==
  {i \in DOMAIN sessions : \A j \in 1 .. i : sessions[j].kind # "pw"}

\* The sessions whose parameter encryption the TSS finds and does as the TPM does: HMAC sessions
\* before any password session, with an algorithm whose key has the bits the TSS uses, or none.
InOrder(sessions) ==
  \A j \in DOMAIN sessions :
    LET s == sessions[j]
    IN  s.decrypt \/ s.encrypt =>
          s.kind = "hmac" /\ j \in BeforePassword(sessions) /\ s.algorithm # "aes256"

\* A mutant: only the first session is looked at.
GetDecryptSession_OnlyFirst(sessions) == Indices(sessions, IsDecrypt) \intersect {1}

GetDecryptSession(sessions) == Indices(sessions, IsDecrypt) \intersect BeforePassword(sessions)
GetEncryptSession(sessions) == Indices(sessions, IsEncrypt) \intersect BeforePassword(sessions)

\* Session i encrypts a parameter in one direction with a key of its own.
Key(i, direction, algorithm) == <<<<i, direction, algorithm>>>>

\* TSS_Command_DecryptAes and TSS_Response_EncryptAes derive a key of the session's size
\* but always use 128 bits of it.
TssAlgorithm(session) == IF session.algorithm = "aes256" THEN "aes128" ELSE session.algorithm

\* The switch over the algorithms: a session of TPM_ALG_NULL cannot encrypt.
Implemented(session) == session.algorithm # "none"

\* n bytes from an offset encrypted with a key: a second time with the same key gives
\* the bytes back.
Toggle(chunk, key) ==
  [at |-> chunk.at, n |-> chunk.n, v |-> chunk.v,
   key |-> IF chunk.key = key THEN Clear ELSE key \o chunk.key]

Toggled(stream, key) ==
  [size |-> stream.size, chunks |-> {Toggle(c, key) : c \in stream.chunks}]

Encipher(stream, offset, n, key) ==
  LET bytes == Prefix(Skip(stream, offset), n)
  IN  Prefix(stream, offset) ++ Toggled(bytes, key) ++ Skip(stream, offset + n)

\* The two bytes at an offset, as a number.
SizeAt(stream, offset) == Read(Skip(stream, offset), 2).value

-----------------------------------------------------------------------------
(* The authorization areas                                                 *)

TPMA_SESSION_DECRYPT == 32
TPMA_SESSION_ENCRYPT == 64

TPMA_SESSION(s) ==
  1 + (IF s.decrypt THEN TPMA_SESSION_DECRYPT ELSE 0) + (IF s.encrypt THEN TPMA_SESSION_ENCRYPT ELSE 0)

\* TSS_PwapSession_Set, or the fields of an HMAC session.
AuthCommand(i, s) ==
  IF s.kind = "pw"
    THEN [sessionHandle |-> TPM_RS_PW, nonce |-> [size |-> 0, buffer |-> 0], sessionAttributes |-> 0,
          hmac |-> [size |-> 1, buffer |-> 7]]
    ELSE [sessionHandle |-> HMAC_SESSION_FIRST + i, nonce |-> [size |-> 20, buffer |-> 7],
          sessionAttributes |-> TPMA_SESSION(s), hmac |-> [size |-> 20, buffer |-> 7]]

\* One structure after the other.
InSequence(format, values) ==
  LET area[i \in 0..Len(values)] ==
        IF i = 0 THEN Empty ELSE area[i - 1] ++ Marshal(format, values[i], 0).stream
  IN  area[Len(values)]

AuthCommands(sessions) == [i \in DOMAIN sessions |-> AuthCommand(i, sessions[i])]

AuthArea(sessions) == InSequence(TSS_TPMS_AUTH_COMMAND_Marshal, AuthCommands(sessions))

-----------------------------------------------------------------------------
(* The steps of TSS_Execute                                                *)

Init ==
  /\ call = NoCall /\ pc = "idle" /\ refusedBy = "none"
  /\ commandBuffer = Empty /\ cpBuffer = 0 /\ authCount = 0 /\ hmacs = Empty
  /\ received = <<>> /\ responseBuffer = Empty /\ given = <<>> /\ file = Empty

Refuse(step) == pc' = "done" /\ refusedBy' = step

Done == pc' = "done" /\ UNCHANGED refusedBy

Completed(step) == pc' = step /\ UNCHANGED refusedBy

HeaderSize == 10

Header(tag, size, code) == Chunk(2, tag) ++ Chunk(4, size) ++ Chunk(4, code)

\* the command size is filled in when it is known
SetSize(stream, tag) == Chunk(2, tag) ++ Chunk(4, stream.size) ++ Skip(stream, 6)

MarshalIn(c, entry) ==
  IF (entry.marshalIn # NULL) # c.hasIn THEN Refused
  ELSE IF c.hasIn THEN Marshal(entry.marshalIn, c.in, 0)
  ELSE Stream(Empty)

\* The buffer behind the command is zero.
InRange(c, entry, stream) ==
  entry.unmarshalIn # NULL =>
    Unmarshal(entry.unmarshalIn.parameters,
              Skip(stream, 4 * getCommandHandleCount(c.command)) ++ Chunk(MAX_COMMAND_SIZE, 0), 0).ok

Command_In(c, parameters) == Header(TPM_ST.NO_SESSIONS, 0, TPM_CC[c.command]) ++ parameters.stream

IsMarshaled(c, entry, parameters) ==
  /\ parameters.ok
  /\ Command_In(c, parameters).size <= MAX_COMMAND_SIZE
  /\ InRange(c, entry, parameters.stream)

Marshaled(c, entry) ==
  LET parameters == MarshalIn(c, entry)
      stream == Command_In(c, parameters)
  IN  /\ call' = c
      /\ IF IsMarshaled(c, entry, parameters)
           THEN /\ Completed("marshaled")
                /\ commandBuffer' = SetSize(stream, TPM_ST.NO_SESSIONS)
                /\ cpBuffer' = HeaderSize + 4 * getCommandHandleCount(c.command)
           ELSE /\ Refuse("TSS_Marshal")
                /\ UNCHANGED <<commandBuffer, cpBuffer>>
      /\ UNCHANGED <<authCount, hmacs, received, responseBuffer, given, file>>

TSS_Marshal(c) == pc = "idle" /\ Marshaled(c, TSS_MarshalTable_Process[c.command])

\* Step 5 of TSS_Execute_valist: the first parameter is encrypted in place.
TSS_Command_Decrypt ==
  LET sessions == GetDecryptSession(call.sessions)
      paramSize == SizeAt(commandBuffer, cpBuffer)
      session == CHOOSE i \in sessions : TRUE
  IN  /\ pc = "marshaled"
      /\ IF \/ Cardinality(sessions) > 1
            \/ sessions # {} /\ getDecryptSize(call.command) # 2
            \/ sessions # {} /\ paramSize # 0 /\ ~Implemented(call.sessions[session])
           THEN Refuse("TSS_Command_Decrypt") /\ UNCHANGED commandBuffer
           ELSE /\ Completed("decrypt")
                /\ commandBuffer' =
                     IF sessions = {} \/ paramSize = 0 THEN commandBuffer
                     ELSE Encipher(commandBuffer, cpBuffer + 2, paramSize,
                                   Key(session, "command", TssAlgorithm(call.sessions[session])))
      /\ UNCHANGED <<call, cpBuffer, authCount, hmacs, received, responseBuffer, given, file>>

\* Step 6: cpHash covers the parameters as they are sent.
TSS_HmacSession_SetHMAC ==
  /\ pc = "decrypt"
  /\ Completed("hmac")
  /\ hmacs' = Skip(commandBuffer, cpBuffer)
  /\ UNCHANGED <<call, commandBuffer, cpBuffer, authCount, received, responseBuffer, given, file>>

\* A mutant: the size of the command is still that of the command without sessions.
TSS_SetCmdAuths_OldSize ==
  LET auths == AuthArea(call.sessions)
      stream == Prefix(commandBuffer, cpBuffer) ++ Chunk(4, auths.size) ++ auths
                  ++ Skip(commandBuffer, cpBuffer)
  IN  /\ pc = "hmac"
      /\ Completed("send")
      /\ IF auths.size = 0 THEN UNCHANGED <<commandBuffer, cpBuffer, authCount>>
         ELSE /\ commandBuffer' = Chunk(2, TPM_ST.SESSIONS) ++ Skip(stream, 2)
              /\ cpBuffer' = cpBuffer + 4 + auths.size
              /\ authCount' = Len(call.sessions)
      /\ UNCHANGED <<call, hmacs, received, responseBuffer, given, file>>

\* Step 7: the parameters move to make room for the authorizations.
TSS_SetCmdAuths ==
  LET auths == AuthArea(call.sessions)
      authorizationSize == auths.size
      stream == Prefix(commandBuffer, cpBuffer) ++ Chunk(4, authorizationSize) ++ auths
                  ++ Skip(commandBuffer, cpBuffer)
  IN  /\ pc = "hmac"
      /\ IF authorizationSize = 0
           THEN Completed("send") /\ UNCHANGED <<commandBuffer, cpBuffer, authCount>>
         ELSE IF stream.size > MAX_COMMAND_SIZE
           THEN Refuse("TSS_SetCmdAuths") /\ UNCHANGED <<commandBuffer, cpBuffer, authCount>>
         ELSE /\ Completed("send")
              /\ commandBuffer' = SetSize(stream, TPM_ST.SESSIONS)
              /\ cpBuffer' = cpBuffer + 4 + authorizationSize
              /\ authCount' = Len(call.sessions)
      /\ UNCHANGED <<call, hmacs, received, responseBuffer, given, file>>

-----------------------------------------------------------------------------
(* The TPM reads the command and writes a response (external).             *)

Field(fields, i) == fields[i][2]

\* The first of the parameters is a size and bytes.
FirstIsTpm2b(fields) == fields # <<>> /\ Field(fields, 1).kind \in {"buffer", "sized", "optional"}

TpmFormat(entry) == IF entry.unmarshalIn = NULL THEN Command(<<>>, <<>>) ELSE entry.unmarshalIn

TpmCommand(command) == TpmFormat(TSS_MarshalTable_Process[command])

TpmAuthCommand ==
  Struct(<<<<"sessionHandle", Number(4)>>, <<"nonce", Buffer(64)>>, <<"sessionAttributes", Number(1)>>,
           <<"hmac", Buffer(64)>>>>)

TpmAuthResponse ==
  Struct(<<<<"nonce", Buffer(64)>>, <<"sessionAttributes", Number(1)>>, <<"hmac", Buffer(64)>>>>)

TpmAuths(area) ==
  LET auth[i \in 1..MAX_SESSION_NUM] ==
        IF i = 1 THEN Unmarshal(TpmAuthCommand, area, 0)
        ELSE IF auth[i - 1].ok THEN Unmarshal(TpmAuthCommand, auth[i - 1].rest, 0)
        ELSE NoValue
  IN  [i \in {i \in 1..MAX_SESSION_NUM : auth[i].ok} |-> auth[i].value]

WithAttribute(auths, attribute) ==
  {i \in DOMAIN auths : (auths[i].sessionAttributes \div attribute) % 2 = 1}

TpmSession(c, auths, i) == c.sessions[auths[i].sessionHandle - HMAC_SESSION_FIRST]

TpmKey(c, auths, i, direction) ==
  LET n == auths[i].sessionHandle - HMAC_SESSION_FIRST
  IN  Key(n, direction, c.sessions[n].algorithm)

\* The authorization area with its size, from an offset.
TpmAuthArea(stream, offset) ==
  IF Read(stream, 2).value = TPM_ST.SESSIONS
    THEN Prefix(Skip(stream, offset), 4 + Read(Skip(stream, offset), 4).value)
    ELSE Empty

\* The parameters, in the clear.
TpmParameters(c, stream, auths) ==
  LET decrypt == WithAttribute(auths, TPMA_SESSION_DECRYPT)
  IN  IF decrypt = {} THEN stream
      ELSE Encipher(stream, 2, SizeAt(stream, 0), TpmKey(c, auths, CHOOSE i \in decrypt : TRUE, "command"))

\* Whether the TPM executes the command.
TpmAccepts(c, stream, auths, covered, format, parameters) ==
  LET decrypt == WithAttribute(auths, TPMA_SESSION_DECRYPT)
      encrypt == WithAttribute(auths, TPMA_SESSION_ENCRYPT)
  IN  /\ Read(Skip(stream, 2), 4).value = stream.size
      /\ Read(Skip(stream, 6), 4).value = TPM_CC[c.command]
      /\ Len(auths) = Len(c.sessions)
      /\ Cardinality(decrypt) <= 1 /\ Cardinality(encrypt) <= 1
      /\ \A i \in decrypt \union encrypt : Implemented(TpmSession(c, auths, i))
      /\ decrypt # {} => FirstIsTpm2b(format.parameters.fields)
      /\ encrypt # {} => FirstIsTpm2b(TpmResponse[c.command].parameters.fields)
      /\ (\E i \in DOMAIN auths : auths[i].sessionHandle # TPM_RS_PW) => hmacs = covered
      /\ parameters.ok /\ parameters.rest = Empty

TpmTakes(c, stream, auths, covered, format, parameters) ==
  [ok |-> TpmAccepts(c, stream, auths, covered, format, parameters),
   handles |-> [i \in DOMAIN format.handles |-> Read(Skip(stream, HeaderSize + 4 * (i - 1)), 4).value],
   parameters |-> parameters.value,
   auths |-> auths]

TpmReadsParameters(c, stream, auths, covered, format) ==
  TpmTakes(c, stream, auths, covered, format,
           Unmarshal(format.parameters, TpmParameters(c, covered, auths), 0))

TpmSections(c, stream, offset, area, format) ==
  TpmReadsParameters(c, stream, TpmAuths(Skip(area, 4)), Skip(stream, offset + area.size), format)

TpmReadsFormat(c, stream, format) ==
  LET offset == HeaderSize + 4 * Len(format.handles)
  IN  TpmSections(c, stream, offset, TpmAuthArea(stream, offset), format)

\* The command as the TPM takes it.
TpmReads(c, stream) == TpmReadsFormat(c, stream, TpmCommand(c.command))

AuthResponses(auths) ==
  [i \in DOMAIN auths |-> [auths[i] EXCEPT !.sessionAttributes = (@ - (@ % 2)) + 1]]

TpmAnswersAuths(auths) == InSequence(TpmAuthResponse, AuthResponses(auths))

\* What a malformed response has wrong.
Altered(fault, auths) ==
  CASE fault = "missing" -> Front(auths)
    [] fault = "surplus" -> Append(auths, auths[1])
    [] OTHER -> auths

TpmAnswersParameters(c, auths, clear) ==
  LET encrypt == WithAttribute(auths, TPMA_SESSION_ENCRYPT)
  IN  IF encrypt = {} THEN clear
      ELSE Encipher(clear, 2, SizeAt(clear, 0), TpmKey(c, auths, CHOOSE i \in encrypt : TRUE, "response"))

OutHandles(c) == Marshal(TpmResponse[c.command].handles, c.out, 0).stream

OutParameters(c) == Marshal(TpmResponse[c.command].parameters, c.out, 0).stream

Trailer(fault) == IF fault = "trailing" THEN Chunk(1, 0) ELSE Empty

TpmResponds(c, fault, auths, parameters) ==
  LET sessions == auths # <<>> /\ fault # "untagged"
      tag == IF sessions THEN TPM_ST.SESSIONS ELSE TPM_ST.NO_SESSIONS
      body == IF sessions
                THEN Chunk(4, parameters.size) ++ parameters ++ TpmAnswersAuths(Altered(fault, auths))
                ELSE parameters
  IN  SetSize(Header(tag, 0, 0) ++ OutHandles(c) ++ body ++ Trailer(fault), tag)

TpmAnswers(fault, command, parameters) ==
  /\ Completed("execute")
  /\ received' = <<[command EXCEPT !.ok = fault = "none"]>>
  /\ responseBuffer' = TpmResponds(call, fault, command.auths, parameters)
  /\ hmacs' = parameters

TpmExecutes(fault) ==
  /\ pc = "send"
  /\ \E command \in {TpmReads(call, commandBuffer)} :
       IF command.ok
         THEN TpmAnswers(fault, command, TpmAnswersParameters(call, command.auths, OutParameters(call)))
         ELSE Refuse("TPM") /\ UNCHANGED <<received, responseBuffer, hmacs>>
  /\ UNCHANGED <<call, commandBuffer, cpBuffer, authCount, given, file>>

-----------------------------------------------------------------------------
(* The response                                                            *)

ResponseTag == ReadNumber(TPM_ST_Unmarshal, responseBuffer)

\* past the header and the handles
RpOffset == HeaderSize + 4 * getresponseHandleCount(call.command)

ParameterSize == Read(Skip(responseBuffer, RpOffset), 4)

\* What is left of the area after n authorizations.
AfterAuths(area, n) ==
  LET after[i \in 0..n] ==
        IF i = 0 THEN Value(0, area)
        ELSE IF after[i - 1].ok THEN Unmarshal(TPMS_AUTH_RESPONSE_Unmarshal, after[i - 1].rest, 0)
        ELSE NoValue
  IN  after[n]

\* A mutant: the tag of the response decides alone.
TSS_GetRspAuths_TrustsTag ==
  LET sessions == ResponseTag.value = TPM_ST.SESSIONS
      after == AfterAuths(Skip(responseBuffer, RpOffset + 4 + ParameterSize.value), Len(call.sessions))
  IN  /\ pc = "execute"
      /\ IF ResponseTag.ok /\ (sessions => ParameterSize.ok /\ after.ok /\ after.rest = Empty)
           THEN Completed("auths")
           ELSE Refuse("TSS_GetRspAuths")
      /\ UNCHANGED <<call, commandVars, received, responseBuffer, given, file>>

\* Step 9.
TSS_GetRspAuths ==
  LET sessions == ResponseTag.value = TPM_ST.SESSIONS
      after == AfterAuths(Skip(responseBuffer, RpOffset + 4 + ParameterSize.value), Len(call.sessions))
  IN  /\ pc = "execute"
      /\ IF /\ ResponseTag.ok
            /\ sessions => ParameterSize.ok /\ after.ok /\ after.rest = Empty
            /\ authCount = IF sessions THEN Len(call.sessions) ELSE 0
           THEN Completed("auths")
           ELSE Refuse("TSS_GetRspAuths")
      /\ UNCHANGED <<call, commandVars, received, responseBuffer, given, file>>

\* Step 10: rpHash covers the parameters as they were received.
TSS_HmacSession_Verify ==
  /\ pc = "auths"
  /\ IF (\E i \in DOMAIN call.sessions : call.sessions[i].kind = "hmac")
           => hmacs = Prefix(Skip(responseBuffer, RpOffset + 4), ParameterSize.value)
       THEN Completed("verify")
       ELSE Refuse("TSS_HmacSession_Verify")
  /\ UNCHANGED <<call, commandVars, received, responseBuffer, given, file>>

\* Step 13: the first parameter is decrypted in place.
TSS_Response_Encrypt ==
  LET sessions == GetEncryptSession(call.sessions)
      session == CHOOSE i \in sessions : TRUE
      rpBuffer == RpOffset + IF ResponseTag.value = TPM_ST.NO_SESSIONS THEN 0 ELSE 4
      paramSize == SizeAt(responseBuffer, rpBuffer)
  IN  /\ pc = "verify"
      /\ IF \/ Cardinality(sessions) > 1
            \/ sessions # {} /\ getEncryptSize(call.command) = 0
            \/ sessions # {} /\ paramSize # 0 /\ ~Implemented(call.sessions[session])
           THEN Refuse("TSS_Response_Encrypt") /\ UNCHANGED responseBuffer
           ELSE /\ Completed("encrypt")
                /\ responseBuffer' =
                     IF sessions = {} \/ paramSize = 0 THEN responseBuffer
                     ELSE Encipher(responseBuffer, rpBuffer + 2, paramSize,
                                   Key(session, "response", TssAlgorithm(call.sessions[session])))
      /\ UNCHANGED <<call, commandVars, received, given, file>>

\* A response unmarshaling function: the handle, if there is one, the size of the parameters
\* if there are sessions, and the parameters.  No response has two handles.
Handle(names, stream) ==
  IF names = <<>> THEN Value([name \in {} |-> 0], stream)
  ELSE LET h == ReadNumber(TPM_HANDLE_Unmarshal, stream)
       IN  IF h.ok THEN Value([name \in {names[1]} |-> h.value], h.rest) ELSE NoValue

WithParameters(handle, size, parameters) ==
  IF handle.ok /\ size.ok /\ parameters.ok
    THEN Value(Joined(handle.value, parameters.value), parameters.rest)
    ELSE NoValue

AfterSize(format, handle, size) ==
  WithParameters(handle, size, Unmarshal(format.parameters, size.rest, 0))

AfterHandle(format, handle) ==
  AfterSize(format, handle,
            IF ResponseTag.value = TPM_ST.SESSIONS THEN Read(handle.rest, 4) ELSE Value(0, handle.rest))

ResponseParsed(format) == AfterHandle(format, Handle(format.handles, Skip(responseBuffer, HeaderSize)))

Unmarshaled(format, out) ==
  IF (format # NULL) # call.hasOut THEN Refuse("TSS_Unmarshal") /\ UNCHANGED given
  ELSE IF ~call.hasOut THEN Done /\ UNCHANGED given
  ELSE IF ~out.ok THEN Refuse("TSS_Unmarshal") /\ UNCHANGED given
  ELSE Done /\ given' = <<out.value>>

TSS_Unmarshal ==
  /\ pc = "encrypt"
  /\ LET format == TSS_MarshalTable_Process[call.command].unmarshalOut
     IN  Unmarshaled(format, ResponseParsed(format))
  /\ UNCHANGED <<call, commandVars, received, responseBuffer, file>>

-----------------------------------------------------------------------------
(* A structure in a file: a utility writes it, another one reads it.       *)

TSS_File_WriteStructure(f) ==
  LET stream == Marshal(f.marshal, f.value, 0)
  IN  /\ pc = "idle"
      /\ call' = f
      /\ IF stream.ok
           THEN Completed("written") /\ file' = stream.stream
           ELSE pc' = "file" /\ refusedBy' = "TSS_File_WriteStructure" /\ UNCHANGED file
      /\ UNCHANGED <<commandVars, received, responseBuffer, given>>

TSS_File_ReadStructure ==
  LET structure == Unmarshal(call.unmarshal, file, 0)
  IN  /\ pc = "written"
      /\ pc' = "file"
      /\ IF structure.ok
           THEN given' = <<structure.value>> /\ UNCHANGED refusedBy
           ELSE refusedBy' = "TSS_File_ReadStructure" /\ UNCHANGED given
      /\ UNCHANGED <<call, commandVars, received, responseBuffer, file>>

\* A mutant: the count of the authorizations survives.
TSS_InitAuthContext_KeepsCount ==
  /\ pc \in {"done", "file"}
  /\ call' = NoCall /\ pc' = "idle" /\ refusedBy' = "none"
  /\ commandBuffer' = Empty /\ cpBuffer' = 0 /\ hmacs' = Empty
  /\ received' = <<>> /\ responseBuffer' = Empty /\ given' = <<>> /\ file' = Empty
  /\ UNCHANGED authCount

\* TSS_InitAuthContext clears the context for the next call.
TSS_InitAuthContext ==
  /\ pc \in {"done", "file"}
  /\ call' = NoCall /\ pc' = "idle" /\ refusedBy' = "none"
  /\ commandBuffer' = Empty /\ cpBuffer' = 0 /\ authCount' = 0 /\ hmacs' = Empty
  /\ received' = <<>> /\ responseBuffer' = Empty /\ given' = <<>> /\ file' = Empty

Next ==
  \/ pc = "idle" /\ \E i \in DOMAIN Calls : TSS_Marshal(Calls[i])
  \/ TSS_Command_Decrypt
  \/ TSS_HmacSession_SetHMAC
  \/ TSS_SetCmdAuths
  \/ pc = "send" /\ \E fault \in call.faults : TpmExecutes(fault)
  \/ TSS_GetRspAuths
  \/ TSS_HmacSession_Verify
  \/ TSS_Response_Encrypt
  \/ TSS_Unmarshal
  \/ pc = "idle" /\ \E i \in DOMAIN Files : TSS_File_WriteStructure(Files[i])
  \/ TSS_File_ReadStructure
  \/ TSS_InitAuthContext

Spec == Init /\ [][Next]_vars

-----------------------------------------------------------------------------
(* What the structures of a call have to be for the steps to be right: the *)
(* functions that write them, and those that read them, agree.             *)

Entry(c) == TSS_MarshalTable_Process[c.command]

InStream(c) == MarshalIn(c, Entry(c)).stream

HandlesSize(c) == 4 * getCommandHandleCount(c.command)

\* A two byte size, as many bytes, and more.
BeginsWithTpm2b(stream, n) ==
  /\ n \in Nat /\ 2 + n <= stream.size
  /\ stream = Prefix(stream, 2) ++ Prefix(Skip(stream, 2), n) ++ Skip(stream, 2 + n)

\* What the TPM takes out of the handles and the parameters is what the application filled in.
CommandReadsBack(c, format, stream, handles, parameters, taken) ==
  /\ IsStream(stream) /\ InTheClear(stream) /\ stream = handles ++ parameters
  /\ format.handles \in Seq(STRING) /\ Len(format.handles) = getCommandHandleCount(c.command)
  /\ HandlesSize(c) <= stream.size
  /\ \A i \in DOMAIN format.handles :
       Read(Skip(handles, 4 * (i - 1)), 4).value = c.in[format.handles[i]]
  /\ taken.ok /\ taken.rest = Empty
  /\ \A name \in DOMAIN taken.value : taken.value[name] = c.in[name]
  /\ getDecryptSize(c.command) = 2 <=> FirstIsTpm2b(format.parameters.fields)
  /\ FirstIsTpm2b(format.parameters.fields) => BeginsWithTpm2b(parameters, SizeAt(parameters, 0))

\* The TPM takes the authorizations the TSS has written, and there is room for them.
AuthorizationsReadBack(c, area, size) ==
  /\ Len(c.sessions) <= MAX_SESSION_NUM
  /\ IsStream(area)
  /\ area.size = 0 <=> c.sessions = <<>>
  /\ TpmAuths(area) = AuthCommands(c.sessions)
  /\ HeaderSize + size + 4 + area.size <= MAX_COMMAND_SIZE

\* The TSS gets what the TPM has answered out of the handle and the parameters, or refuses it.
ResponseReadsBack(c, format, fields, handles, parameters, handle, taken) ==
  /\ getresponseHandleCount(c.command) \in {0, 1}
  /\ IsStream(handles) /\ handles.size = 4 * getresponseHandleCount(c.command)
  /\ IsStream(parameters) /\ InTheClear(parameters)
  /\ c.outGood <=> ((format # NULL <=> c.hasOut) /\ (c.hasOut => taken.ok))
  /\ format # NULL /\ c.hasOut =>
       format.handles \in Seq(STRING) /\ Len(format.handles) = getresponseHandleCount(c.command)
  /\ c.outGood /\ c.hasOut => handle.ok /\ Joined(handle.value, taken.value) = c.out
  /\ getEncryptSize(c.command) # 0 <=> FirstIsTpm2b(fields)
  /\ FirstIsTpm2b(fields) => BeginsWithTpm2b(parameters, SizeAt(parameters, 0))

\* The authorizations of a response.
AnswerArea(c, fault) == TpmAnswersAuths(Altered(fault, AuthCommands(c.sessions)))

\* The authorizations of a proper response are those of the command, of another they are not.
AnswerReadsBack(c, fault, area, after) ==
  /\ IsStream(area)
  /\ c.sessions = <<>> => fault = "none" /\ area = Empty
  /\ fault # "untagged" => (fault = "none" <=> after.ok /\ after.rest = Empty)

\* One value each, which TLC computes once.
ReadsBack(c) ==
  \E in \in {InStream(c)}, format \in {TpmCommand(c.command)}, entry \in {Entry(c)},
     answer \in {TpmResponse[c.command]}, area \in {AnswerArea(c, "none")} :
    \E handles \in {Prefix(in, HandlesSize(c))}, parameters \in {Skip(in, HandlesSize(c))},
       outHandles \in {OutHandles(c)}, outParameters \in {OutParameters(c)} :
      /\ CommandReadsBack(c, format, in, handles, parameters, Unmarshal(format.parameters, parameters, 0))
      /\ AuthorizationsReadBack(c, AuthArea(c.sessions), in.size)
      /\ ResponseReadsBack(c, entry.unmarshalOut, answer.parameters.fields, outHandles, outParameters,
                           Handle(entry.unmarshalOut.handles, outHandles),
                           Unmarshal(entry.unmarshalOut.parameters, outParameters ++ area, 0))
      /\ \A fault \in c.faults :
           AnswerReadsBack(c, fault, AnswerArea(c, fault),
                           AfterAuths(AnswerArea(c, fault) ++ Trailer(fault), Len(c.sessions)))

-----------------------------------------------------------------------------
(* Properties                                                              *)

Steps == {"marshaled", "decrypt", "hmac", "send", "execute", "auths", "verify", "encrypt", "done"}

TypeOK ==
  /\ pc \in Steps \union {"idle", "written", "file"}
  /\ pc \in Steps => call.command \in DOMAIN TPM_CC
  /\ cpBuffer \in 0 .. MAX_COMMAND_SIZE
  /\ authCount \in IF pc = "idle" THEN {0} ELSE 0 .. 3
  /\ commandBuffer.size <= MAX_COMMAND_SIZE
  /\ Len(received) <= 1 /\ Len(given) <= 1

\* The range check of TSS_Marshal is exact: a command is refused before anything is sent
\* if and only if a parameter is outside its limits.  The check runs on the stream, so
\* the marshaling and the unmarshaling function of every structure of every command have
\* to agree on the order, the size and the presence of each field.
RangeCheckIsExact ==
  pc \in Steps => ((refusedBy = "TSS_Marshal") <=> ~call.inGood)

\* The sessions the library specification lets a command have.
Legal(c) ==
  /\ Cardinality(Indices(c.sessions, IsDecrypt)) <= 1
  /\ Cardinality(Indices(c.sessions, IsEncrypt)) <= 1
  /\ \A i \in Indices(c.sessions, IsDecrypt) \union Indices(c.sessions, IsEncrypt) :
       Implemented(c.sessions[i])
  /\ Indices(c.sessions, IsDecrypt) # {} => FirstIsTpm2b(TpmCommand(c.command).parameters.fields)
  /\ Indices(c.sessions, IsEncrypt) # {} => FirstIsTpm2b(TpmResponse[c.command].parameters.fields)

\* The TPM takes the handles and the parameters the application filled in, whatever
\* authorizations were inserted before the parameters and whichever parameter was
\* encrypted, and it takes every command that may have these sessions.
TpmReceivesTheCommand ==
  /\ received # <<>> =>
       LET handles == TpmCommand(call.command).handles
       IN  /\ \A i \in DOMAIN handles : received[1].handles[i] = call.in[handles[i]]
           /\ \A name \in DOMAIN received[1].parameters : received[1].parameters[name] = call.in[name]
  /\ pc \in Steps /\ refusedBy \in {"TSS_Command_Decrypt", "TSS_SetCmdAuths", "TPM"} => ~Legal(call)

\* The application gets the response as the TPM made it, every part of it decrypted; a
\* response with a value outside its limits, or with other authorizations than the
\* command had, is an error and not a result.
ApplicationReceivesTheResponse ==
  pc = "done" /\ received # <<>> =>
    IF received[1].ok /\ call.outGood
      THEN refusedBy = "none" /\ (call.hasOut => given = <<call.out>>)
      ELSE refusedBy # "none"

\* The bytes of the first parameter while the command is sent.
FirstParameter == Prefix(Skip(commandBuffer, cpBuffer + 2), SizeAt(commandBuffer, cpBuffer))

Encrypted(stream) == \A c \in stream.chunks : c.key # Clear

\* The first parameter of a command with a decrypt session is never sent in the clear;
\* a decrypt session after a password session excepted.
DecryptSessionEncrypts ==
  pc = "send" =>
    \A i \in DOMAIN call.sessions :
      IsDecrypt(call.sessions[i]) /\ (\A j \in 1 .. i : call.sessions[j].kind # "pw")
        => Encrypted(FirstParameter)

\* The same without the exception: "TSS_Command_Decrypt() determines whether any sessions
\* are command decrypt sessions.  If so, it encrypts the first command parameter."
AnyDecryptSessionEncrypts ==
  pc = "send" =>
    \A i \in DOMAIN call.sessions : IsDecrypt(call.sessions[i]) => Encrypted(FirstParameter)

\* A structure one utility writes to a file is read back by another one as it was; and the
\* structures of a command that TSS_Marshal lets through are read back by the TPM, those of its
\* response by the TSS.
StructureReadsBack ==
  /\ pc = "file" => refusedBy = "none" /\ given = <<call.value>>
  /\ pc = "marshaled" => ReadsBack(call)

=============================================================================
