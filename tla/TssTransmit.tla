---------------------------- MODULE TssTransmit ----------------------------
(***************************************************************************)
(* The connection of a TSS context to its TPM: tsstransmit.c, tsssocket.c, *)
(* tssdev.c, and what TSS_Create, TSS_SetProperty and TSS_Delete do to it. *)
(*                                                                         *)
(* The connection is opened by the first transmission and kept.  A command *)
(* is sent, and its response received, field by field; one field is read   *)
(* or written by a loop of system calls that may transfer any part of it.  *)
(* Every system call may fail.  A failure after the open leaves the        *)
(* connection as it is, with whatever is still under way on it.            *)
(*                                                                         *)
(* The format is that of the MS simulator ("mssim"), of a raw TPM stream   *)
(* ("raw") or of a device driver ("dev").  Bytes are counted only within a *)
(* field: all fields have FieldSize of them.                               *)
(***************************************************************************)
EXTENDS Naturals, Sequences

CONSTANTS
  Servers,      \* TPM_SERVER_NAME with the two ports
  ServerFormat, \* external: the format each server understands
  Devices,      \* TPM_DEVICE
  NoConnection, \* no descriptor is open
  NoCall,       \* no call is in progress
  Error,        \* a call returned an error of the transport
  Garbled,      \* a call returned a response pieced together from several
  FieldSize,    \* bytes of a field
  MaxCommand    \* bound: commands sent

ASSUME ConstantsAssumption ==
  /\ ServerFormat \in [Servers -> {"mssim", "raw"}]
  /\ FieldSize \in Nat \ {0}
  /\ MaxCommand \in Nat
  /\ NoCall \notin Nat
  /\ Error \notin Nat
  /\ Garbled \notin Nat
  /\ Error # Garbled
  /\ NoConnection \notin [interface : {"socsim", "dev"}, type : {"mssim", "raw", "other"},
                          peer : Servers \union Devices, port : {"command", "platform"}]

VARIABLES
  context,       \* whether there is a TSS_CONTEXT
  config,        \* its tssInterfaceType, tssServerType, tssServerName and ports, tssDevice
  firstTransmit, \* tssFirstTransmit
  conn,          \* what sock_fd or dev_fd is connected to
  peerUp,        \* external: the server has not closed the connection
  pc,            \* where the call is
  kind,          \* of the call: to the "command" or the "platform" port
  at,            \* the field being sent or received
  nleft,         \* bytes left of it
  cmd,           \* the number of the command of the call
  outbox,        \* external: commands on their way
  inbox,         \* external: responses on their way
  executed,      \* external: commands the TPM has executed
  answer,        \* the command that the response returned last belongs to
  residue        \* auxiliary: a call failed after this connection was opened

contextVars == <<context, config>>

connVars == <<firstTransmit, conn, peerUp, outbox, inbox, residue>>

callVars == <<pc, kind, at, nleft, cmd>>

vars == <<contextVars, connVars, callVars, executed, answer>>

Config == [interface : {"socsim", "dev", "other"}, type : {"mssim", "raw", "other"},
           server : Servers, device : Devices]

Kinds == {"command", "platform"}

Endpoints == [interface : {"socsim", "dev"}, type : {"mssim", "raw", "other"},
              peer : Servers \union Devices, port : Kinds]

-----------------------------------------------------------------------------
(* Formats                                                                 *)

\* TSS_Socket_GetServerType, or the device.
Format == IF config.interface = "dev" THEN "dev" ELSE config.type

\* TSS_Socket_SendCommand, TSS_Dev_SendCommand; TSS_Socket_SendPlatform.
SendFields(format, k) ==
  IF k = "platform" THEN <<"command">>
  ELSE IF format = "mssim" THEN <<"commandType", "locality", "length", "packet">>
  ELSE <<"packet">>

\* TSS_Socket_ReceiveCommand, TSS_Dev_ReceiveCommand; TSS_Socket_ReceivePlatform.
ReceiveFields(format, k) ==
  IF k = "platform" THEN <<"acknowledgement">>
  ELSE IF format = "mssim" THEN <<"length", "header", "rest", "acknowledgement">>
  ELSE IF format = "raw" THEN <<"header", "rest">>
  ELSE <<"packet">>

\* A response may be longer than MAX_RESPONSE_SIZE, or than announced before it.
Shapes == {"good", "long", "unequal"}

\* Which field of a response of this shape is refused.
Refused(shape, field) ==
  \/ field = "header" /\ shape = "long"
  \/ field = "header" /\ shape = "unequal" /\ Format = "mssim"
  \/ field = "packet" /\ shape # "good"

\* What a connection opened by a call of kind k is to.
Endpoint(k) ==
  [interface |-> config.interface, type |-> config.type,
   peer |-> IF config.interface = "dev" THEN config.device ELSE config.server, port |-> k]

\* Which kinds of calls the interface and server type support; the type is tested only before an open.
Supported(k) ==
  \/ config.interface = "dev" /\ k = "command"
  \/ config.interface = "socsim" /\ (firstTransmit => config.type \in IF k = "platform" THEN {"mssim"} ELSE {"mssim", "raw"})

-----------------------------------------------------------------------------
Init ==
  /\ context = FALSE
  /\ config \in Config
  /\ firstTransmit = TRUE
  /\ conn = NoConnection
  /\ peerUp = FALSE
  /\ pc = "idle"
  /\ kind = "command"
  /\ at = 1
  /\ nleft = FieldSize
  /\ cmd = 0
  /\ outbox = <<>>
  /\ inbox = <<>>
  /\ executed = {}
  /\ answer = Error
  /\ residue = FALSE

\* Mutant: a connection that the server has closed is not closed again.
CloseOnlyIfUp ==
  IF conn # NoConnection /\ ~peerUp
    THEN UNCHANGED connVars
    ELSE /\ firstTransmit' = TRUE
         /\ conn' = NoConnection
         /\ peerUp' = FALSE
         /\ outbox' = <<>>
         /\ inbox' = <<>>
         /\ residue' = FALSE

\* TSS_Close.  The descriptor is closed and tssFirstTransmit set, also when something fails.
Close ==
  /\ firstTransmit' = TRUE
  /\ conn' = NoConnection
  /\ peerUp' = FALSE
  /\ outbox' = <<>>
  /\ inbox' = <<>>
  /\ residue' = FALSE

\* TSS_Create with the configuration of the environment; one that fails leaves no context.
Create(c) ==
  /\ ~context
  /\ context' = TRUE
  /\ config' = c
  /\ UNCHANGED <<connVars, callVars, executed, answer>>

Delete ==
  /\ context /\ pc = "idle"
  /\ Close
  /\ context' = FALSE
  /\ UNCHANGED <<config, callVars, executed, answer>>

\* TSS_SetInterfaceType, TSS_SetServerType, TSS_SetServerName, TSS_SetCommandPort,
\* TSS_SetPlatformPort and TSS_SetDevice close the connection first.
SetProperty(p, v) ==
  /\ context /\ pc = "idle"
  /\ Close
  /\ config' = [config EXCEPT ![p] = v]
  /\ UNCHANGED <<context, callVars, executed, answer>>

\* The close fails, or the port is not a number.
SetPropertyFails ==
  /\ context /\ pc = "idle"
  /\ Close
  /\ UNCHANGED <<contextVars, callVars, executed, answer>>

\* The process exits, or is killed: by SIGPIPE when it writes to a connection the server closed.
ProcessEnds ==
  /\ Close
  /\ context' = FALSE
  /\ pc' = "idle"
  /\ answer' = Error
  /\ UNCHANGED <<config, kind, at, nleft, cmd, executed>>

-----------------------------------------------------------------------------
(* A call                                                                  *)

StartField(where, field) ==
  /\ pc' = where
  /\ at' = field
  /\ nleft' = FieldSize

Fail ==
  /\ pc' = "idle"
  /\ answer' = Error
  /\ UNCHANGED <<at, nleft>>

\* TSS_Transmit and TSS_TransmitPlatform, up to the first system call.
Transmit(k) ==
  /\ context /\ pc = "idle"
  /\ cmd < MaxCommand
  /\ cmd' = cmd + 1
  /\ kind' = k
  /\ IF Supported(k)
       THEN /\ StartField(IF firstTransmit THEN "open" ELSE "send", 1)
            /\ UNCHANGED answer
       ELSE Fail
  /\ UNCHANGED <<contextVars, connVars, executed>>

\* TSS_Socket_Open, TSS_Dev_Open.
Open ==
  /\ pc = "open"
  /\ firstTransmit' = FALSE
  /\ conn' = Endpoint(kind)
  /\ peerUp' = TRUE
  /\ StartField("send", 1)
  /\ UNCHANGED <<contextVars, outbox, inbox, residue, kind, cmd, executed, answer>>

OpenFails ==
  /\ pc = "open"
  /\ Fail
  /\ UNCHANGED <<contextVars, connVars, kind, cmd, executed>>

\* One pass of the loop of TSS_Socket_SendBytes or TSS_Socket_ReceiveBytes.
TransferPart ==
  /\ nleft > 1
  /\ Format # "dev"
  /\ nleft' \in 1 .. nleft - 1
  /\ UNCHANGED <<contextVars, connVars, pc, kind, at, cmd, executed, answer>>

SendPart == pc = "send" /\ TransferPart

\* What is written to a connection the server has closed is lost.
Sent(whole) ==
  IF peerUp
    THEN Append(outbox, [cmd |-> cmd, kind |-> kind, whole |-> whole])
    ELSE outbox

\* Mutant: one field too many.
MoreToSendAfterLast == at <= Len(SendFields(Format, kind))

MoreToSend == at < Len(SendFields(Format, kind))

\* The last pass of the loop for this field.
SendField ==
  /\ pc = "send"
  /\ IF MoreToSend
       THEN /\ StartField("send", at + 1)
            /\ UNCHANGED outbox
       ELSE /\ StartField("receive", 1)
            /\ outbox' = Sent(TRUE)
  /\ UNCHANGED <<contextVars, firstTransmit, conn, peerUp, inbox, residue, kind, cmd, executed, answer>>

\* write() fails; the server may have got a part of the command.
SendFails ==
  /\ pc = "send"
  /\ Fail
  /\ IF at = 1 /\ nleft = FieldSize
       THEN UNCHANGED <<outbox, residue>>
       ELSE outbox' = Sent(FALSE) /\ residue' = TRUE
  /\ UNCHANGED <<contextVars, firstTransmit, conn, peerUp, inbox, kind, cmd, executed>>

ReceivePart == pc = "receive" /\ inbox # <<>> /\ TransferPart

\* What is on its way when the next field of the first response has been read.
Advance ==
  LET r == Head(inbox)
  IN IF r.at < Len(ReceiveFields(Format, r.kind))
       THEN <<[r EXCEPT !.at = @ + 1]>> \o Tail(inbox)
       ELSE Tail(inbox)

\* Mutant: a TPM that returns an error code is not expected to acknowledge.
IsLastSkipsAcknowledgement(r) ==
  \/ at = Len(ReceiveFields(Format, kind))
  \/ r.code = "failure" /\ ReceiveFields(Format, kind)[at] = "rest"

\* The acknowledgement is read whatever the response code.
IsLast(r) == at = Len(ReceiveFields(Format, kind))

\* The rest of a field arrives, is checked, and the response returned if it is complete.  After
\* a failure the bytes need not be where they are expected: the field may end anywhere,
\* and be refused or not.
ReceiveField ==
  /\ pc = "receive"
  /\ inbox # <<>>
  /\ inbox' \in {Advance} \union (IF residue THEN {inbox} ELSE {})
  /\ LET r == Head(inbox)
         refused == Refused(r.shape, ReceiveFields(Format, kind)[at])
     IN \E no \in {refused} \union (IF residue THEN BOOLEAN ELSE {}) :
          CASE no -> Fail /\ residue' = TRUE
            [] ~no /\ ~IsLast(r) -> StartField("receive", at + 1) /\ UNCHANGED <<answer, residue>>
            [] ~no /\ IsLast(r) ->
                 /\ pc' = "idle"
                 /\ answer' \in {r.cmd} \union (IF residue THEN {Garbled} ELSE {})
                 /\ UNCHANGED <<at, nleft, residue>>
  /\ UNCHANGED <<contextVars, firstTransmit, conn, peerUp, outbox, kind, cmd, executed>>

\* Mutant: a read of zero bytes is not taken for the end of the stream.
AtEndNever == FALSE

\* read() returns zero bytes.
AtEnd == inbox = <<>> /\ ~peerUp

ReceiveFailure ==
  /\ pc = "receive"
  /\ Fail
  /\ residue' = TRUE
  /\ UNCHANGED <<contextVars, firstTransmit, conn, peerUp, outbox, inbox, kind, cmd, executed>>

ReceiveEnd == AtEnd /\ ReceiveFailure

\* read() fails, for instance interrupted by a signal.
ReceiveFails == ReceiveFailure

-----------------------------------------------------------------------------
(* External: the server or the device                                      *)

\* A whole command, at the port and in the format of the server.
Understood(c) ==
  /\ c.whole
  /\ c.kind = conn.port
  /\ conn.interface = "socsim" => conn.type = ServerFormat[conn.peer]

TpmExecutes ==
  /\ conn # NoConnection /\ peerUp
  /\ outbox # <<>> /\ Understood(Head(outbox))
  /\ executed' = executed \union {Head(outbox).cmd}
  /\ outbox' = Tail(outbox)
  /\ \E shape \in Shapes, code \in {"success", "failure"} :
       inbox' = Append(inbox, [cmd |-> Head(outbox).cmd, kind |-> Head(outbox).kind,
                               shape |-> shape, code |-> code, at |-> 1])
  /\ UNCHANGED <<contextVars, firstTransmit, conn, peerUp, residue, callVars, answer>>

\* Responses that it has sent may still arrive.
Drop ==
  /\ conn # NoConnection /\ peerUp
  /\ conn.interface = "socsim"
  /\ peerUp' = FALSE
  /\ outbox' = <<>>
  /\ inbox' \in {inbox, <<>>}
  /\ UNCHANGED <<contextVars, firstTransmit, conn, residue, callVars, executed, answer>>

\* What the server cannot make sense of; it waits for the rest of an incomplete command.
Nonsense ==
  /\ outbox # <<>>
  /\ ~Understood(Head(outbox))
  /\ Head(outbox).whole \/ Len(outbox) > 1

DropNonsense == Nonsense /\ Drop

-----------------------------------------------------------------------------
\* The steps of a call that is not disturbed.
CallSteps == Open \/ SendPart \/ SendField \/ ReceivePart \/ ReceiveField \/ ReceiveEnd

Next ==
  \/ \E c \in Config : Create(c)
  \/ Delete
  \/ \E p \in {"interface", "type", "server", "device"} :
       \E v \in {c[p] : c \in Config} : SetProperty(p, v)
  \/ SetPropertyFails
  \/ ProcessEnds
  \/ \E k \in Kinds : Transmit(k)
  \/ CallSteps
  \/ OpenFails
  \/ SendFails
  \/ ReceiveFails
  \/ TpmExecutes
  \/ Drop

Spec == Init /\ [][Next]_vars

\* The program runs on; a server answers what it understands and closes what it does not.
Fairness == WF_vars(CallSteps) /\ WF_vars(TpmExecutes) /\ WF_vars(DropNonsense)

FairSpec == Spec /\ Fairness

-----------------------------------------------------------------------------
(* Properties                                                              *)

Command == [cmd : 1 .. MaxCommand, kind : Kinds, whole : BOOLEAN]

Response == [cmd : 1 .. MaxCommand, kind : Kinds, shape : Shapes, code : {"success", "failure"}, at : 1 .. 4]

FlagsOK ==
  /\ context \in BOOLEAN
  /\ firstTransmit \in BOOLEAN
  /\ peerUp \in BOOLEAN
  /\ residue \in BOOLEAN

CallOK ==
  /\ pc \in {"idle", "open", "send", "receive"}
  /\ kind \in Kinds
  /\ at \in 1 .. 4
  /\ nleft \in 1 .. FieldSize
  /\ cmd \in 0 .. MaxCommand
  /\ executed \subseteq 1 .. MaxCommand
  /\ answer \in 1 .. MaxCommand \union {Error, Garbled}

ConnectionOK ==
  /\ config \in Config
  /\ conn \in Endpoints \union {NoConnection}
  /\ outbox \in Seq(Command)
  /\ inbox \in Seq(Response)

\* The variables have their types.
TypeOK == FlagsOK /\ CallOK /\ ConnectionOK

\* A connection is open only within a context, is to the interface, server or device that the
\* properties name now, and was opened by one of the two kinds of calls: no property can be
\* changed, not even in vain, under an open connection (TSS_Close in tssproperties.c), and
\* TSS_Delete closes it.
ConnectionFollowsConfiguration ==
  /\ ~context => conn = NoConnection
  /\ firstTransmit <=> conn = NoConnection
  /\ conn # NoConnection => \E k \in Kinds : conn = Endpoint(k)

\* Abstract: the promise to the application.
Channel == INSTANCE CommandChannel WITH
  Commands <- 1 .. MaxCommand,
  submitted <- 1 .. cmd,
  call <- IF pc = "idle" THEN NoCall ELSE cmd

\* A call returns the response to its own command, or an error, and no command is executed
\* twice, unless a call failed on the same connection before (TSS_Socket_Transmit,
\* TSS_Dev_Transmit).
RefinesChannel == Channel!Spec

\* A call does not hang (TSS_Socket_SendBytes, TSS_Socket_ReceiveBytes), whatever the server
\* does short of keeping silent, unless a call failed on the same connection before: a
\* response read from its middle may announce bytes that nobody sends.
EveryCallReturns == (pc # "idle" /\ ~residue) ~> pc = "idle"
=============================================================================
