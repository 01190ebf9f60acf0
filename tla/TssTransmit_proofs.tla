------------------------ MODULE TssTransmit_proofs ------------------------
(***************************************************************************)
(* Proofs about TssTransmit, for any servers, devices, size of a field and *)
(* number of commands.                                                     *)
(*                                                                         *)
(* On a connection without residue the command of the call, or its         *)
(* response read up to the field that is expected next, is all that is     *)
(* under way (InStep).  Whatever the connection, a command under way has   *)
(* not been executed and each is there once (PendingOnce).  The last part  *)
(* is about progress: what a call waits for and how far it is.             *)
(***************************************************************************)
EXTENDS TssTransmit, TLAPS

\* A call in progress has a context; it opens a connection that is closed and uses one that is open.
CallHasConnection ==
  /\ pc # "idle" => context
  /\ pc = "open" => firstTransmit /\ Supported(kind)
  /\ pc \in {"send", "receive"} => ~firstTransmit
  /\ pc = "receive" => at <= Len(ReceiveFields(Format, kind))

\* Nothing is under way without a connection.
ClosedIsEmpty == firstTransmit => outbox = <<>> /\ inbox = <<>> /\ ~residue

\* The command of the call is waiting to be executed.
OnlyCommand == at = 1 /\ inbox = <<>> /\ outbox = <<[cmd |-> cmd, kind |-> kind, whole |-> TRUE]>>

\* The response to it has been read up to the field expected next.
OnlyResponse ==
  /\ outbox = <<>>
  /\ \E r \in Response : inbox = <<r>> /\ r.cmd = cmd /\ r.kind = kind /\ r.at = at

Nothing == inbox = <<>> /\ outbox = <<>>

InStep == ~residue => Nothing \/ (pc = "receive" /\ (OnlyCommand \/ OnlyResponse))

ResponsesExecuted == \A i \in 1 .. Len(inbox) : inbox[i].cmd \in executed

PendingOnce ==
  /\ \A i \in 1 .. Len(outbox) : outbox[i].cmd \in 1 .. cmd \ executed
  /\ \A i, j \in 1 .. Len(outbox) : i < j => outbox[i].cmd < outbox[j].cmd
  /\ pc \in {"open", "send"} => \A i \in 1 .. Len(outbox) : outbox[i].cmd < cmd

ExecutedSubmitted ==
  /\ executed \subseteq 1 .. cmd
  /\ pc # "idle" => cmd > 0
  /\ pc \in {"open", "send"} => cmd \notin executed

IInv ==
  /\ TypeOK
  /\ ConnectionFollowsConfiguration
  /\ CallHasConnection
  /\ ClosedIsEmpty
  /\ InStep
  /\ ResponsesExecuted
  /\ PendingOnce
  /\ ExecutedSubmitted

LEMMA FieldCounts ==
  ASSUME NEW f, NEW k
  PROVE  /\ Len(SendFields(f, k)) \in 1 .. 4
         /\ Len(ReceiveFields(f, k)) \in 1 .. 4
BY DEF SendFields, ReceiveFields

LEMMA EndpointType ==
  ASSUME config \in Config, NEW k \in Kinds, config.interface # "other"
  PROVE  Endpoint(k) \in Endpoints
BY DEF Config, Endpoints, Endpoint

LEMMA EndpointReal ==
  ASSUME NEW c \in Endpoints
  PROVE  c # NoConnection
BY ConstantsAssumption DEF Endpoints, Kinds

LEMMA ConfigChange ==
  ASSUME config \in Config,
         NEW p \in {"interface", "type", "server", "device"}, NEW v \in {c[p] : c \in Config}
  PROVE  [config EXCEPT ![p] = v] \in Config
<1>1. CASE p = "interface"
  BY <1>1 DEF Config
<1>2. CASE p = "type"
  BY <1>2 DEF Config
<1>3. CASE p = "server"
  BY <1>3 DEF Config
<1>4. CASE p = "device"
  BY <1>4 DEF Config
<1> QED BY <1>1, <1>2, <1>3, <1>4

LEMMA BoundsFacts ==
  /\ FieldSize \in Nat /\ FieldSize \in 1 .. FieldSize
  /\ MaxCommand \in Nat
BY ConstantsAssumption

LEMMA MarkerFacts ==
  NoCall \notin Nat /\ Error \notin Nat /\ Garbled \notin Nat /\ Error # Garbled
BY ConstantsAssumption

LEMMA CommandType ==
  ASSUME cmd \in 1 .. MaxCommand, kind \in Kinds, outbox \in Seq(Command), NEW w \in BOOLEAN
  PROVE  Sent(w) \in Seq(Command)
<1>1. [cmd |-> cmd, kind |-> kind, whole |-> w] \in Command
  BY DEF Command
<1>2. Append(outbox, [cmd |-> cmd, kind |-> kind, whole |-> w]) \in Seq(Command)
  BY <1>1
<1> QED BY <1>2 DEF Sent

\* The next field of a response with n fields.
LEMMA NextFieldType ==
  ASSUME NEW x \in Response, NEW n \in 1 .. 4, x.at < n
  PROVE  [x EXCEPT !.at = @ + 1] \in Response /\ [x EXCEPT !.at = @ + 1].cmd = x.cmd
<1>1. x.at \in 1 .. 4
  BY DEF Response
<1>2. x.at + 1 \in 1 .. 4
  BY <1>1
<1> QED BY <1>2 DEF Response

LEMMA AppendToEmpty ==
  ASSUME NEW x
  PROVE  Append(<<>>, x) = <<x>>
OBVIOUS

LEMMA EmptyTypes == <<>> \in Seq(Command) /\ <<>> \in Seq(Response)
OBVIOUS

LEMMA InitIInv == Init => IInv
<1> SUFFICES ASSUME Init PROVE IInv
  OBVIOUS
<1>1. FlagsOK
  BY DEF Init, FlagsOK
<1>2. CallOK
  BY BoundsFacts DEF Init, CallOK, Kinds
<1>3. ConnectionOK
  BY DEF Init, ConnectionOK
<1> QED
  BY <1>1, <1>2, <1>3 DEF Init, IInv, TypeOK, ConnectionFollowsConfiguration, CallHasConnection, Format, ClosedIsEmpty, InStep,
     Nothing, ResponsesExecuted, PendingOnce, ExecutedSubmitted

\* A closed connection satisfies every part of the invariant that is about connections.
LEMMA CloseIInv ==
  ASSUME IInv, Close, pc' = "idle", context' \in BOOLEAN, config' \in Config,
         answer' \in {answer, Error}, UNCHANGED <<kind, at, nleft, cmd, executed>>
  PROVE  IInv'
<1>1. FlagsOK'
  BY DEF Close, FlagsOK
<1>2. CallOK'
  BY DEF IInv, TypeOK, CallOK
<1>3. ConnectionOK'
  BY DEF Close, ConnectionOK
<1> QED
  BY <1>1, <1>2, <1>3 DEF IInv, TypeOK, Close, ConnectionFollowsConfiguration, CallHasConnection, Format, ClosedIsEmpty, InStep,
     Nothing, ResponsesExecuted, PendingOnce, ExecutedSubmitted

\* So does a connection that is not touched when a call begins, moves on within a field, or fails.
LEMMA CreateIInv ==
  ASSUME IInv, NEW c \in Config, Create(c)
  PROVE  IInv'
<1>1. TypeOK'
  BY DEF IInv, TypeOK, FlagsOK, CallOK, ConnectionOK, Create, connVars, callVars
<1>2. conn = NoConnection
  BY DEF IInv, ConnectionFollowsConfiguration, Create
<1>3. pc = "idle"
  BY DEF IInv, TypeOK, CallOK, CallHasConnection, Format, Create
<1> QED
  BY <1>1, <1>2, <1>3 DEF IInv, Create, connVars, callVars, ConnectionFollowsConfiguration,
     CallHasConnection, Format, ClosedIsEmpty, InStep, Nothing, OnlyCommand, OnlyResponse,
     ResponsesExecuted, PendingOnce, ExecutedSubmitted

LEMMA TransmitIInv ==
  ASSUME IInv, NEW k \in Kinds, Transmit(k)
  PROVE  IInv'
<1> USE DEF IInv, Transmit, StartField, Fail, contextVars, connVars
<1>1. FlagsOK' /\ ConnectionOK'
  BY DEF TypeOK, FlagsOK, ConnectionOK
<1>2. cmd \in Nat /\ cmd' = cmd + 1
  BY DEF TypeOK, CallOK
<1>6. CallOK'
  BY <1>2, BoundsFacts DEF TypeOK, CallOK
<1>3. InStep'
  BY DEF InStep, Nothing
<1>4. /\ PendingOnce /\ ExecutedSubmitted
      /\ outbox' = outbox /\ executed' = executed
      /\ pc = "idle" /\ pc' \in {"idle", "open", "send"}
  OBVIOUS
<1>5. CallHasConnection'
  BY DEF CallHasConnection, Format, Supported, TypeOK
<1> HIDE DEF IInv, Transmit, StartField, Fail, contextVars, connVars
<1>7. PendingOnce'
  BY <1>2, <1>4 DEF PendingOnce
<1>8. ExecutedSubmitted'
  BY <1>2, <1>4 DEF ExecutedSubmitted
<1> QED
  BY <1>1, <1>3, <1>5, <1>6, <1>7, <1>8
  DEF IInv, Transmit, StartField, Fail, contextVars, connVars, TypeOK, ConnectionFollowsConfiguration,
      Endpoint, ClosedIsEmpty, ResponsesExecuted

LEMMA OpenIInv ==
  ASSUME IInv, Open
  PROVE  IInv'
<1> USE DEF IInv, Open, StartField, contextVars
<1>1. Endpoint(kind) \in Endpoints /\ kind \in Kinds
  BY EndpointType DEF CallHasConnection, Format, Supported, TypeOK, CallOK, ConnectionOK
<1>2. TypeOK'
  <2>1. FlagsOK'
    BY DEF TypeOK, FlagsOK
  <2>2. CallOK'
    BY BoundsFacts DEF TypeOK, CallOK
  <2>3. ConnectionOK'
    BY <1>1 DEF TypeOK, ConnectionOK
  <2> QED BY <2>1, <2>2, <2>3 DEF TypeOK
<1>3. ConnectionFollowsConfiguration'
  BY <1>1, EndpointReal DEF ConnectionFollowsConfiguration, CallHasConnection, Format, Endpoint
<1>4. InStep'
  BY DEF InStep, Nothing, ClosedIsEmpty, CallHasConnection, Format
<1>5. PendingOnce' /\ ExecutedSubmitted' /\ CallHasConnection'
  BY DEF PendingOnce, ExecutedSubmitted, CallHasConnection, Format
<1> QED
  BY <1>2, <1>3, <1>4, <1>5 DEF ClosedIsEmpty, ResponsesExecuted

\* A command that joins those under way has not been executed, and has a number of its own.
LEMMA SentPendingOnce ==
  ASSUME IInv, pc = "send", NEW w \in BOOLEAN, outbox' = Sent(w), pc' \in {"idle", "receive"},
         UNCHANGED <<cmd, executed>>
  PROVE  PendingOnce'
<1>1. CASE outbox' = outbox
  BY <1>1 DEF IInv, PendingOnce
<1>2. CASE outbox' = Append(outbox, [cmd |-> cmd, kind |-> kind, whole |-> w])
  <2>1. outbox \in Seq(Command) /\ cmd \in 1 .. MaxCommand
    BY DEF IInv, TypeOK, CallOK, ConnectionOK, ExecutedSubmitted
  <2>2. Len(outbox') = Len(outbox) + 1 /\ Len(outbox) \in Nat
    BY <1>2, <2>1
  <2>3. \A i \in 1 .. Len(outbox) : outbox'[i] = outbox[i]
    BY <1>2, <2>1
  <2>4. outbox'[Len(outbox) + 1].cmd = cmd
    BY <1>2, <2>1
  <2>5. cmd \notin executed /\ cmd \in 1 .. cmd
    BY <2>1 DEF IInv, ExecutedSubmitted
  <2>6. \A i \in 1 .. Len(outbox) : outbox[i].cmd < cmd /\ outbox[i].cmd \in 1 .. cmd \ executed
    BY DEF IInv, PendingOnce
  <2>7. \A i \in 1 .. Len(outbox') : outbox'[i].cmd \in 1 .. cmd \ executed
    <3> SUFFICES ASSUME NEW i \in 1 .. Len(outbox') PROVE outbox'[i].cmd \in 1 .. cmd \ executed
      OBVIOUS
    <3>1. CASE i = Len(outbox) + 1
      BY <3>1, <2>4, <2>5
    <3>2. CASE i \in 1 .. Len(outbox)
      BY <3>2, <2>3, <2>6
    <3> QED BY <2>2, <3>1, <3>2
  <2>8. ASSUME NEW i \in 1 .. Len(outbox'), NEW j \in 1 .. Len(outbox'), i < j
        PROVE  outbox'[i].cmd < outbox'[j].cmd
    <3>1. i \in 1 .. Len(outbox)
      BY <2>2, <2>8
    <3>2. CASE j = Len(outbox) + 1
      BY <3>1, <3>2, <2>3, <2>4, <2>6
    <3>3. CASE j \in 1 .. Len(outbox)
      <4>1. outbox[i].cmd < outbox[j].cmd
        BY <2>8, <3>1, <3>3 DEF IInv, PendingOnce
      <4> QED BY <4>1, <3>1, <3>3, <2>3
    <3> QED BY <2>2, <3>2, <3>3
  <2> QED BY <2>7, <2>8 DEF PendingOnce
<1> QED BY <1>1, <1>2 DEF Sent

\* A failed call leaves the connection as it is and, once it has begun to send, a residue.
LEMMA FailIInv ==
  ASSUME IInv, pc # "idle", Fail,
         UNCHANGED <<contextVars, firstTransmit, conn, peerUp, inbox, kind, cmd, executed>>,
         \/ UNCHANGED <<outbox, residue>> /\ pc \in {"open", "send"}
         \/ residue' = TRUE /\ pc \in {"send", "receive"} /\ outbox' \in {outbox, Sent(FALSE)}
                            /\ (pc = "receive" => outbox' = outbox)
  PROVE  IInv'
<1> USE DEF IInv, Fail, contextVars
<1>1. outbox \in Seq(Command) /\ cmd \in 1 .. MaxCommand /\ kind \in Kinds
  BY DEF TypeOK, CallOK, ConnectionOK, ExecutedSubmitted
<1>2. outbox' \in Seq(Command)
  BY <1>1, CommandType
<1>3. TypeOK'
  BY <1>2 DEF TypeOK, FlagsOK, CallOK, ConnectionOK
<1>4. InStep'
  BY DEF InStep, Nothing
<1>5. PendingOnce'
  <2>1. CASE outbox' = outbox
    BY <2>1 DEF PendingOnce
  <2>2. CASE outbox' = Sent(FALSE) /\ pc = "send"
    BY <2>2, SentPendingOnce
  <2> QED BY <2>1, <2>2
<1>6. ClosedIsEmpty'
  BY DEF ClosedIsEmpty, CallHasConnection, Format
<1> QED
  BY <1>3, <1>4, <1>5, <1>6 DEF ConnectionFollowsConfiguration, Endpoint, CallHasConnection, Format,
     ResponsesExecuted, ExecutedSubmitted

LEMMA TransferPartIInv ==
  ASSUME IInv, TransferPart
  PROVE  IInv'
<1> USE DEF IInv, TransferPart, contextVars, connVars
<1>1. CallOK'
  <2>1. nleft \in 1 .. FieldSize /\ FieldSize \in Nat
    BY BoundsFacts DEF TypeOK, CallOK
  <2>2. nleft' \in 1 .. FieldSize
    BY <2>1
  <2> QED BY <2>2 DEF TypeOK, CallOK
<1>2. FlagsOK' /\ ConnectionOK'
  BY DEF TypeOK, FlagsOK, ConnectionOK
<1>3. CallHasConnection'
  <2>1. UNCHANGED <<context, pc, firstTransmit, kind, at>> /\ Format' = Format /\ Supported(kind)' = Supported(kind)
    BY DEF Format, Supported
  <2>2. CallHasConnection
    OBVIOUS
  <2> HIDE DEF IInv, TransferPart
  <2> QED BY <2>1, <2>2 DEF CallHasConnection
<1> QED
  BY <1>1, <1>2, <1>3 DEF TypeOK, ConnectionFollowsConfiguration, Endpoint, ClosedIsEmpty,
     InStep, Nothing, OnlyCommand, OnlyResponse, ResponsesExecuted, PendingOnce, ExecutedSubmitted

LEMMA SendFieldIInv ==
  ASSUME IInv, SendField
  PROVE  IInv'
<1> USE DEF IInv, SendField, MoreToSend, StartField, contextVars
<1>1. cmd \in 1 .. MaxCommand /\ kind \in Kinds /\ outbox \in Seq(Command)
  BY DEF TypeOK, CallOK, ConnectionOK, ExecutedSubmitted
<1>2. outbox' \in Seq(Command)
  BY <1>1, CommandType
<1>3. CallOK'
  <2>1. at' \in 1 .. 4
    <3>1. at \in 1 .. 4 /\ Len(SendFields(Format, kind)) \in 1 .. 4
      BY FieldCounts DEF TypeOK, CallOK
    <3>2. at' = 1 \/ (at' = at + 1 /\ at < Len(SendFields(Format, kind)))
      OBVIOUS
    <3> DEFINE n == Len(SendFields(Format, kind))
    <3> HIDE DEF IInv, SendField, MoreToSend, StartField, n
    <3>3. at \in 1 .. 4 /\ n \in 1 .. 4 /\ (at' = 1 \/ (at' = at + 1 /\ at < n))
      BY <3>1, <3>2 DEF n
    <3> QED BY <3>3
  <2> QED BY <2>1, BoundsFacts DEF TypeOK, CallOK
<1>4. FlagsOK' /\ ConnectionOK'
  BY <1>2 DEF TypeOK, FlagsOK, ConnectionOK
<1>5. PendingOnce'
  <2>1. CASE outbox' = Sent(TRUE) /\ pc' = "receive"
    BY <2>1, SentPendingOnce
  <2>2. CASE outbox' = outbox
    BY <2>2 DEF PendingOnce
  <2> QED BY <2>1, <2>2
<1>6. InStep'
  <2> SUFFICES ASSUME ~residue PROVE InStep'
    BY DEF InStep
  <2>1. Nothing
    BY DEF InStep
  <2>2. CASE pc' = "receive" /\ outbox' = Sent(TRUE)
    <3>1. at' = 1 /\ inbox' = <<>> /\ kind' = kind /\ cmd' = cmd
      BY <2>1, <2>2 DEF Nothing
    <3>2. outbox' = <<[cmd |-> cmd, kind |-> kind, whole |-> TRUE]>> \/ outbox' = <<>>
      <4>1. outbox = <<>>
        BY <2>1 DEF Nothing
      <4>2. outbox' = outbox \/ outbox' = Append(outbox, [cmd |-> cmd, kind |-> kind, whole |-> TRUE])
        BY <2>2 DEF Sent
      <4> QED BY <4>1, <4>2, AppendToEmpty
    <3> QED BY <2>2, <3>1, <3>2 DEF InStep, Nothing, OnlyCommand
  <2>3. CASE outbox' = outbox
    BY <2>1, <2>3 DEF InStep, Nothing
  <2> QED BY <2>2, <2>3
<1>7. ClosedIsEmpty'
  BY DEF CallHasConnection, ClosedIsEmpty
<1>8. CallHasConnection'
  <2>1. Len(ReceiveFields(Format', kind')) \in 1 .. 4
    BY FieldCounts
  <2>2. 1 <= Len(ReceiveFields(Format', kind'))
    BY <2>1
  <2>3. pc' = "receive" => at' = 1
    OBVIOUS
  <2> QED BY <2>2, <2>3 DEF CallHasConnection
<1> QED
  BY <1>3, <1>4, <1>5, <1>6, <1>7, <1>8 DEF TypeOK, ConnectionFollowsConfiguration, Endpoint, ResponsesExecuted,
     ExecutedSubmitted

\* Reading a field leaves responses of the same commands under way.
LEMMA AdvanceFacts ==
  ASSUME inbox \in Seq(Response), inbox # <<>>
  PROVE  /\ Advance \in Seq(Response)
         /\ ResponsesExecuted => \A i \in 1 .. Len(Advance) : Advance[i].cmd \in executed
<1> DEFINE r == Head(inbox)
           next == [r EXCEPT !.at = @ + 1]
<1>1. r \in Response /\ r = inbox[1] /\ Tail(inbox) \in Seq(Response)
  OBVIOUS
<1>2. \A i \in 1 .. Len(Tail(inbox)) : Tail(inbox)[i] = inbox[i + 1] /\ i + 1 \in 1 .. Len(inbox)
  OBVIOUS
<1>3. CASE r.at < Len(ReceiveFields(Format, r.kind))
  <2>1. Len(ReceiveFields(Format, r.kind)) \in 1 .. 4
    BY FieldCounts
  <2>2. next \in Response /\ next.cmd = r.cmd
    BY <1>1, <1>3, <2>1, NextFieldType
  <2> HIDE DEF next
  <2>3. Advance = <<next>> \o Tail(inbox)
    BY <1>3 DEF Advance, next
  <2>4. Advance \in Seq(Response)
    BY <1>1, <2>2, <2>3
  <2>5. \A i \in 1 .. Len(Advance) : Advance[i] = IF i = 1 THEN next ELSE inbox[i]
    BY <1>1, <1>2, <2>3
  <2>6. Len(Advance) = Len(inbox)
    BY <1>1, <2>3
  <2> QED BY <1>1, <2>2, <2>4, <2>5, <2>6 DEF ResponsesExecuted
<1>4. CASE ~(r.at < Len(ReceiveFields(Format, r.kind)))
  <2>1. Advance = Tail(inbox)
    BY <1>4 DEF Advance
  <2> QED BY <1>1, <1>2, <2>1 DEF ResponsesExecuted
<1> QED BY <1>3, <1>4

\* When one response is under way, what is left of it after the next field.
LEMMA AdvanceOnly ==
  ASSUME NEW x \in Response, inbox = <<x>>, NEW n \in 1 .. 4, n = Len(ReceiveFields(Format, x.kind)), x.at <= n
  PROVE  /\ x.at < n => Advance = <<[x EXCEPT !.at = @ + 1]>> /\ [x EXCEPT !.at = @ + 1] \in Response
         /\ x.at = n => Advance = <<>>
<1>1. Head(inbox) = x /\ Tail(inbox) = <<>> /\ x.at \in 1 .. 4
  BY DEF Response
<1>2. ASSUME x.at < n
      PROVE  Advance = <<[x EXCEPT !.at = @ + 1]>> /\ [x EXCEPT !.at = @ + 1] \in Response
  <2>2. [x EXCEPT !.at = @ + 1] \in Response
    BY <1>2, NextFieldType
  <2>3. Advance = <<[x EXCEPT !.at = @ + 1]>> \o <<>>
    BY <1>1, <1>2 DEF Advance
  <2> QED BY <2>2, <2>3
<1>3. ASSUME x.at = n PROVE Advance = <<>>
  BY <1>1, <1>3 DEF Advance
<1> QED BY <1>2, <1>3

\* A call that goes on to the next field without residue expects it of its own response.
LEMMA ReceiveFieldIInv ==
  ASSUME IInv, ReceiveField
  PROVE  IInv' /\ (~residue' /\ pc' = "receive" => OnlyResponse')
<1> DEFINE r == Head(inbox)
           n == Len(ReceiveFields(Format, kind))
<1>1. inbox \in Seq(Response) /\ inbox # <<>> /\ r \in Response /\ r.cmd \in 1 .. MaxCommand
  <2>1. inbox \in Seq(Response) /\ inbox # <<>>
    BY DEF IInv, TypeOK, ConnectionOK, ReceiveField
  <2>2. r \in Response
    BY <2>1
  <2> QED BY <2>1, <2>2 DEF Response
<1>2. /\ pc = "receive"
      /\ UNCHANGED <<context, config, firstTransmit, conn, peerUp, outbox, kind, cmd, executed>>
      /\ inbox' \in {inbox, Advance}
      /\ ~residue => inbox' = Advance
  BY DEF ReceiveField, contextVars
<1>3. inbox' \in Seq(Response) /\ ResponsesExecuted'
  BY <1>1, <1>2, AdvanceFacts DEF IInv, ResponsesExecuted
<1>4. \/ pc' = "idle" /\ answer' = Error /\ UNCHANGED <<at, nleft>> /\ residue' = TRUE
      \/ at # n /\ pc' = "receive" /\ at' = at + 1 /\ nleft' = FieldSize /\ UNCHANGED <<answer, residue>>
      \/ at = n /\ pc' = "idle" /\ answer' \in {r.cmd, Garbled} /\ UNCHANGED <<at, nleft, residue>>
  BY DEF ReceiveField, StartField, Fail, IsLast
<1>5. at \in 1 .. n /\ n \in 1 .. 4
  BY <1>2, FieldCounts DEF IInv, TypeOK, CallOK, CallHasConnection
<1>6. Format' = Format
  BY <1>2 DEF Format
<1> HIDE DEF n, r
<1>7. TypeOK'
  <2>1. FlagsOK'
    BY <1>2, <1>4 DEF IInv, TypeOK, FlagsOK
  <2>2. CallOK'
    BY <1>1, <1>2, <1>4, <1>5, BoundsFacts DEF IInv, TypeOK, CallOK
  <2>3. ConnectionOK'
    BY <1>2, <1>3 DEF IInv, TypeOK, ConnectionOK
  <2> QED BY <2>1, <2>2, <2>3 DEF TypeOK
<1>8. InStep' /\ (~residue' /\ pc' = "receive" => OnlyResponse')
  <2> SUFFICES ASSUME ~residue'
               PROVE  \/ pc' = "idle" /\ Nothing'
                      \/ pc' = "receive" /\ OnlyResponse'
    BY DEF InStep
  <2>1. ~residue
    BY <1>4
  <2>2. PICK x \in Response : inbox = <<x>> /\ x.cmd = cmd /\ x.kind = kind /\ x.at = at /\ outbox = <<>>
    BY <1>1, <1>2, <2>1 DEF IInv, InStep, Nothing, OnlyCommand, OnlyResponse
  <2>3. /\ at < n => Advance = <<[x EXCEPT !.at = @ + 1]>> /\ [x EXCEPT !.at = @ + 1] \in Response
        /\ at = n => Advance = <<>>
    <3>1. n = Len(ReceiveFields(Format, x.kind)) /\ x.at <= n
      BY <1>5, <2>2 DEF n
    <3> QED BY <1>5, <2>2, <3>1, AdvanceOnly
  <2>4. CASE at < n
    <3>1. pc' = "receive" /\ at' = at + 1
      BY <1>4, <1>5, <2>1, <2>4
    <3>2. [x EXCEPT !.at = @ + 1].cmd = cmd /\ [x EXCEPT !.at = @ + 1].kind = kind /\ [x EXCEPT !.at = @ + 1].at = at + 1
      BY <2>2 DEF Response
    <3> QED BY <1>2, <2>1, <2>2, <2>3, <2>4, <3>1, <3>2 DEF OnlyResponse
  <2>5. CASE at = n
    BY <1>2, <1>4, <2>1, <2>2, <2>3, <2>5 DEF Nothing
  <2> QED BY <1>5, <2>4, <2>5
<1>9. CallHasConnection'
  <2>1. pc' = "receive" => at' <= n
    BY <1>4, <1>5
  <2>2. pc' = "receive" => at' <= Len(ReceiveFields(Format', kind'))
    BY <2>1, <1>2, <1>6 DEF n
  <2> QED BY <1>2, <1>4, <2>2 DEF IInv, CallHasConnection
<1>10. ClosedIsEmpty' /\ PendingOnce' /\ ExecutedSubmitted'
  BY <1>2, <1>4 DEF IInv, ClosedIsEmpty, CallHasConnection, PendingOnce, ExecutedSubmitted
<1>11. ConnectionFollowsConfiguration'
  BY <1>2 DEF IInv, ConnectionFollowsConfiguration, Endpoint
<1> QED
  BY <1>3, <1>7, <1>8, <1>9, <1>10, <1>11 DEF IInv

LEMMA TpmExecutesIInv ==
  ASSUME IInv, TpmExecutes
  PROVE  IInv'
<1> USE DEF IInv, TpmExecutes, contextVars, callVars
<1> DEFINE c == Head(outbox)
<1>1. outbox \in Seq(Command) /\ outbox # <<>> /\ c \in Command /\ c = outbox[1] /\ inbox \in Seq(Response)
  BY DEF TypeOK, ConnectionOK
<1>2. c.cmd \in 1 .. MaxCommand /\ c.kind \in Kinds /\ c.cmd \in 1 .. cmd \ executed
  BY <1>1 DEF Command, PendingOnce
<1>3. PICK r \in Response : /\ r.cmd = c.cmd /\ r.kind = c.kind /\ r.at = 1
                           /\ inbox' = Append(inbox, r)
  BY <1>2 DEF Response
<1>4. inbox' \in Seq(Response) /\ outbox' \in Seq(Command)
  BY <1>1, <1>3
<1>5. TypeOK'
  <2>1. FlagsOK'
    BY DEF TypeOK, FlagsOK
  <2>2. CallOK'
    BY <1>2 DEF TypeOK, CallOK
  <2>3. ConnectionOK'
    BY <1>4 DEF TypeOK, ConnectionOK
  <2> QED BY <2>1, <2>2, <2>3 DEF TypeOK
<1>6. \A i \in 1 .. Len(outbox') : outbox'[i] = outbox[i + 1] /\ i + 1 \in 1 .. Len(outbox)
  BY <1>1
<1>7. PendingOnce'
  <2>1. \A i \in 1 .. Len(outbox') : outbox'[i].cmd \in 1 .. cmd \ executed'
    <3> SUFFICES ASSUME NEW i \in 1 .. Len(outbox') PROVE outbox'[i].cmd \in 1 .. cmd \ executed'
      OBVIOUS
    <3>1. outbox'[i] = outbox[i + 1] /\ i + 1 \in 1 .. Len(outbox) /\ 1 \in 1 .. Len(outbox) /\ 1 < i + 1
      BY <1>1, <1>6
    <3>2. outbox[i + 1].cmd \in 1 .. cmd \ executed /\ outbox[1].cmd < outbox[i + 1].cmd
      BY <3>1 DEF PendingOnce
    <3> QED BY <1>1, <1>2, <3>1, <3>2
  <2>2. ASSUME NEW i \in 1 .. Len(outbox'), NEW j \in 1 .. Len(outbox'), i < j
        PROVE  outbox'[i].cmd < outbox'[j].cmd
    <3>1. i + 1 < j + 1
      BY <2>2, <1>4
    <3> QED BY <1>6, <3>1 DEF PendingOnce
  <2>3. pc' \in {"open", "send"} => \A i \in 1 .. Len(outbox') : outbox'[i].cmd < cmd
    BY <1>6 DEF PendingOnce
  <2> QED BY <2>1, <2>2, <2>3 DEF PendingOnce
<1>8. ResponsesExecuted'
  <2>1. \A i \in 1 .. Len(inbox') : inbox'[i] = IF i = Len(inbox) + 1 THEN r ELSE inbox[i]
    BY <1>1, <1>3
  <2>2. Len(inbox') = Len(inbox) + 1 /\ Len(inbox) \in Nat
    BY <1>1, <1>3
  <2> QED BY <1>3, <2>1, <2>2 DEF ResponsesExecuted
<1>9. InStep'
  <2> SUFFICES ASSUME ~residue PROVE pc' = "receive" /\ OnlyResponse'
    BY DEF InStep
  <2>1. pc = "receive" /\ OnlyCommand
    BY <1>1 DEF InStep, Nothing, OnlyResponse
  <2>2. inbox' = <<r>> /\ outbox' = <<>> /\ r.cmd = cmd /\ r.kind = kind
    BY <1>3, <2>1 DEF OnlyCommand
  <2>3. at = 1
    BY <2>1 DEF OnlyCommand
  <2> QED BY <1>3, <2>1, <2>2, <2>3 DEF OnlyResponse
<1>10. CallHasConnection' /\ ClosedIsEmpty'
  BY <1>1 DEF CallHasConnection, Format, ClosedIsEmpty
<1>11. ExecutedSubmitted'
  <2>1. 1 \in 1 .. Len(outbox)
    BY <1>1
  <2>2. pc \in {"open", "send"} => c.cmd < cmd
    BY <1>1, <2>1 DEF PendingOnce
  <2>3. cmd \notin executed' \/ pc' \notin {"open", "send"}
    BY <1>2, <2>2 DEF ExecutedSubmitted
  <2> QED BY <1>2, <2>3 DEF ExecutedSubmitted
<1> QED
  BY <1>5, <1>7, <1>8, <1>9, <1>10, <1>11 DEF ConnectionFollowsConfiguration, Endpoint

LEMMA DropIInv ==
  ASSUME IInv, Drop
  PROVE  IInv'
<1> USE DEF IInv, Drop, contextVars, callVars
<1>1. inbox' \in Seq(Response) /\ outbox' \in Seq(Command)
  <2>1. inbox \in Seq(Response)
    BY DEF TypeOK, ConnectionOK
  <2>2. inbox' = inbox \/ inbox' = <<>>
    OBVIOUS
  <2>3. outbox' = <<>>
    OBVIOUS
  <2>4. inbox' \in Seq(Response)
    BY <2>1, <2>2, EmptyTypes
  <2> QED BY <2>3, <2>4, EmptyTypes
<1>2. TypeOK'
  BY <1>1 DEF TypeOK, FlagsOK, CallOK, ConnectionOK
<1>3. InStep'
  BY DEF InStep, Nothing, OnlyCommand, OnlyResponse
<1>4. ResponsesExecuted' /\ PendingOnce'
  BY DEF ResponsesExecuted, PendingOnce
<1> QED
  BY <1>2, <1>3, <1>4 DEF ConnectionFollowsConfiguration, Endpoint, CallHasConnection, Format, ClosedIsEmpty,
     ExecutedSubmitted

\* Every step preserves the invariant.
LEMMA StepIInv == IInv /\ [Next]_vars => IInv'
<1> SUFFICES ASSUME IInv, [Next]_vars PROVE IInv'
  OBVIOUS
<1> USE DEF callVars, contextVars
<1>1. ASSUME NEW c \in Config, Create(c) PROVE IInv'
  BY <1>1, CreateIInv
<1>2. CASE Delete
  BY <1>2, CloseIInv DEF Delete, IInv, TypeOK, ConnectionOK
<1>3. ASSUME NEW p \in {"interface", "type", "server", "device"}, NEW v \in {c[p] : c \in Config},
             SetProperty(p, v)
      PROVE  IInv'
  <2>1. config' \in Config
    BY <1>3, ConfigChange DEF SetProperty, IInv, TypeOK, ConnectionOK
  <2>2. context' \in BOOLEAN /\ pc' = "idle" /\ Close /\ answer' = answer /\ UNCHANGED <<kind, at, nleft, cmd, executed>>
    BY <1>3 DEF SetProperty, IInv, TypeOK, FlagsOK
  <2> QED BY <2>1, <2>2, CloseIInv
<1>4. CASE SetPropertyFails
  BY <1>4, CloseIInv DEF SetPropertyFails, IInv, TypeOK, FlagsOK, ConnectionOK
<1>5. CASE ProcessEnds
  BY <1>5, CloseIInv DEF ProcessEnds, IInv, TypeOK, ConnectionOK
<1>6. ASSUME NEW k \in Kinds, Transmit(k) PROVE IInv'
  BY <1>6, TransmitIInv
<1>7. CASE Open
  BY <1>7, OpenIInv
<1>8. CASE OpenFails
  BY <1>8, FailIInv DEF OpenFails, connVars
<1>9. CASE SendPart \/ ReceivePart
  BY <1>9, TransferPartIInv DEF SendPart, ReceivePart
<1>10. CASE SendField
  BY <1>10, SendFieldIInv
<1>11. CASE SendFails
  BY <1>11, FailIInv DEF SendFails
<1>12. CASE ReceiveField
  BY <1>12, ReceiveFieldIInv
<1>13. CASE ReceiveEnd \/ ReceiveFails
  BY <1>13, FailIInv DEF ReceiveEnd, ReceiveFails, ReceiveFailure
<1>14. CASE TpmExecutes
  BY <1>14, TpmExecutesIInv
<1>15. CASE Drop
  BY <1>15, DropIInv
<1>16. CASE UNCHANGED vars
  BY <1>16 DEF vars, connVars, IInv, TypeOK, FlagsOK, CallOK, ConnectionOK, ConnectionFollowsConfiguration,
     Endpoint, CallHasConnection, Format, Supported, ClosedIsEmpty, InStep, Nothing, OnlyCommand, OnlyResponse,
     ResponsesExecuted, PendingOnce, ExecutedSubmitted
<1> QED
  BY <1>1, <1>2, <1>3, <1>4, <1>5, <1>6, <1>7, <1>8, <1>9, <1>10, <1>11, <1>12, <1>13, <1>14, <1>15, <1>16
  DEF Next, CallSteps

LEMMA Invariance == Spec => []IInv
BY InitIInv, StepIInv, PTL DEF Spec

\* The variables keep their types.
THEOREM TypeCorrectness == Spec => []TypeOK
<1>1. IInv => TypeOK
  BY DEF IInv
<1> QED BY <1>1, Invariance, PTL

\* The connection is that of the configuration, whatever property was set, and failed to be set, on the way.
THEOREM ConnectionCorrect == Spec => []ConnectionFollowsConfiguration
<1>1. IInv => ConnectionFollowsConfiguration
  BY DEF IInv
<1> QED BY <1>1, Invariance, PTL

-----------------------------------------------------------------------------
(* Implementation of CommandChannel                                        *)

\* What the abstract channel sees of the call in progress.
Call == IF pc = "idle" THEN NoCall ELSE cmd

channelVars == <<1 .. cmd, Call, executed, answer, residue>>

LEMMA CallFacts ==
  ASSUME IInv
  PROVE  /\ cmd \in Nat
         /\ pc = "idle" => Call = NoCall
         /\ pc # "idle" => Call = cmd /\ Call # NoCall /\ Call \in 1 .. cmd
<1>1. cmd \in 0 .. MaxCommand /\ MaxCommand \in Nat
  BY BoundsFacts DEF IInv, TypeOK, CallOK
<1>2. cmd \in Nat /\ cmd # NoCall
  BY <1>1, MarkerFacts
<1>3. pc # "idle" => cmd > 0
  BY DEF IInv, ExecutedSubmitted
<1> QED BY <1>2, <1>3 DEF Call

LEMMA TransmitRefines ==
  ASSUME IInv, NEW k \in Kinds, Transmit(k)
  PROVE  Channel!Next
<1>1. cmd \in Nat /\ cmd' = cmd + 1 /\ cmd < MaxCommand /\ MaxCommand \in Nat
  BY CallFacts, BoundsFacts DEF Transmit
<1>2. 1 .. cmd' = (1 .. cmd) \union {cmd + 1} /\ cmd + 1 \in 1 .. MaxCommand /\ cmd + 1 \notin 1 .. cmd
  BY <1>1
<1>3. Call = NoCall /\ UNCHANGED <<executed, residue>>
  BY CallFacts DEF Transmit, connVars
<1>4. CASE Supported(k)
  <2>1. Call' = cmd + 1 /\ answer' = answer
    BY <1>1, <1>4 DEF Transmit, StartField, Call
  <2>2. Channel!Submit(cmd + 1)
    BY <1>2, <1>3, <2>1 DEF Channel!Submit, Call
  <2> QED BY <1>2, <2>2 DEF Channel!Next
<1>5. CASE ~Supported(k)
  <2>1. Call' = NoCall /\ answer' = Error
    BY <1>5 DEF Transmit, Fail, Call
  <2>2. Channel!Refuse(cmd + 1)
    BY <1>2, <1>3, <2>1 DEF Channel!Refuse, Call
  <2> QED BY <1>2, <2>2 DEF Channel!Next
<1> QED BY <1>4, <1>5

LEMMA CloseRefines ==
  ASSUME IInv, Close, pc' = "idle", answer' \in {answer, Error}, UNCHANGED <<cmd, executed>>
  PROVE  Channel!Next
<1>1. Channel!Reset
  BY DEF Close, Channel!Reset
<1> QED BY <1>1 DEF Channel!Next

LEMMA FailRefines ==
  ASSUME IInv, pc # "idle", Fail, residue' \in {residue, TRUE}, UNCHANGED <<cmd, executed>>
  PROVE  Channel!Next
<1>1. Channel!Fail
  BY CallFacts DEF Fail, Channel!Fail, Call
<1> QED BY <1>1 DEF Channel!Next

LEMMA ReceiveFieldRefines ==
  ASSUME IInv, ReceiveField
  PROVE  Channel!Next \/ UNCHANGED channelVars
<1> DEFINE r == Head(inbox)
<1>1. pc = "receive" /\ UNCHANGED <<cmd, executed>>
  BY DEF ReceiveField
<1>2. \/ Fail /\ residue' = TRUE
      \/ pc' = "receive" /\ UNCHANGED <<answer, residue>>
      \/ /\ pc' = "idle" /\ UNCHANGED residue
         /\ answer' \in {r.cmd} \union (IF residue THEN {Garbled} ELSE {})
  BY DEF ReceiveField, StartField
<1>3. inbox \in Seq(Response) /\ inbox # <<>>
  BY DEF IInv, TypeOK, ConnectionOK, ReceiveField
<1>4. r.cmd \in executed
  <2>1. r = inbox[1] /\ 1 \in 1 .. Len(inbox)
    BY <1>3
  <2> QED BY <2>1 DEF IInv, ResponsesExecuted
<1>5. ~residue => r.cmd = cmd
  BY <1>1, <1>3 DEF IInv, InStep, Nothing, OnlyCommand, OnlyResponse
<1> HIDE DEF r
<1>6. CASE Fail /\ residue' = TRUE
  BY <1>1, <1>6, FailRefines
<1>7. CASE pc' = "receive" /\ UNCHANGED <<answer, residue>>
  BY <1>1, <1>7 DEF channelVars, Call
<1>8. CASE /\ pc' = "idle" /\ UNCHANGED residue
           /\ answer' \in {r.cmd} \union (IF residue THEN {Garbled} ELSE {})
  <2>1. CASE residue
    <3>1. Channel!ReturnAnother
      BY <1>1, <1>4, <1>8, <2>1, CallFacts DEF Channel!ReturnAnother, Call
    <3> QED BY <3>1 DEF Channel!Next
  <2>2. CASE ~residue
    <3>1. Channel!Return
      BY <1>1, <1>4, <1>5, <1>8, <2>2, CallFacts DEF Channel!Return, Call
    <3> QED BY <3>1 DEF Channel!Next
  <2> QED BY <2>1, <2>2
<1> QED BY <1>2, <1>6, <1>7, <1>8

LEMMA TpmExecutesRefines ==
  ASSUME IInv, TpmExecutes
  PROVE  Channel!Next
<1> DEFINE c == Head(outbox).cmd
<1>1. outbox \in Seq(Command) /\ outbox # <<>>
  BY DEF IInv, TypeOK, ConnectionOK, TpmExecutes
<1>2. Head(outbox) = outbox[1] /\ 1 \in 1 .. Len(outbox) /\ Head(outbox) \in Command
  BY <1>1
<1>3. c \in 1 .. cmd \ executed /\ c \in 1 .. MaxCommand
  BY <1>2 DEF IInv, PendingOnce, Command
<1>4. executed' = executed \union {c} /\ UNCHANGED <<pc, cmd, answer, residue>>
  BY DEF TpmExecutes, callVars
<1> HIDE DEF c
<1>5. Channel!Execute(c)
  BY <1>3, <1>4 DEF Channel!Execute
<1> QED BY <1>3, <1>5 DEF Channel!Next

\* The connection implements the channel: whatever fails, and however the reads and writes are
\* cut, a call returns the response to its own command or an error unless a call failed on
\* this connection before, and no command is executed twice.
THEOREM Refinement == Spec => RefinesChannel
<1>1. Init => Channel!Init
  BY MarkerFacts DEF Init, Channel!Init
<1>2. IInv /\ [Next]_vars => [Channel!Next]_channelVars
  <2> SUFFICES ASSUME IInv, [Next]_vars PROVE Channel!Next \/ UNCHANGED channelVars
    OBVIOUS
  <2> USE DEF callVars, contextVars, connVars
  <2>1. ASSUME NEW c \in Config, Create(c) PROVE UNCHANGED channelVars
    BY <2>1 DEF Create, channelVars, Call
  <2>2. CASE Delete \/ SetPropertyFails \/ ProcessEnds
    BY <2>2, CloseRefines DEF Delete, SetPropertyFails, ProcessEnds
  <2>3. ASSUME NEW p, NEW v, SetProperty(p, v) PROVE Channel!Next
    BY <2>3, CloseRefines DEF SetProperty
  <2>4. ASSUME NEW k \in Kinds, Transmit(k) PROVE Channel!Next
    BY <2>4, TransmitRefines
  <2>5. CASE Open \/ SendPart \/ ReceivePart \/ SendField
    BY <2>5 DEF Open, SendPart, ReceivePart, TransferPart, SendField, MoreToSend, StartField, channelVars, Call
  <2>6. CASE OpenFails \/ SendFails \/ ReceiveEnd \/ ReceiveFails
    BY <2>6, FailRefines DEF OpenFails, SendFails, ReceiveEnd, ReceiveFails, ReceiveFailure
  <2>7. CASE ReceiveField
    BY <2>7, ReceiveFieldRefines
  <2>8. CASE TpmExecutes
    BY <2>8, TpmExecutesRefines
  <2>9. CASE Drop \/ UNCHANGED vars
    BY <2>9 DEF Drop, vars, channelVars, Call
  <2> QED BY <2>1, <2>2, <2>3, <2>4, <2>5, <2>6, <2>7, <2>8, <2>9 DEF Next, CallSteps
<1>3. IInv /\ [Next]_vars => [Channel!Next]_<<1 .. cmd, IF pc = "idle" THEN NoCall ELSE cmd, executed, answer, residue>>
  BY <1>2 DEF channelVars, Call
<1> QED BY <1>1, <1>3, Invariance, PTL DEF Spec, RefinesChannel, Channel!Spec, Channel!vars

-----------------------------------------------------------------------------
(* Progress                                                                *)

\* The parts of a call, in their order.
CallStage == CASE pc = "open" -> 0 [] pc = "send" -> 1 [] pc = "receive" -> 2 [] OTHER -> 3

\* The call goes on to a later part, to a later field, or has fewer bytes of the field left.
CallAdvances ==
  \/ CallStage < CallStage'
  \/ CallStage = CallStage' /\ at < at'
  \/ CallStage = CallStage' /\ at = at' /\ nleft' < nleft

\* A call that waits is owed an answer: its command, whole, is with a server that is up, or the
\* rest of its response is under way, or the server has closed the connection.
AnswerOwed ==
  pc = "receive" /\ ~residue => (peerUp /\ OnlyCommand) \/ OnlyResponse \/ ~peerUp

LEMMA SendFieldOwes ==
  ASSUME IInv, SendField
  PROVE  AnswerOwed'
<1> SUFFICES ASSUME pc' = "receive", ~residue', peerUp' PROVE OnlyCommand'
  BY DEF AnswerOwed
<1>1. /\ UNCHANGED <<peerUp, residue, inbox, kind, cmd>>
      /\ pc = "send" /\ at' = 1 /\ outbox' = Sent(TRUE)
  BY DEF SendField, StartField
<1>2. inbox = <<>> /\ outbox = <<>>
  BY <1>1 DEF IInv, InStep, Nothing
<1>3. outbox' = Append(outbox, [cmd |-> cmd, kind |-> kind, whole |-> TRUE])
  BY <1>1 DEF Sent
<1>4. outbox' = <<[cmd |-> cmd, kind |-> kind, whole |-> TRUE]>>
  BY <1>2, <1>3, AppendToEmpty
<1> QED BY <1>1, <1>2, <1>4 DEF OnlyCommand

LEMMA TpmExecutesOwes ==
  ASSUME IInv, TpmExecutes
  PROVE  AnswerOwed'
<1> SUFFICES ASSUME pc' = "receive", ~residue' PROVE OnlyResponse'
  BY DEF AnswerOwed
<1>1. /\ UNCHANGED <<pc, residue>> /\ outbox # <<>> /\ outbox' = Tail(outbox)
      /\ inbox' # <<>>
  <2>1. inbox \in Seq(Response)
    BY DEF IInv, TypeOK, ConnectionOK
  <2>2. PICK x : inbox' = Append(inbox, x)
    BY DEF TpmExecutes
  <2>3. inbox' # <<>>
    BY <2>1, <2>2
  <2> QED BY <2>3 DEF TpmExecutes, callVars
<1>2. OnlyCommand
  BY <1>1 DEF IInv, InStep, Nothing, OnlyResponse
<1>3. outbox' = <<>>
  BY <1>1, <1>2 DEF OnlyCommand
<1>4. IInv'
  BY TpmExecutesIInv
<1> QED BY <1>1, <1>3, <1>4 DEF IInv, InStep, Nothing, OnlyCommand

LEMMA StepOwes == IInv /\ AnswerOwed /\ [Next]_vars => AnswerOwed'
<1> SUFFICES ASSUME IInv, AnswerOwed, [Next]_vars PROVE AnswerOwed'
  OBVIOUS
<1>1. CASE SendField
  BY <1>1, SendFieldOwes
<1>2. CASE TpmExecutes
  BY <1>2, TpmExecutesOwes
<1>3. CASE ReceiveField
  BY <1>3, ReceiveFieldIInv DEF AnswerOwed
<1>4. CASE Drop
  BY <1>4 DEF Drop, AnswerOwed
<1>5. CASE UNCHANGED <<pc, residue, peerUp, outbox, inbox, cmd, kind, at>>
  BY <1>5 DEF AnswerOwed, OnlyCommand, OnlyResponse
<1>6. CASE pc' # "receive"
  BY <1>6 DEF AnswerOwed
<1>7. \/ SendField \/ TpmExecutes \/ ReceiveField \/ Drop
      \/ UNCHANGED <<pc, residue, peerUp, outbox, inbox, cmd, kind, at>>
      \/ pc' # "receive"
  <2>1. ASSUME NEW c \in Config, Create(c)
        PROVE  UNCHANGED <<pc, residue, peerUp, outbox, inbox, cmd, kind, at>>
    BY <2>1 DEF Create, connVars, callVars
  <2>2. ASSUME NEW p, NEW v, SetProperty(p, v) PROVE pc' # "receive"
    BY <2>2 DEF SetProperty, callVars
  <2>3. CASE Delete \/ SetPropertyFails \/ ProcessEnds
    BY <2>3 DEF Delete, SetPropertyFails, ProcessEnds, callVars
  <2>4. ASSUME NEW k \in Kinds, Transmit(k) PROVE pc' # "receive"
    BY <2>4 DEF Transmit, StartField, Fail
  <2>5. CASE Open \/ OpenFails \/ SendFails \/ ReceiveEnd \/ ReceiveFails
    BY <2>5 DEF Open, StartField, OpenFails, SendFails, ReceiveEnd, ReceiveFails,
       ReceiveFailure, Fail
  <2>6. CASE SendPart \/ ReceivePart
    <3>1. TransferPart /\ pc \in {"send", "receive"}
      BY <2>6 DEF SendPart, ReceivePart
    <3>2. UNCHANGED <<pc, residue, peerUp, outbox, inbox, cmd, kind, at>>
      BY <3>1 DEF TransferPart, connVars
    <3> QED BY <3>2
  <2>7. CASE UNCHANGED vars
    BY <2>7 DEF vars, connVars, callVars
  <2> QED BY <2>1, <2>2, <2>3, <2>4, <2>5, <2>6, <2>7 DEF Next, CallSteps
<1> QED BY <1>1, <1>2, <1>3, <1>4, <1>5, <1>6, <1>7

\* The application and the server never wait for each other on a connection on which no call
\* has failed: a call that has sent its command waits only while the server owes it an answer,
\* and reads no field beyond the last one of its own response.
THEOREM AnswerOwedCorrect == Spec => []AnswerOwed
<1>1. Init => AnswerOwed
  BY DEF Init, AnswerOwed
<1> QED BY <1>1, StepOwes, Invariance, PTL DEF Spec

LEMMA TransferPartAdvances ==
  ASSUME IInv, TransferPart
  PROVE  CallAdvances
<1>1. nleft \in Nat /\ nleft' \in 1 .. nleft - 1 /\ UNCHANGED <<pc, at>>
  BY BoundsFacts DEF TransferPart, IInv, TypeOK, CallOK
<1>2. nleft' < nleft
  BY <1>1
<1> QED BY <1>1, <1>2 DEF CallAdvances, CallStage

\* The loops of a call end, whatever failed before and however the reads and writes are cut:
\* every step of a call goes on to a later part of it, or to a later field, of which there are
\* at most four, or leaves fewer bytes of the field; and nothing but the call moves the call.
THEOREM CallProgress == Spec => [][pc # "idle" => CallAdvances \/ UNCHANGED callVars]_vars
<1>1. IInv /\ [Next]_vars => [pc # "idle" => CallAdvances \/ UNCHANGED callVars]_vars
  <2> SUFFICES ASSUME IInv, Next, pc # "idle"
               PROVE  CallAdvances \/ UNCHANGED callVars
    OBVIOUS
  <2>1. CASE TpmExecutes \/ Drop
    BY <2>1 DEF TpmExecutes, Drop
  <2>2. ASSUME pc' = "idle" PROVE CallAdvances
    <3>1. pc \in {"open", "send", "receive"}
      BY DEF IInv, TypeOK, CallOK
    <3> QED BY <2>2, <3>1 DEF CallAdvances, CallStage
  <2>3. CASE SendPart \/ ReceivePart
    BY <2>3, TransferPartAdvances DEF SendPart, ReceivePart
  <2>4. CASE Open
    BY <2>4 DEF Open, StartField, CallAdvances, CallStage
  <2>5. CASE SendField
    <3>1. at \in Nat /\ pc = "send"
      BY <2>5 DEF SendField, IInv, TypeOK, CallOK
    <3>2. (pc' = "send" /\ at' = at + 1) \/ pc' = "receive"
      BY <2>5 DEF SendField, StartField
    <3> QED BY <3>1, <3>2 DEF CallAdvances, CallStage
  <2>6. CASE ReceiveField
    <3>1. at \in Nat /\ pc = "receive"
      BY <2>6 DEF ReceiveField, IInv, TypeOK, CallOK
    <3>2. (pc' = "receive" /\ at' = at + 1) \/ pc' = "idle"
      BY <2>6 DEF ReceiveField, StartField, Fail
    <3> QED BY <2>2, <3>1, <3>2 DEF CallAdvances, CallStage
  <2>7. ASSUME Delete \/ SetPropertyFails \/ ProcessEnds \/ OpenFails \/ SendFails
               \/ ReceiveEnd \/ ReceiveFails
        PROVE  pc' = "idle"
    BY <2>7 DEF Delete, SetPropertyFails, ProcessEnds, OpenFails, SendFails, ReceiveEnd,
       ReceiveFails, ReceiveFailure, Fail, callVars
  <2>8. \A p, v : ~SetProperty(p, v)
    BY DEF SetProperty
  <2>9. \A k : ~Transmit(k)
    BY DEF Transmit
  <2>10. ASSUME NEW c \in Config, Create(c) PROVE UNCHANGED callVars
    BY <2>10 DEF Create
  <2> QED BY <2>1, <2>2, <2>3, <2>4, <2>5, <2>6, <2>7, <2>8, <2>9, <2>10 DEF Next, CallSteps
<1> QED BY <1>1, Invariance, PTL DEF Spec
=============================================================================
