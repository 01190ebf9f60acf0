---------------------------- MODULE MCTssStreams ----------------------------
(***************************************************************************)
(* The calls TssStreams is checked with: for each of the 109 commands of   *)
(* the table every input value Good and Bad list, every output value they  *)
(* list, lists of sessions, and responses with faults, one of them varied  *)
(* at a time.                                                              *)
(***************************************************************************)
EXTENDS TssStreams, WireFunctions

\* The functions of the TSS.  The bound variables keep what Marshal and Unmarshal are applied to
\* out of Written and Parsed: TLC's coverage would take it apart at each use of a parameter.
MCMarshal(format, value, selector) ==
  LET written[f \in {format}] == Written(f, value, selector) IN written[format]

MCUnmarshal(format, stream, selector) ==
  LET parsed[f \in {format}] == Parsed(f, stream, selector) IN parsed[format]

RECURSIVE Listed(_)
Listed(names) ==
  IF names = {} THEN <<>> ELSE LET n == CHOOSE n \in names : TRUE IN <<n>> \o Listed(names \ {n})

Session(kind, algorithm, decrypt, encrypt) ==
  [kind |-> kind, algorithm |-> algorithm, decrypt |-> decrypt, encrypt |-> encrypt]

Password == Session("pw", "none", FALSE, FALSE)
Plain == Session("hmac", "none", FALSE, FALSE)

\* The handles of a structure, each another number.
RECURSIVE HandleValues(_)
HandleValues(names) ==
  IF names = <<>> THEN <<>> ELSE HandleValues(Front(names)) @@ (Last(names) :> 6 + Len(names))

InValues(entry, Of(_, _)) ==
  LET format == entry.unmarshalIn
      parameters == IF format = NULL THEN <<>> ELSE Of(format.parameters, 0)
  IN  [i \in DOMAIN parameters |-> HandleValues(format.handles) @@ parameters[i]]

\* The selection of a PCR property has PCR_SELECT_MAX bytes in the TPM, and not one of the
\* sizes that are tried: TSS_TPMS_TAGGED_PCR_SELECT_Marshal writes so many whatever the size.
WholeSelections(p) ==
  "capabilityData" \in DOMAIN p /\ p.capabilityData.capability = TPM_CAP.PCR_PROPERTIES
    => \A i \in DOMAIN p.capabilityData.data : p.capabilityData.data[i].sizeofSelect = PCR_SELECT_MAX

OutValues(entry, response, Of(_, _)) ==
  LET format == entry.unmarshalOut
      parameters == IF format = NULL THEN <<>> ELSE Of(format.parameters, 0)
      Writable(p) == Written(response.parameters, p, 0).ok /\ WholeSelections(p)
      writable == SelectSeq(parameters, Writable)
  IN  [i \in DOMAIN writable |-> HandleValues(format.handles) @@ writable[i]]

DefaultSession(entry, response) ==
  Session("hmac", "aes128", FirstIsTpm2b(TpmFormat(entry).parameters.fields),
                            FirstIsTpm2b(response.parameters.fields))

Just(format, selector) == <<Default(format, selector)>>

DefaultCall(command, entry, response) ==
  LET in == InValues(entry, Just)
      out == OutValues(entry, response, Just)
  IN  [command |-> command, faults |-> {"none"},
       sessions |-> <<DefaultSession(entry, response)>>,
       hasIn |-> entry.marshalIn # NULL, inGood |-> TRUE, in |-> IF in = <<>> THEN <<>> ELSE in[1],
       hasOut |-> entry.unmarshalOut # NULL, outGood |-> TRUE, out |-> IF out = <<>> THEN <<>> ELSE out[1]]

Ins(values, c, good) == [i \in DOMAIN values |-> [c EXCEPT !.in = values[i], !.inGood = good]]
Outs(values, c, good) == [i \in DOMAIN values |-> [c EXCEPT !.out = values[i], !.outGood = good]]

Encrypting(a) ==
  <<Session("hmac", a, TRUE, FALSE), Session("hmac", a, FALSE, TRUE), Session("hmac", a, TRUE, TRUE)>>

\* The lists of sessions: every one alone, every pair, and three with one of them last.
Kinds == <<Password, Plain>> \o Encrypting("aes128")

AllLists ==
  <<<<>>>> \o [i \in DOMAIN Kinds |-> <<Kinds[i]>>] \o [i \in 1 .. 3 |-> <<Encrypting("xor")[i]>>]
  \o [i \in 1 .. 3 |-> <<Encrypting("none")[i]>>]
  \o FlattenSeq([i \in DOMAIN Kinds |-> [j \in DOMAIN Kinds |-> <<Kinds[i], Kinds[j]>>]])
  \o [i \in DOMAIN Kinds |-> <<Plain, Kinds[3], Kinds[i]>>]

InOrderLists == SelectSeq(AllLists, InOrder)

WithSessions(lists, c) == [i \in DOMAIN lists |-> [c EXCEPT !.sessions = lists[i]]]

\* The structure missing, or one too many.
WrongStructures(c) ==
  <<[c EXCEPT !.hasIn = ~@, !.inGood = FALSE], [c EXCEPT !.hasOut = ~@, !.outGood = FALSE]>>

AllFaults == {"trailing", "untagged", "missing", "surplus"}

Variations(c, entry, response, lists) ==
  <<[c EXCEPT !.faults = AllFaults]>>
  \o Ins(InValues(entry, Good), c, TRUE) \o Ins(InValues(entry, Bad), c, FALSE)
  \o Outs(OutValues(entry, response, Good), c, TRUE)
  \o Outs(OutValues(entry, response, Bad), c, FALSE)
  \o WithSessions(lists, c) \o WrongStructures(c)

CallsOf(command, entry, response, lists) ==
  Variations(DefaultCall(command, entry, response), entry, response, lists)

AllCalls ==
  LET c == Listed(DOMAIN TPM_CC)
  IN  FlattenSeq([i \in DOMAIN c |->
        CallsOf(c[i], TSS_MarshalTable_Process[c[i]], TpmResponse[c[i]], InOrderLists)])
MCCalls == AllCalls

\* A few commands with every list of sessions.
SomeCalls ==
  LET c == <<"Create", "Unseal", "NV_Write", "HMAC">>
      OfCommand(i) == DefaultCall(c[i], TSS_MarshalTable_Process[c[i]], TpmResponse[c[i]])
  IN  FlattenSeq([i \in DOMAIN c |-> WithSessions(AllLists, OfCommand(i))])
MixedCalls == SomeCalls

\* The structures that both a function of tssmarshal.c writes and one of Unmarshal.c reads.
Structures ==
  <<<<TSS_TPM2B_ECC_POINT_Marshal, TPM2B_ECC_POINT_Unmarshal>>,
    <<TSS_TPM2B_ENCRYPTED_SECRET_Marshal, TPM2B_ENCRYPTED_SECRET_Unmarshal>>,
    <<TSS_TPM2B_ID_OBJECT_Marshal, TPM2B_ID_OBJECT_Unmarshal>>,
    <<TSS_TPM2B_PRIVATE_Marshal, TPM2B_PRIVATE_Unmarshal>>,
    <<TSS_TPM2B_PUBLIC_Marshal, TPM2B_PUBLIC_Unmarshal(FALSE)>>,
    <<TSS_TPMS_CONTEXT_Marshal, TPMS_CONTEXT_Unmarshal>>,
    <<TSS_TPMS_NV_PUBLIC_Marshal, TPMS_NV_PUBLIC_Unmarshal>>,
    <<TSS_TPMT_SIGNATURE_Marshal, TPMT_SIGNATURE_Unmarshal(FALSE)>>,
    <<TSS_TPMT_TK_AUTH_Marshal, TPMT_TK_AUTH_Unmarshal>>,
    <<TSS_TPMT_TK_CREATION_Marshal, TPMT_TK_CREATION_Unmarshal>>,
    <<TSS_TPMT_TK_HASHCHECK_Marshal, TPMT_TK_HASHCHECK_Unmarshal>>,
    <<TSS_TPMT_TK_VERIFIED_Marshal, TPMT_TK_VERIFIED_Unmarshal>>>>

FilesOf(marshal, unmarshal) ==
  LET values == Good(unmarshal, 0)
  IN  [i \in DOMAIN values |-> [marshal |-> marshal, unmarshal |-> unmarshal, value |-> values[i]]]

AllFiles == FlattenSeq([i \in DOMAIN Structures |-> FilesOf(Structures[i][1], Structures[i][2])])
MCFiles == AllFiles
NoFiles == <<>>

=============================================================================
