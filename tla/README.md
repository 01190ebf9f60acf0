# Verification of the IBM TPM 2.0 TSS

TLA+ models of the TSS library and of the command line programs in `src/utils`,
checked with TLC and proved with TLAPS. The library turns a C structure into a TPM 2.0
command, sends it, and turns the response back. Three things are hard about it: the *state it
keeps between commands*, which must follow a TPM that it cannot roll back; the *connection*,
on which a call that failed leaves something behind; and the *two translations* of some 200
structures, one in `tssmarshal.c` and one in `Unmarshal.c`, which must agree.

## The system

| Part | Code | State | Operations | What makes it correct | |
|---|---|---|---|---|---|
| Command execution | `tss.c` `TSS_Execute`, steps 1-13 | up to `MAX_SESSION_NUM` session contexts in memory | one command: load sessions, authorize, transmit, verify, save sessions, post-process | every step either completes or leaves state that a later command detects | partly |
| Sessions | `tss.c` 985-1507, 2439-2954 | `h<handle>.bin` per session: nonces, session key, bind entity, policy flags | start, use, policy commands, flush | both copies of a session roll in step; an HMAC is the one the TPM expects | partly |
| Objects | `tss.c` 1516-2205, 4055-4508 | `h<handle>.bin` (Name), `hp<handle>.bin` (public area), the same under the digest of a context blob | load, create, read public, sequences, context save and load, evict, flush | a handle's Name and public area are those of the object at that handle | modelled |
| NV indexes | `tss.c` 2212-2433, 4510-4799 | `h<index>.bin` (Name), `nvp<index>.bin` (public area) | define, read public, write, lock, undefine | the Name follows the attribute bits that the TPM sets | modelled |
| Retained state without files | `tss.c` under `TPM_TSS_NOFILE`, `tssproperties.[ch]` | three arrays of slots in the context | find a slot, store, free | a map with room for so many handles; no slot lost or split | modelled |
| Files | `tssfile.c` | the data directory | read, write (truncates first), delete | a failure is reported | partly |
| Context, properties | `tss.c` 549-664, `tssproperties.c` | configuration, first-call flag, keys | create, delete, set property | a changed property closes the connection | partly |
| Transport | `tsstransmit.c`, `tsssocket.c`, `tssdev.c` | descriptor, first-transmit flag | open on first use, send, receive, close | a response belongs to the command just sent | modelled |
| Streams | `tssauth.c` | command and response buffers | marshal, check ranges, insert authorizations, find parameters | lengths and offsets agree | modelled |
| Parameter encryption | `tss.c` 2961-3545 | `sessionValue`, two nonces | encrypt first command parameter, decrypt first response parameter | done exactly when the attribute is sent | partly |
| Marshaling | `tssmarshal.c`, `Unmarshal.c`, `Commands.c`, the types in `tss2/` | none | one function per structure, two per command | what one writes the other reads | partly |
| Command tables | `CommandAttributeData.c`, `tssccattributes.c`, the table in `tssauth.c` | none | look up a command | handles, roles and functions are those of the command | modelled |
| Single-command programs | some 90 `main()`s, `objecttemplates.c` | none of their own | options, one command, output files | no field left unassigned, no error forgotten but for those named below | partly |
| Programs of several commands | `signapp.c`, `writeapp.c`, `createek.c`, `ekutils.c`, `imaextend.c`, `eventextend.c`, ... | handles of what they made | a sequence of commands and its clean-up | every way out tries to remove what was made; a success means that it is gone, but for those named below | modelled |
| NV and random transfers | `nvread.c`, `nvwrite.c`, `getrandom.c`, `ekutils.c` `readNvBufferMax` | count of the bytes moved | chunks until all is moved | every byte once and in order, and an end | modelled |
| TPM | not in the repository | | | external | partly |
| Cryptography | `tsscrypto*.c`, `cryptoutils.c` | none | wrappers of OpenSSL | pure functions | not modelled |
| Event logs | `eventlib.c`, `imalib.c` | none | parse, print, simulate PCRs | pure functions | not modelled |
| Policy tools, messages | `policymaker*.c`, `tssresponsecode.c`, `tssprint*.c` | none | offline calculations, texts | pure functions | not modelled |
| Platform and demo | Windows TBS, `ntc2*`, `demo/` | | | not the TSS's own logic | not modelled |

The parts interact by calls, in one thread: a program fills the input structure of a command and
calls `TSS_Execute`, which marshals it (streams), calls the session code around
`TSS_AuthExecute`, encrypts a parameter, transmits, takes the response apart, and calls the
post processor of the command (the table at `tss.c:246`), which writes Names and public areas.
Sessions, objects and NV indexes share the data
directory. The programs are separate processes, so *every command reads its state
from files and writes it back*, and a process can die at any point. Hard
behaviours are therefore: a failure between what the TPM did and what the
TSS saved; two files written one after the other; a handle that the TPM
reuses; state in the TPM that the TSS is not told of; two processes on one
directory; connections that fail half way; bytes that are moved in place between two
calls that count them; numbers that wrap; and long programs whose clean-up runs whatever failed,
fails unseen, or has lost the handle of what it should remove.

## Modules

| Module | Models | Abstracts |
|---|---|---|
| `TssSession` | `TSS_Execute` around sessions: `Begin*` (steps 1-7), `TpmExecute` (step 8), `ReceiveResponse` (9-11), `ContinueSession` (12, once per session), `PostProcess`; `TpmReject`, `ResponseFails`, `StoreFails` are what can go wrong in between | HMACs to their kind, the authValue in the key and the nonce; all other nonces and hashes left out |
| `TssObjects` | the post processors of objects: the TPM's execution is one action per command, then `StoreName` and `StorePublic` | an object *is* its public area and its Name |
| `TssNv` | the post processors of NV indexes | a public area is its definition and three attribute bits, and is its own Name |
| `TssNoFile` | the slot arrays of a build without files | session contexts and Names are values |
| `HandleStore` | what `TssNoFile` promises: a partial map with limited room | |
| `TssTransmit` | the connection of a context: `Transmit`, `Open`, `SendPart`/`SendField`, `ReceivePart`/`ReceiveField`/`ReceiveEnd` and the failure of each, `SetProperty`, `Create`, `Delete`; the server executes, drops, closes | bytes are counted only within a field; a command is a number |
| `CommandChannel` | what `TssTransmit` promises: a command executed at most once, its own response or an error, until a call has failed on the connection | |
| `Wire` | streams, how they are joined, cut and read; formats | a stream is a set of chunks with a place and a number each, not of bytes; buffers are a length |
| `WireFunctions` | what marshaling and unmarshaling do with a format: `Written`, `Parsed`, and its boundary values `Good` and `Bad` | |
| `TpmTypes`, `Unmarshal` | constants; the limits of each structure, as `Unmarshal.c` checks them | |
| `TssMarshal` | what `tssmarshal.c` writes of each structure | |
| `TssInMarshal`, `Commands` | the input of each command, as it is marshaled and as it is checked | |
| `TssOutUnmarshal`, `CommandResponses` | the output of each command, as it is unmarshaled and as the headers declare it | |
| `MarshalTable`, `CommandAttributes` | the two tables by command | |
| `TssStreams` | one command: `TSS_Marshal` with its range check, `TSS_Command_Decrypt`, `TSS_SetCmdAuths`, the external TPM, `TSS_GetRspAuths`, `TSS_Response_Encrypt`, `TSS_Unmarshal`; and a structure through a file | a session is its kind, its algorithm and two attributes; encryption is a key on a chunk |
| `TssTransfers` | `nvread`, `nvwrite`, `getrandom` and `readNvBufferMax`, one pass of a loop per action | a byte is its position in the data |
| `UtilityPrograms` | the language the programs are written in: groups of options, checks, assignments, calls, output files | |
| `ObjectTemplates`, `UtilityKeys`, `UtilityCrypto`, `UtilityNv`, `UtilityPolicy` | `objecttemplates.c` and 89 `main()`s of one command | values of fields: only whether a field was assigned, and selectors of unions |
| `UtilityApplications` | eight programs of several commands | loops over chunks and log entries: repeated any number of times |
| `TssUtilities` | a run of one program, statement by statement. Every call may fail, a command before or after the TPM has executed it (`CommandFails`), a removal without the program's notice (`CleanUp`) | what a single command is for is not tracked: only what the programs of several commands make and remove |
| `UtilityInputs` | which fields a command reads, by the formats of the library | |
| `UtilityDiscipline` | what the text of a program must keep to, instruction by instruction: the assertions that its proof rests on | |
| `MC*` | the instances for TLC, with symmetry | |
| `*_proofs` | theorems about the module of that name | |

`TssStreams` composes `Wire`, the format modules and the tables. What a marshaling and an unmarshaling function do
is its constants `Marshal` and `Unmarshal`, since they are recursive over formats, of which the prover knows
nothing: the runs give them `Written` and `Parsed`, the theorems hold for any that agree. `TssUtilities` composes the
programs with the attribute table of the library, `UtilityInputs` with its formats: whether a structure
is complete is asked of the format that `TSS_Execute` would marshal it with. A program is a sequence of
instructions with jumps, made of the `if`s, loops and switches of its `main()` once (`When`, `Repeat`,
`Switch`), so that a step of a run is a change of `at` and the text can be reasoned about.

How state corresponds: `file`, `nameFile`, `publicFile` and `nvpFile` are the
files in the data directory, with a value for "no such file" and one for a file that a failed write left
torn (`TSS_File_WriteBinaryFile` truncates before it writes); `slots` are the three arrays;
`pc` and `cmd` are where `TSS_Execute` or the post processor is and with what
parameters; `mem` is `session[]`; `conn` is `sock_fd` or `dev_fd` with what it is connected to;
`commandBuffer` and `cpBuffer` are the stream of `tssAuthContext` and the parameters in it;
`at` is the next instruction of a program, `pending` and `given` are its options, `assigned` is what it has
put into its input structure. What it has made in the TPM is told apart by the variable with the handle:
`held` is what it has not tried to remove, `unremoved` what is still there after it has, and `lost` what no variable names
any more, because a command failed after the TPM had executed it or the variable was assigned again.
Variables named *external* (`tpm`, `authValue`, `saved`, `outbox`, `inbox`, ...)
are the TPM, modelled only as far as the TSS mirrors it. Variables named *auxiliary*
(`lost`, `restarted`, `stale`, `failed`, `unsaved`, `residue`) are read by no guard of the code's:
they record which handle or connection a fault or an unannounced change of the TPM has hit, so that
properties can say that *only* those may disagree. In `TssObjects` `lost` spreads with a
copy (`TSS_Name_Copy` copies whatever is there), as the code does.

Assumptions about what surrounds the code:

- The TPM answers one command at a time, and a command it rejects changes nothing.
- A bind match is by Name, as `TSS_HmacSession_SetHmacKey` decides it, and the Name of a handle is not stale (plan, 2); at most one
  session of a command audits; a policy session with a flag set only authorizes an
  entity; the target of a policy command is not also one of its sessions. Trial sessions are left out.
- Applications pass the right password. (A wrong one is `TpmReject`.) A change of
  authValue changes it.
- Passwords authorize the commands in `TssObjects` and `TssNv`, so they need no Name to
  succeed: that the Names are right is the property, not a precondition.
- A context blob is different from every other, and so is its digest. At most one half of a
  `ReadPublic` response is altered on its way.
- NV definitions are those that `TSS_PR_NV_DefineSpace` lets pass.
- In a build without files one command is one step: nothing survives the process.
  Which free slot a new handle gets is left open.
- A server answers in the format it speaks; a response may have a size that is not the one
  announced, but never one below its header (`tsssocket.c:454` would take a response code from
  bytes it has not read).
- The TPM in `TssStreams` reads a command as the library specification says: a parameter area
  that follows the formats of `Commands.c`, and authorizations in the number its attributes ask for.
- A TPM refuses a parameter to be encrypted in a session without a symmetric algorithm. What `TSS_Response_Encrypt` does
  for one (`tss.c:3353`) is in the model and cannot be reached with such a TPM.
- A string that `nvwrite -ic` copies beyond its structure (`nvwrite.c:312`, when the chunk size was never assigned) may end the
  program; if it does not, it leaves the other variables of `main` as they are.
- A removal that `TSS_Execute` reports as failed has or has not been executed; so has any other command. A handle that could not
  be removed stays until a later call removes it.
- A program's `-se` options have their defaults, so that the number and the order of its sessions
  are its own. What an option leaves in a variable is chosen where the program first
  looks at it, but for the few on which it depends which commands are sent and what they make (`Deciding`),
  which are chosen at the start; the two orders come to the same, as the option loop has ended by then.

**Fairness.** Sessions, objects, NV and slots are safety only: the code has no
background work, and nothing obliges an application to send a next command. Two modules have
something that must end. In `TssTransmit` a call's own steps, the server's execution of a whole
command and its dropping of nonsense are weakly fair: a process that is scheduled goes on, and a
server answers what it understands and closes what it does not. No fairness makes a
failing system call succeed. In `TssTransfers` the program's steps are weakly fair, and
`getrandom_Progress` is strongly fair: the TPM does not return zero bytes for ever, without which
the loop of `getrandom.c` has no end. That a command fails is never relied upon.

## Runs

| Run | Instance | Shows |
|---|---|---|
| `session` | 2 handles, 1 entity, 2 authValues, 3 kinds of session, 3 nonces | `SavedSessionAgrees`, `SavedFlagsAgree`: saved sessions and the TPM's agree except where a fault hit; `SentCommandIsAuthorized`, `GenuineResponseVerifies`: no HMAC computed from healthy sessions is refused, in either direction |
| `session_restart` | 1 handle | violated: after `TPM2_PolicyRestart` the saved flags are still set |
| `objects` | 1 transient and 1 persistent handle, 1 context, 2 objects | `LoadedNamesAgree`, `ContextNamesAgree`: Name and public area follow the object; `NothingLeftBehind`: a released handle leaves no file; `HealthyCommandSucceeds`: no post processor fails for want of its source |
| `objects_sequence` | the same | violated: the context of a sequence object cannot be saved |
| `nv` | 1 index, 2 definitions, 3 bits | `NvNamesAgree`: the saved Name is the TPM's; `UndefinedLeavesNothing`; `HealthyUpdateFollows`: an update finds the public area as the TPM had it |
| `nv_update` | the same | violated: after a failed update a stale Name can stay |
| `nofile` | 2 slots, 3 objects, 1 session, 2 values | `HandlesAreUnique`, `SlotsFollowTpm`, and `RefinesHandleStore`: the arrays implement `HandleStore` |
| `transmit` | a simulator, a raw server, a device; 3 commands; fields of 2 bytes | `ConnectionFollowsConfiguration`: no connection outlives the properties it was opened with; `RefinesChannel`: the transport implements `CommandChannel`; `EveryCallReturns`: no call hangs, unless one failed before on the connection |
| `streams` | 109 commands, boundary values of every parameter, lists of up to 3 sessions, 4 malformed responses | `RangeCheckIsExact`: a command is refused if and only if a parameter is outside its limits; `TpmReceivesTheCommand`, `ApplicationReceivesTheResponse`: both ends get what the other gave; `DecryptSessionEncrypts`: nothing meant to be encrypted is sent in the clear; `StructureReadsBack`: a file is read as it was written, and of each call, its authorizations and its response the writing and the reading functions agree, which the theorems start from |
| `streams_password` | 4 commands, every list of sessions | violated: a decrypt session after a password session does not encrypt |
| `transfers` | words of 4 bits, an index of 9 bytes, chunks of 2 and of 8 bytes and 9 values of one never assigned, 8 lengths, 4 offsets | `ReadBufferIsAPrefix`, `IndexHoldsAPrefix`: bytes move in order and once, whatever fails; `RandomBufferIsNotOverrun`; `FailureStopsTheTransfer`; `TransfersEnd` |
| `utilities` | 97 programs | `InputsComplete`: no byte of a command comes from an unassigned field; `HandlesFit`: the sessions are those the command table wants, and exist; `EverythingReleased`: on every way out the context is deleted and the removal of all that was made and has a handle was tried; `SuccessMeansDone`: a success hides no failure and nothing left behind, but for the programs named below; `StartsDisciplined`: their texts satisfy the hypothesis of the theorems |

Why these bounds are enough to be interesting. Two sessions make every command
with several sessions possible, and a partial save (step 12 stops at the
first error) needs two; three nonces give start, use, use again. One entity
suffices to be, and not to be, the bind entity. One transient
handle is reused by both objects, one context is filled from it while
it moves on, and the persistent handle is filled and emptied: every pair of
places a copy connects is there, and what happens at one place depends on others only through a copy. NV indexes do not interact at all. Three
objects and two slots let an array be full, with a handle that is in it and one that is
not; the three arrays do not interact, so that the instance exercises objects
fully, sessions with one handle, and leaves the NV array, which only `StoreNameAndPublic` and
`Release` touch as they touch the objects, to the theorems, which hold for all handles and sizes.
Fields of two bytes are the least that can be transferred in part; three commands are one that
fails, the one that meets its remains, and one after. In the streams one thing is varied at a
time from a default call, since parameters do not interact: each boundary of each field of each
structure that a command reaches, each selector of each union, each list of sessions. An index of nine bytes
with the space for the eight of `-id` takes four chunks of two bytes and a part of one, or one of eight and a part; a chunk size that was never
assigned is nothing, within the structure, beyond it, and beyond a word; the lengths are zero, one, around a chunk, around the index, and
beyond what a word holds. The programs are run whole, with every combination of options that their statements tell apart.

The bounds inside actions are `MaxNonce` (`TpmExecute` of `TssSession`), which limits how many
commands the TPM executes and not how they fail, and `MaxCommand` (`Transmit` of `TssTransmit`);
the number of commands a program has sent saturates at two. Deadlock is checked in all runs but `transfers`, whose
programs end. Every property is paired with a plausible error in the code
(the operators marked *Mutant*) under which TLC finds it violated.

### What the violated runs say

1. `TPM2_PolicyRestart` (`tss.c:254`) has no post processor. A session on which
   `TPM2_PolicyAuthValue` or `TPM2_PolicyPassword` was executed and which is then restarted is
   authorized with an HMAC key or password that the TPM does not ask for.
2. `TSS_PO_ContextSave` (`tss.c:4098`) copies a public area that a sequence
   object never had; the command reports an error after the TPM has succeeded, though the
   comment at `tss.c:4071` means sequence objects to be handled.
3. `TSS_PO_NV_Write`, `_WriteLock` and `_ReadLock` test an attribute bit of a structure that
   is uninitialized when `TSS_NVPublic_Load` failed (`tss.c:4665`); with the bit
   set, the deletion promised by the comment at `tss.c:4681` does not happen.
4. `TSS_Sessions_GetDecryptSession` (`tss.c:2973`) ends its search at the first password session:
   a decrypt session after it is not found and the first parameter is sent in the clear, though the
   comment at `tss.c:3033` speaks of any session.

### What the passing runs say with an exception

Some properties that hold name what they except, and the exception is then an observation:

- `FailureStopsTheTransfer`: `nvwrite` with `-if` or `-ic` sets `rc` anew when it reads its data
  (`nvwrite.c:297`, `312`), so a `TSS_Create` or `readNvBufferMax` that failed is forgotten; the loop
  then has no context, or a chunk size that was never assigned. `TransfersEnd` excepts the latter too, as it may be zero. What is written is
  right all the same (`IndexHoldsAPrefix`, for any value): `TSS_TPM2B_Create` refuses a chunk of a file that is more than
  `MAX_NV_BUFFER_SIZE` (`nvwrite.c:331`), marshaling a string that is.
- `EverythingReleased`: what the programs owe is the attempt. A session, key or index is still there when its removal fails, and
  nothing tries again; and it is there, without a name, when `TSS_Execute` fails after the TPM has executed the command that
  made it and the handle is not assigned (`loadKey`, `signapp.c:693`; `processCreatePrimary`, `ekutils.c:1110`).
  `startSession` assigns its result also after a failed command: it is then the session, what was
  in the variable before, or bytes that were never assigned. `writeapp` flushes its salt session, starts another in the same
  variable, and if that flush failed the first has no name any more. `signapp` and `writeapp` flush whatever failed
  before, after a failed `TSS_Create` with a null context (`signapp.c:371`; the exit "crash"). `signapp` flushes a key handle that
  was never assigned if the key was not made. `writeapp` undefines its index even if it had been defined before.
- `SuccessMeansDone`: `signapp` and `writeapp` throw away the results of `flush()` and `undefineSpace()` (`signapp.c:371` to `382`,
  `writeapp.c:165`, `205` to `213`). A removal that fails leaves a session, a key or the index in the TPM, `rc` is 0 and the program
  prints that it succeeded (`IgnoreErrors`). The first of them normally fails, as the comment at `signapp.c:369` says, since signing
  did not continue the policy session, and the program does not tell one failure from the other. Every other failure of a
  program of several commands, with a handle lost or not, is an error of the program.
- `SuccessMeansDone`, further: `createek` returns the response code itself, which a shell sees modulo 256,
  so that `TPM_RC_INITIALIZE` (0x100) looks like success. `verifysignature` with `-ipem` alone runs no command.
  `pcrevent` and `eventsequencecomplete` write a file for each bank of PCRs and assign `rc` each time without
  looking at it (`pcrevent.c:206`): a file that could not be written is covered by the next that could.
- `RefinesChannel` and `EveryCallReturns`: after a failed call the connection stays open with what
  was under way (`residue`), and the next call may get another command's response.
- In `createek`, a handle error of `TPM2_NV_Read` is taken for a missing nonce when the buffer has
  already been allocated, and the nonce is then used uninitialized.

The streams show, without a property against it: a response without sessions that has bytes after its
parameters is accepted; a missing `out` structure, or one the command does not have, is found out
after the TPM has executed; `encryptSize` is compared after the execution as well; an AES session
of 256 bits is used with 128 (`tss.c:3274` and `3525`); and `TSS_TPMS_TAGGED_PCR_SELECT_Marshal`
writes `PCR_SELECT_MAX` bytes whatever `sizeofSelect` is.

## Proofs

For any sets of handles, entities, objects, indexes, definitions, values, servers and devices, any
`MaxNonce`, `SlotCount`, `FieldSize`, `MaxCommand`, and any word, index and chunk size (the assumption
`ConstantsAssumption` of each module says that markers such as "no such file" differ from real
values, and that sizes are numbers):

- `TssSession_proofs`: all five properties of the run. The saved sessions agree
  *between* commands; in the middle of one they do not. The inductive invariant adds what holds meanwhile: before
  the TPM executes, the contexts in memory are those on file; after, every session in `todo`
  has in memory what the TPM had before, or has now once the response is processed, and
  the sessions that are not part of the command are untouched. The keys of command
  and response then agree because both sides apply the same rule to the same session.
  `SavesAreNewer` is about the sessions the invariants leave out, those that a fault hit, as well: no save
  takes a session file back to an earlier nonce. `RollInv` says which files are due for the nonce of the
  response and that they are older.
  `LostSessionsStayRefused` is the converse of `SentCommandIsAuthorized`, which promises nothing for a session that a
  fault hit: the TPM never accepts a command with such an HMAC session, and an accepted one is the TPM's
  in type, session key, bind entity and nonce, so that no parameter is decrypted with another key than it was encrypted
  with. `LostInv` gives the reason: the nonce on file is older than the TPM's, and no post processor can
  mend that, since the sessions that are due for the nonce of a response are not `lost`, and a policy command, which
  also rewrites a session file, has no HMAC session to change. A policy session without an authValue sends no HMAC
  and is not part of the theorem.
- `TssObjects_proofs`: all properties of the run. `InFlight` says what the first half of a
  post processor has done and that its source is intact, `ContextsFiled` that a context also has
  the Name of a sequence object saved in it.
- `TssNv_proofs`: all properties of the run. `InFlight` says, for each step, which file has
  been written and that the remaining write will make the two agree, also when the TPM changes
  the index while the post processor is running (it is then stale).
- `TssNoFile_proofs`: all properties of the run. `StoreFacts` and `DeleteFacts` reduce both the invariants and
  the refinement to one changed slot. That a store is refused only when the map is full counts the
  retained handles: finding the slot of a handle is an injection into the slots, and onto
  them when none is free. It needs `KindsMatch`: an array holds handles of its kind only.
  `RefusedStores` says of the TPM what the refinement says of the map: however many sessions, objects and indexes
  come and go, a store is refused only while more handles of that kind than there are slots ask for one, because the
  TPM has them or because the TSS was not told that it dropped them. By `SlotsFollowTpm` each of the `SlotCount`
  retained handles asks, and the refused one is not among them. The theorem alone assumes that there are
  finitely many handles, which are 32 bit numbers in the code, since the cardinality of an infinite set is not known.
- `TssTransmit_proofs`: the safety of the run. `InStep` says that on a connection without
  residue there is nothing, or the command of the call waiting to be executed, or its response read
  up to the field expected next; `PendingOnce` that a command under way has not been executed and is
  there once. With residue anything may be there, but still no command twice and no response to one
  that was not executed. Two more theorems are what `EveryCallReturns` rests on, for fields and
  commands of any number. `AnswerOwedCorrect`: a call that waits, on a connection without residue, is owed an
  answer, so that application and server never wait for each other. `CallProgress`: every step of a call
  leads to a later part of it, a later field or fewer bytes of the field, and nothing else moves the call. That each
  of these steps is in the end taken is the fairness of `FairSpec`, and only TLC puts the three together.
- `TssTransfers_proofs`: all safety properties of the run. `ReadInv` and `WriteInv` say that the bytes
  moved so far fit a word and, once there are any, the index: only because the TPM refuses what lies beyond
  the index does the 16 bit count of `nvwrite` not wrap under a longer file. `ProgressCorrect` is the safe half of
  `TransfersEnd`: every step of a program leads to a later part of its main function, or is a pass that moves at
  least a byte and leaves some to move, so that there are no more passes than bytes. It names the exceptions: a
  TPM that returns no byte that counts to `getrandom`, and `nvwrite -if` with a chunk size that was never assigned
  because the failure to read it was forgotten, which may be zero for ever.

- `TssUtilities_proofs`: the safety of the run but for `InputsComplete`, for any set of programs that keep to
  `Disciplined`, any options they have, and a failure of any of their calls, a command before or after the TPM has executed it and a removal
  without the program's notice. The argument is Floyd's. An
  instruction of a program has an assertion that is read off its text: whether the options let it be reached
  (`Reach`), whether something may have failed before (`Failed`), whether a context is there unless something has
  (`Opened`), whether a command may have been sent (`Sent`) or must have been (`Done`), which handles may,
  must and will be held (`MayBeHeld`, `MustBeHeld`, `WillBeReleased`). `Disciplined` says that each
  instruction leads from its assertion to that of every instruction it may be followed by: when it succeeds
  (`Continues`), when it fails (`Fails`), and when an error is passed on (`Passes`). It mentions no state. The inductive
  invariant `IInv` says that the assertion of the next instruction holds. `StepMoves` shows that every step of
  every action follows one of the three; then each part of the assertion has its lemma. What it rests on is the one
  thing a test hardly reaches: that an error is passed over exactly the statements under `if (rc == 0)`. The
  same assertion bounds what a program does after the first failed call whose result it looks at: `FailureStopsProgram` shows that it sends no
  command of its own any more, makes nothing in the TPM, loses no handle of what it made and opens no context; it only flushes and deletes. A removal
  whose result is thrown away is not such a call: `writeapp` goes on after a flush of its salt session that failed (`writeapp.c:165`).
  What is left in the TPM (`unremoved`, `lost`) has two sources, removals without notice and commands that fail after they were
  executed; the second is an error of the program, and the first is only in a program of `IgnoreErrors`, so that `SuccessCorrect` holds. That
  the 97 programs are disciplined is a finite fact about their texts, which TLC evaluates (`StartsDisciplined`), so
  that the hypothesis is met; the theorems then do not depend on how a run explores them.

- `TssStreams_proofs`: the safety of the run but for `RangeCheckIsExact` and `StructureReadsBack`, for any
  functions `Marshal` and `Unmarshal`, any calls with any lists of sessions (`CallsAssumption` only gives
  them their types), and any responses. What they are proved from is `[]StructureReadsBack`: for a
  command that is about to be encrypted, the functions of the structures agree (`ReadsBack`), which is a fact about
  formats and their values and says nothing of how the streams are put together; TLC checks it for every format in
  the run. The argument then is about the streams alone. Lemmas on streams come first: what
  joins, is cut and is read back (`SkipFirst`, `PrefixFirst`, `ReadChunk`, `ConcatAssociates`), and that encrypting
  twice with one key gives back the bytes, in the middle of a stream too (`EncipherTwice`, `EncipherFramed`). The
  inductive invariant `IInv` says what the command buffer is after each step (`SentStream`: header, handles, the
  authorizations with their size once they are inserted, and the parameters, enciphered once they are), and
  where `cpBuffer` points in it. From it follow the types and `DecryptSessionEncrypts`. `RInv` says what the
  TPM has taken, and what the response buffer is until it is unmarshaled (`ResponseStream`); with it
  come `TpmReceivesTheCommand` and `ApplicationReceivesTheResponse`. Both are proved for calls whose sessions are in
  order (`SessionsInOrder`): a session that encrypts is an HMAC session before any password session, and its
  algorithm has keys of the length the TSS uses, or it has none and is refused. The code needs both: the run `streams_password` shows that
  it does not look behind a password session, and 256 bit AES keys are cut to 128 bits. The run tries
  only such lists (`InOrder` selects them).

`Refinement`, of `TssNoFile_proofs` and of `TssTransmit_proofs`, proves the implementation of `HandleStore` and of
`CommandChannel`: initial states, steps and stuttering, with the mapping of the property of the run. Model-checked only: the two liveness
properties (`EveryCallReturns`, `TransfersEnd`), of which the measures and what is waited for are proved but not what
fairness makes of them, since the prover does not reach liveness; the properties `RangeCheckIsExact` and
`StructureReadsBack` of `TssStreams` and `InputsComplete`, which are facts about
formats that are as deep as one likes, so that a proof would have to be by an induction over them; and the violated ones.

## Plan

Done: sessions, objects, NV and slots; transport and context; streams, marshaling and tables;
parameter encryption; transfers; the programs of one and of several commands. What is left, in this order:

1. **Two applications** on one data directory: a handle recycled by the TPM between another
   application's command and its post processor (`tss.c:2126`), and one session used by both
   (`tss.c:827`). Two copies of `TssSession` and `TssObjects` over one set of files.
2. **Names and sessions composed**: the bind entity by the Name that `TssObjects` has on file,
   and the salt with the public area of its key (`tss.c:3797`).
3. **First initialization** of the library that fails and is not repeated (`tss.c:604`).
4. **Attestation structures** and event logs: the remaining formats of `Unmarshal.c`.
5. **Policy tools**: `policymaker` goes on after a failed `TSS_Hash_Generate`.

## Not modelled

Printing and response code texts are translations without state. Cryptography is OpenSSL behind a wrapper and appears
only as which inputs a digest or key distinguishes. Memory management (leaks, and the
double free of `TSS_File_ReadBinaryFile` at `tssfile.c:146`) is below the level
of the models. Two applications at once are the next step of the plan: until then every model has one.
`policymaker`, `policymakerpcr` and `returncode` send no command. The vendor configuration
tools (`ntc2*`) with their commands, the Windows interface and the PHP demo are not part of the TSS's
own logic.

Within the modelled parts: the port of a platform command, which goes over the one connection of its context
(`tsssocket.c:104`); the structures that only attestation and event log tools unmarshal; the
range of handles, which the TSS does not check; which response code an error is; the
names of union members and single bits of attribute fields, which are one field; the `-se` options of the programs beside their defaults; the contents of
their output files; and what a statement does that is not guarded by `rc` when `rc` is set and
that only assigns.
