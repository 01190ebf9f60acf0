------------------------------ MODULE TssTransfers ------------------------------
(*****************************************************************************)
(* The utilities that repeat a command until all their bytes are moved:      *)
(* nvread and nvwrite, in chunks of at most the size readNvBufferMax         *)
(* (ekutils.c) gets from the TPM, and getrandom, until enough random bytes   *)
(* have been received.                                                       *)
(*                                                                           *)
(* The NV index is a function of its offsets: Unset, or the position in the  *)
(* data of nvwrite of the byte written there.  The buffer of nvread is a     *)
(* function of its positions: Unset, or the offset of the byte read.       *)
(* getrandom tells only zero bytes from others.  The numbers of type         *)
(* uint16_t are taken modulo Word.                                           *)
(*****************************************************************************)
EXTENDS Integers

CONSTANTS
  Word,                \* 2^16 in the code
  IndexSize,           \* the size of the NV index
  TpmNvBufferMax,      \* what the TPM takes in one NV_Read or NV_Write
  MAX_NV_BUFFER_SIZE,  \* what the TSS takes
  BackLevelBufferMax,  \* 512: the chunk size for a TPM without the property
  Uninitialized,       \* the values nvBufferMax may have before it is assigned
  Offsets,             \* the arguments of -off
  Lengths,             \* the arguments of -sz and -by, and the lengths of input data
  RandomMax            \* the most bytes the TPM returns for GetRandom

\* A byte no pass has stored.
Unset == -1

Least(a, b) == IF a < b THEN a ELSE b

ASSUME WordAssumption == Word \in Nat \ {0}

\* dataSize is a uint16_t.
ASSUME IndexAssumption == IndexSize \in Nat /\ IndexSize < Word

\* A TPM takes at least a byte; one without the property takes the 512 bytes of the code.
\* The variable of the chunk size is a uint32_t: it may hold more than a word.
ASSUME BufferAssumption ==
  /\ TpmNvBufferMax \in Nat \ {0}
  /\ MAX_NV_BUFFER_SIZE \in Nat \ {0}
  /\ MAX_NV_BUFFER_SIZE < Word
  /\ BackLevelBufferMax \in Nat \ {0}
  /\ BackLevelBufferMax <= TpmNvBufferMax
  /\ Uninitialized \subseteq Nat

\* A length of a file is a size_t: it may be more than a uint16_t holds.
ASSUME RequestAssumption ==
  /\ Offsets \subseteq 0..(Word - 1)
  /\ Lengths \subseteq Nat
  /\ RandomMax \in Nat

VARIABLES
  utility,      \* the program that runs
  request,      \* what its options ask for
  at,           \* where its main function is
  rc,           \* whether rc is 0
  tssContext,   \* whether the pointer is set
  nvBufferMax,  \* the chunk size
  limitRead,    \* whether nvBufferMax has been assigned (it is not initialized)
  moved,        \* bytesRead, bytesWritten or bytesCopied
  nv,           \* the NV index
  buffer,       \* the buffer of nvread
  written,      \* getrandom: one more than the last position of randomBuffer written
  exit          \* how the program ended

vars == <<utility, request, at, rc, tssContext, nvBufferMax, limitRead, moved, nv, buffer,
          written, exit>>

Positions == 0..(IndexSize - 1)

Request(offset, length, source, noZeros) ==
  [offset |-> offset, length |-> length, source |-> source, noZeros |-> noZeros]

Init ==
  /\ utility = "none" /\ at = "options" /\ rc = TRUE /\ tssContext = FALSE
  /\ request = Request(0, 0, "none", FALSE)
  /\ nvBufferMax \in Uninitialized /\ limitRead = FALSE
  /\ moved = 0 /\ written = 0 /\ exit = "none"
  /\ nv = [p \in Positions |-> Unset] /\ buffer = [p \in {} |-> Unset]

-----------------------------------------------------------------------------
(* The options                                                             *)

Unchanged == UNCHANGED <<rc, tssContext, nvBufferMax, limitRead, moved, nv, written>>

printUsage == at' = "end" /\ exit' = "usage" /\ UNCHANGED <<request, buffer>>

\* an NV index that is missing, a bad -hia or a bad option
nvread_Options ==
  /\ at = "options" /\ utility' = "nvread" /\ Unchanged
  /\ \/ printUsage
     \/ \E offset \in Offsets, length \in {n \in Lengths : n < Word} :
          /\ request' = Request(offset, length, "none", FALSE)
          /\ buffer' = [p \in 0..(length - 1) |-> Unset]
          /\ at' = "TSS_Create" /\ UNCHANGED exit

\* -if (a file), -ic (a string), -id (two numbers), or nothing: more than one is refused
nvwrite_Options ==
  /\ at = "options" /\ utility' = "nvwrite" /\ Unchanged
  /\ \/ printUsage
     \/ \E offset \in Offsets :
          /\ \/ \E length \in Lengths, source \in {"file", "string"} :
                  request' = Request(offset, length, source, FALSE)
             \/ request' = Request(offset, 8, "pin", FALSE)
             \/ request' = Request(offset, 0, "none", FALSE)
          /\ at' = "TSS_Create" /\ UNCHANGED <<exit, buffer>>

\* -by of zero bytes, or more than 16 bits hold, is refused
getrandom_Options ==
  /\ at = "options" /\ utility' = "getrandom" /\ Unchanged
  /\ \/ printUsage
     \/ \E length \in {n \in Lengths : 0 < n /\ n < Word}, noZeros \in BOOLEAN :
          /\ request' = Request(0, length, "none", noZeros)
          /\ at' = "TSS_Create" /\ UNCHANGED <<exit, buffer>>

-----------------------------------------------------------------------------
(* The context and the chunk size                                          *)

\* getrandom's TSS_Malloc may fail before it: TSS_Create is skipped.
TSS_Create ==
  /\ at = "TSS_Create"
  /\ \E ok \in BOOLEAN : rc' = ok /\ tssContext' = ok
  /\ at' = IF utility = "getrandom" THEN "loop" ELSE "readNvBufferMax"
  /\ UNCHANGED <<utility, request, nvBufferMax, limitRead, moved, nv, buffer, written, exit>>

\* A mutant: a TPM that does not answer is not an error.
readNvBufferMax_Lenient ==
  /\ at = "readNvBufferMax"
  /\ \/ /\ \E value \in {TpmNvBufferMax, BackLevelBufferMax} :
            nvBufferMax' = Least(value, MAX_NV_BUFFER_SIZE)
       /\ limitRead' = TRUE
     \/ UNCHANGED <<nvBufferMax, limitRead>>
  /\ at' = IF utility = "nvwrite" THEN "data" ELSE "loop"
  /\ UNCHANGED <<utility, request, tssContext, moved, nv, buffer, written, exit, rc>>

\* A mutant: the limit of the TSS is forgotten.
readNvBufferMax_Uncapped ==
  /\ at = "readNvBufferMax"
  /\ IF rc
     THEN \/ /\ nvBufferMax' \in {TpmNvBufferMax, BackLevelBufferMax}
             /\ limitRead' = TRUE
             /\ UNCHANGED rc
          \/ /\ rc' = FALSE
             /\ UNCHANGED <<nvBufferMax, limitRead>>
     ELSE UNCHANGED <<rc, nvBufferMax, limitRead>>
  /\ at' = IF utility = "nvwrite" THEN "data" ELSE "loop"
  /\ UNCHANGED <<utility, request, tssContext, moved, nv, buffer, written, exit>>

\* The TPM returns the first property from TPM_PT_NV_BUFFER_MAX on, another one if it
\* does not have it.
readNvBufferMax ==
  /\ at = "readNvBufferMax"
  /\ IF rc
     THEN \/ /\ \E value \in {TpmNvBufferMax, BackLevelBufferMax} :
                  nvBufferMax' = Least(value, MAX_NV_BUFFER_SIZE)
             /\ limitRead' = TRUE
             /\ UNCHANGED rc
          \/ /\ rc' = FALSE
             /\ UNCHANGED <<nvBufferMax, limitRead>>
     ELSE UNCHANGED <<rc, nvBufferMax, limitRead>>
  /\ at' = IF utility = "nvwrite" THEN "data" ELSE "loop"
  /\ UNCHANGED <<utility, request, tssContext, moved, nv, buffer, written, exit>>

\* TSS_TPM2B_StringCopy: its limit is a uint16_t, and a chunk size that was never assigned
\* may be more than the structure holds.
StringCopied == request.source = "string" /\ request.length <= nvBufferMax % Word
Overrun == StringCopied /\ request.length > MAX_NV_BUFFER_SIZE

\* The input data.  The file and the string are read whatever rc is, and set it anew.  A copy
\* beyond the end of the structure on the stack may end the program; it is assumed that, if
\* it does not, it leaves the other variables of main as they are.
nvwrite_Data ==
  /\ at = "data"
  /\ \/ /\ CASE request.source = "file" -> rc' \in BOOLEAN
            [] request.source = "string" -> rc' = StringCopied
            [] OTHER -> UNCHANGED rc
        /\ at' = "loop" /\ UNCHANGED exit
     \/ Overrun /\ at' = "end" /\ exit' = "crashed" /\ UNCHANGED rc
  /\ UNCHANGED <<utility, request, tssContext, nvBufferMax, limitRead, moved, nv, buffer,
                 written>>

-----------------------------------------------------------------------------
(* One pass of a loop                                                      *)

LoopOf(name) == utility = name /\ at = "loop" /\ rc

\* TSS_Execute without a context reads through a NULL pointer.
Crash ==
  /\ at' = "end" /\ exit' = "crashed"
  /\ UNCHANGED <<rc, moved, nv, buffer, written>>

ExecuteFails ==
  /\ rc' = FALSE /\ at' = "TSS_Delete"
  /\ UNCHANGED <<moved, nv, buffer, written, exit>>

\* Any command may fail, whatever it asks for.
CommandFails ==
  /\ at = "loop" /\ rc /\ tssContext /\ ExecuteFails
  /\ UNCHANGED <<utility, request, tssContext, nvBufferMax, limitRead>>

\* The TPM takes or gives what lies in the index, at most TpmNvBufferMax bytes at once.
TpmAccepts(offset, size) == offset + size <= IndexSize /\ size <= TpmNvBufferMax

\* A mutant: every chunk at the offset of -off.
chunkOffset_First == request.offset

chunkOffset == (request.offset + moved) % Word
chunkSize == Least(request.length - moved, nvBufferMax)

nvread_Pass ==
  /\ LoopOf("nvread")
  /\ UNCHANGED <<utility, request, tssContext, nvBufferMax, limitRead>>
  /\ IF TpmAccepts(chunkOffset, chunkSize)
     THEN /\ buffer' = [p \in DOMAIN buffer |->
               IF p \in moved..(moved + chunkSize - 1) THEN chunkOffset + (p - moved)
               ELSE buffer[p]]
          /\ moved' = (moved + chunkSize) % Word
          /\ at' = IF moved' = request.length THEN "TSS_Delete" ELSE "loop"
          /\ UNCHANGED <<rc, nv, written, exit>>
     ELSE ExecuteFails

\* Only the data of a file is written in chunks, of which a uint16_t holds the size.
writeBytes == IF request.source = "file" THEN chunkSize % Word ELSE request.length

\* TSS_TPM2B_Create refuses a chunk that the structure does not hold before there is a
\* command; TSS_Marshal refuses a string that it does not hold, but not without a context.
nvwrite_Pass ==
  /\ LoopOf("nvwrite")
  /\ UNCHANGED <<utility, request, tssContext, nvBufferMax, limitRead>>
  /\ IF request.source = "file" /\ writeBytes > MAX_NV_BUFFER_SIZE THEN ExecuteFails
     ELSE IF ~tssContext THEN Crash
     ELSE IF writeBytes <= MAX_NV_BUFFER_SIZE /\ TpmAccepts(chunkOffset, writeBytes)
     THEN /\ nv' = [p \in Positions |->
               IF p \in chunkOffset..(chunkOffset + writeBytes - 1)
               THEN moved + (p - chunkOffset) ELSE nv[p]]
          /\ IF request.source = "file"
             THEN /\ moved' = (moved + writeBytes) % Word
                  /\ at' = IF moved' = request.length THEN "TSS_Delete" ELSE "loop"
             ELSE UNCHANGED moved /\ at' = "TSS_Delete"
          /\ UNCHANGED <<rc, buffer, written, exit>>
     ELSE ExecuteFails

\* A mutant: whatever the TPM returns is stored.
getrandom_Stores_All(received, nonZero) == IF request.noZeros THEN nonZero ELSE received

\* The TPM returns some bytes, more than asked for if it is wrong, of which the first
\* stored are stored; without -nz all of them count, with it the bytes that are not zero.
getrandom_Stores(received, nonZero) ==
  Least(IF request.noZeros THEN nonZero ELSE received, request.length - moved)

\* A mutant: one pass more than is needed.
getrandom_Receives_Again(received, nonZero) ==
  /\ moved' = moved + getrandom_Stores(received, nonZero)
  /\ written' = IF request.noZeros THEN moved' + 1 ELSE moved'
  /\ at' = IF moved' <= request.length THEN "loop" ELSE "TSS_Delete"
  /\ UNCHANGED <<rc, nv, buffer, exit>>

getrandom_Receives(received, nonZero) ==
  /\ moved' = moved + getrandom_Stores(received, nonZero)
  /\ written' = IF request.noZeros THEN moved' + 1 ELSE moved'
  /\ at' = IF moved' < request.length THEN "loop" ELSE "TSS_Delete"
  /\ UNCHANGED <<rc, nv, buffer, exit>>

getrandom_Pass ==
  /\ LoopOf("getrandom")
  /\ UNCHANGED <<utility, request, tssContext, nvBufferMax, limitRead>>
  /\ \E received \in 0..RandomMax : \E nonZero \in 0..received :
       getrandom_Receives(received, nonZero)

\* A pass that brings a byte that counts.
getrandom_Progress == getrandom_Pass /\ moved' > moved

-----------------------------------------------------------------------------
(* The end                                                                 *)

TSS_Delete ==
  /\ at = "TSS_Delete" \/ (at = "loop" /\ ~rc)
  /\ rc' \in IF rc THEN BOOLEAN ELSE {FALSE}
  /\ tssContext' = FALSE
  /\ at' = "output"
  /\ UNCHANGED <<utility, request, nvBufferMax, limitRead, moved, nv, buffer, written, exit>>

\* The file of -of, if it is given, and the message.
Output ==
  /\ at = "output"
  /\ rc' \in IF rc /\ utility # "nvwrite" THEN BOOLEAN ELSE {rc}
  /\ at' = "end" /\ exit' = IF rc' THEN "success" ELSE "failure"
  /\ UNCHANGED <<utility, request, tssContext, nvBufferMax, limitRead, moved, nv, buffer,
                 written>>

Step ==
  \/ nvread_Options \/ nvwrite_Options \/ getrandom_Options
  \/ TSS_Create \/ readNvBufferMax \/ nvwrite_Data
  \/ nvread_Pass \/ nvwrite_Pass \/ getrandom_Pass
  \/ TSS_Delete \/ Output

Next == Step \/ CommandFails

\* The program runs on, and the TPM does not return zero bytes, or none, for ever.  That
\* commands fail is never relied on.
Fairness == WF_vars(Step) /\ SF_vars(getrandom_Progress)

Spec == Init /\ [][Next]_vars /\ Fairness

-----------------------------------------------------------------------------
(* Properties                                                              *)

TypeOK ==
  /\ utility \in {"none", "nvread", "nvwrite", "getrandom"}
  /\ request \in [offset : Nat, length : Nat, source : {"none", "file", "string", "pin"},
                  noZeros : BOOLEAN]
  /\ at \in {"options", "TSS_Create", "readNvBufferMax", "data", "loop", "TSS_Delete",
             "output", "end"}
  /\ rc \in BOOLEAN /\ tssContext \in BOOLEAN /\ limitRead \in BOOLEAN
  /\ nvBufferMax \in Nat /\ (limitRead => nvBufferMax <= MAX_NV_BUFFER_SIZE)
  /\ moved \in 0..(Word - 1) /\ written \in Nat
  /\ nv \in [Positions -> {Unset} \union Nat]
  /\ exit \in {"none", "usage", "success", "failure", "crashed"}

\* The chunks of nvread follow each other: the first bytesRead bytes of the buffer are
\* those of the index from the offset of -off on, the rest is untouched, and so a
\* success has every byte asked for (nvread.c, the loop).
ReadBufferIsAPrefix ==
  utility = "nvread" /\ exit # "usage" =>
    /\ moved <= request.length
    /\ DOMAIN buffer = 0..(request.length - 1)
    /\ \A p \in DOMAIN buffer :
         buffer[p] = IF p < moved THEN request.offset + p ELSE Unset
    /\ exit = "success" => moved = request.length

\* Whatever fails in the middle, the index holds a first part of the file from the offset on and
\* is otherwise as it was: bytesWritten never wraps, however long the file, and whatever the chunk
\* size is that a forgotten failure left unassigned (nvwrite.c, the loop).
\* A string or two numbers, which must fit in one write, are there whole if the program succeeds.
IndexHoldsAPrefix ==
  utility = "nvwrite" =>
    /\ request.source = "file" =>
         /\ moved <= request.length
         /\ \A p \in Positions :
              nv[p] = IF p \in request.offset..(request.offset + moved - 1)
                      THEN p - request.offset ELSE Unset
         /\ exit = "success" => moved = request.length
    /\ request.source \in {"string", "pin"} /\ exit = "success" =>
         \A p \in Positions :
           nv[p] = IF p \in request.offset..(request.offset + request.length - 1)
                   THEN p - request.offset ELSE Unset

\* getrandom allocates one byte more than it is asked for: the bytes stored and the
\* terminator of -nz stay within it, whatever number of bytes the TPM returns.
RandomBufferIsNotOverrun ==
  utility = "getrandom" =>
    /\ moved <= request.length
    /\ written <= request.length + 1
    /\ exit = "success" => moved = request.length

\* A program whose chunk size has been read ends, however many chunks it takes.
TransfersEnd ==
  (at = "loop" /\ (utility = "getrandom" \/ limitRead)) ~> (exit # "none")

\* After a failure no command is sent, and NV is never read or written in chunks of a size
\* that was not read: but for nvwrite with -if or -ic, which sets rc anew when it reads its
\* data.  There a failed TSS_Create or readNvBufferMax is forgotten, and the loop runs with
\* a NULL context or a chunk size that was never assigned (nvwrite.c:297 and 312).
FailureStopsTheTransfer ==
  at = "loop" /\ rc =>
    \/ tssContext /\ (utility = "getrandom" \/ limitRead)
    \/ utility = "nvwrite" /\ request.source \in {"file", "string"}
=================================================================================
