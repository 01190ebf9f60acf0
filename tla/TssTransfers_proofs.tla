--------------------------- MODULE TssTransfers_proofs ---------------------------
(*****************************************************************************)
(* Proofs about TssTransfers, for every size of word, index, chunk and       *)
(* request: the invariants of the run hold.  The inductive invariant IInv    *)
(* says in addition what holds before the loop (Fresh), and that moved       *)
(* bytes lie in the index, so that no uint16_t wraps.  The last part proves  *)
(* that every pass of a loop comes nearer to its end.                        *)
(*****************************************************************************)
EXTENDS TssTransfers, TLAPS

Late == at \in {"TSS_Delete", "output"} \/ exit = "success"

Fresh ==
  /\ at = "options" => utility = "none" /\ rc /\ request.source = "none"
  /\ at # "end" => exit = "none"
  /\ exit = "success" => rc
  /\ at \in {"options", "TSS_Create", "readNvBufferMax", "data"} =>
       moved = 0 /\ written = 0 /\ \A p \in Positions : nv[p] = Unset

ReadInv ==
  utility = "nvread" /\ exit # "usage" =>
    /\ request.source = "none" /\ request.offset < Word /\ request.length < Word
    /\ moved <= request.length
    /\ moved > 0 => request.offset + moved <= IndexSize
    /\ DOMAIN buffer = 0..(request.length - 1)
    /\ \A p \in 0..(request.length - 1) :
         buffer[p] = IF p < moved THEN request.offset + p ELSE Unset
    /\ Late /\ rc => moved = request.length

Whole ==
  \A p \in Positions :
    nv[p] = IF p \in request.offset..(request.offset + request.length - 1)
            THEN p - request.offset ELSE Unset

WriteInv ==
  utility = "nvwrite" /\ exit # "usage" =>
    /\ request.offset < Word
    /\ request.source = "file" =>
         /\ moved <= request.length
         /\ moved > 0 => request.offset + moved <= IndexSize
         /\ \A p \in Positions :
              nv[p] = IF p \in request.offset..(request.offset + moved - 1)
                      THEN p - request.offset ELSE Unset
         /\ Late /\ rc => moved = request.length
    /\ request.source # "file" =>
         /\ moved = 0
         /\ Late /\ rc => Whole
         /\ at = "loop" => \A p \in Positions : nv[p] = Unset

RandomInv ==
  utility = "getrandom" /\ exit # "usage" =>
    /\ request.length < Word
    /\ moved <= request.length
    /\ written <= request.length + 1
    /\ Late /\ rc => moved = request.length

Prepared ==
  /\ at = "readNvBufferMax" /\ rc => tssContext
  /\ at = "data" /\ rc => tssContext /\ limitRead
  /\ at = "data" => utility = "nvwrite"
  /\ FailureStopsTheTransfer

\* A usage exit keeps what Init gave.
Usage ==
  exit = "usage" =>
    at = "end" /\ moved = 0 /\ written = 0 /\ request.source = "none"

IInv ==
  TypeOK /\ Fresh /\ ReadInv /\ WriteInv /\ RandomInv /\ Prepared /\ Usage

-----------------------------------------------------------------------------

\* A number that a word holds is not changed by the word.
LEMMA FitsTheWord ==
  ASSUME NEW n \in Nat, n < Word
  PROVE  n % Word = n
BY WordAssumption

\* What remains of a number in a word is not more than the number.
LEMMA RestInTheWord ==
  ASSUME NEW n \in Nat
  PROVE  n % Word \in 0..n
BY WordAssumption

\* The offset of a chunk does not wrap, and a chunk is not more than is left.
LEMMA ChunkInRange ==
  ASSUME IInv, at = "loop",
         utility = "nvread" \/ (utility = "nvwrite" /\ request.source = "file")
  PROVE  /\ chunkOffset = request.offset + moved
         /\ chunkSize \in 0..(request.length - moved)
<1>1. /\ request.offset \in Nat /\ moved \in Nat /\ request.length \in Nat
      /\ exit # "usage"
  BY DEF IInv, TypeOK, Fresh
<1>2. request.offset + moved < Word
  BY <1>1, IndexAssumption, WordAssumption DEF IInv, ReadInv, WriteInv
<1>3. chunkOffset = request.offset + moved
  <2>1. request.offset + moved \in Nat
    BY <1>1
  <2> QED BY <2>1, <1>2, FitsTheWord DEF chunkOffset
<1>4. moved <= request.length
  BY <1>1 DEF IInv, ReadInv, WriteInv
<1>5. nvBufferMax \in Nat
  BY DEF IInv, TypeOK
<1>6. request.length - moved \in Nat
  BY <1>1, <1>4
<1>7. chunkSize = IF request.length - moved < nvBufferMax THEN request.length - moved
                  ELSE nvBufferMax
  BY DEF chunkSize, Least
<1>8. chunkSize \in 0..(request.length - moved)
  BY <1>5, <1>6, <1>7
<1> QED BY <1>3, <1>8

\* What is written of a file in a pass, the size of the chunk in a word, is not more than is
\* left either; a chunk size that was read has no more bits than a word.
LEMMA WriteInRange ==
  ASSUME IInv, at = "loop", utility = "nvwrite", request.source = "file"
  PROVE  /\ chunkOffset = request.offset + moved
         /\ writeBytes \in 0..(request.length - moved)
         /\ limitRead => writeBytes = chunkSize
<1>1. /\ chunkOffset = request.offset + moved
      /\ chunkSize \in 0..(request.length - moved)
  BY ChunkInRange
<1>2. /\ moved \in Nat /\ request.length \in Nat /\ nvBufferMax \in Nat
      /\ limitRead => nvBufferMax < Word
  BY BufferAssumption, WordAssumption DEF IInv, TypeOK
<1>3. chunkSize \in Nat /\ writeBytes = chunkSize % Word
  BY <1>1, <1>2 DEF writeBytes
<1>4. writeBytes \in 0..chunkSize
  BY <1>3, RestInTheWord
<1>5. limitRead => chunkSize < Word
  BY <1>1, <1>2, WordAssumption DEF chunkSize, Least
<1>6. limitRead => writeBytes = chunkSize
  BY <1>3, <1>5, FitsTheWord
<1> QED BY <1>1, <1>2, <1>4, <1>6

\* The number of bytes of a write, of whatever source, is a number.
LEMMA WriteCounts ==
  ASSUME IInv, at = "loop", utility = "nvwrite"
  PROVE  writeBytes \in Nat
<1>1. request.length \in Nat /\ moved \in Nat
  BY DEF IInv, TypeOK
<1>2. CASE request.source = "file"
  BY <1>1, <1>2, WriteInRange
<1>3. CASE request.source # "file"
  BY <1>1, <1>3 DEF writeBytes
<1> QED BY <1>2, <1>3

LEMMA InitInv == Init => IInv
<1> SUFFICES ASSUME Init PROVE IInv
  OBVIOUS
<1> USE DEF Init, Request, Unset
<1>1. TypeOK
  <2>1. nv \in [Positions -> {Unset} \union Nat]
    OBVIOUS
  <2>2. moved \in 0..(Word - 1)
    BY WordAssumption
  <2>3. request \in [offset : Nat, length : Nat, source : {"none", "file", "string", "pin"},
                    noZeros : BOOLEAN]
    OBVIOUS
  <2>4. nvBufferMax \in Nat
    BY BufferAssumption
  <2> QED BY <2>1, <2>2, <2>3, <2>4 DEF TypeOK
<1>2. Fresh
  BY DEF Fresh, Positions
<1>3. ReadInv /\ WriteInv /\ RandomInv /\ Prepared /\ Usage
  BY DEF ReadInv, WriteInv, RandomInv, Prepared, Usage, FailureStopsTheTransfer
<1> QED BY <1>1, <1>2, <1>3 DEF IInv

LEMMA OptionsStep ==
  ASSUME IInv, nvread_Options \/ nvwrite_Options \/ getrandom_Options
  PROVE  IInv'
<1>1. /\ at = "options" /\ exit = "none" /\ moved = 0 /\ written = 0 /\ utility = "none" /\ rc
      /\ \A p \in Positions : nv[p] = Unset
  BY DEF IInv, Fresh, nvread_Options, nvwrite_Options, getrandom_Options
<1>2. /\ UNCHANGED <<rc, tssContext, nvBufferMax, limitRead, moved, nv, written>>
      /\ utility' \in {"nvread", "nvwrite", "getrandom"}
      /\ at' \in {"TSS_Create", "end"}
  BY DEF nvread_Options, nvwrite_Options, getrandom_Options, Unchanged, printUsage
<1>3. CASE printUsage
  <2>1. request.source = "none"
    BY <1>1 DEF IInv, Fresh
  <2> QED BY <1>3, <1>1, <1>2, <2>1 DEF printUsage, IInv, TypeOK, Fresh, ReadInv, WriteInv, RandomInv,
             Prepared, Usage, FailureStopsTheTransfer, Positions
<1>4. CASE ~printUsage
  <2>1. at' = "TSS_Create" /\ exit' = exit
    BY <1>4 DEF nvread_Options, nvwrite_Options, getrandom_Options
  <2>2. /\ request' \in [offset : Nat, length : Nat,
                         source : {"none", "file", "string", "pin"}, noZeros : BOOLEAN]
        /\ request'.offset < Word
        /\ utility' \in {"nvread", "getrandom"} =>
             request'.length < Word /\ request'.source = "none"
    <3>1. CASE nvread_Options
      <4>1. PICK offset \in Offsets, length \in {n \in Lengths : n < Word} :
              request' = Request(offset, length, "none", FALSE)
        BY <1>4, <3>1 DEF nvread_Options
      <4> QED BY <3>1, <4>1, RequestAssumption, WordAssumption DEF Request
    <3>2. CASE nvwrite_Options
      <4>1. PICK offset \in Offsets :
              \/ \E length \in Lengths, source \in {"file", "string"} :
                   request' = Request(offset, length, source, FALSE)
              \/ request' = Request(offset, 8, "pin", FALSE)
              \/ request' = Request(offset, 0, "none", FALSE)
        BY <1>4, <3>2 DEF nvwrite_Options
      <4>2. utility' = "nvwrite"
        BY <3>2 DEF nvwrite_Options
      <4>3. offset \in Nat /\ offset < Word
        BY RequestAssumption, WordAssumption
      <4>4. CASE \E length \in Lengths, source \in {"file", "string"} :
                   request' = Request(offset, length, source, FALSE)
        BY <4>2, <4>3, <4>4, RequestAssumption DEF Request
      <4>5. CASE request' = Request(offset, 8, "pin", FALSE)
        BY <4>2, <4>3, <4>5 DEF Request
      <4>6. CASE request' = Request(offset, 0, "none", FALSE)
        BY <4>2, <4>3, <4>6 DEF Request
      <4> QED BY <4>1, <4>4, <4>5, <4>6
    <3>3. CASE getrandom_Options
      <4>1. PICK length \in {n \in Lengths : 0 < n /\ n < Word}, noZeros \in BOOLEAN :
              request' = Request(0, length, "none", noZeros)
        BY <1>4, <3>3 DEF getrandom_Options
      <4> QED BY <4>1, RequestAssumption, WordAssumption DEF Request
    <3> QED BY <3>1, <3>2, <3>3
  <2>3. utility' = "nvread" => buffer' = [p \in 0..(request'.length - 1) |-> Unset]
    BY <1>4 DEF nvread_Options, nvwrite_Options, getrandom_Options, Request
  <2>4. TypeOK' /\ Fresh' /\ Prepared' /\ Usage'
    BY <1>1, <1>2, <2>1, <2>2 DEF IInv, TypeOK, Fresh, Prepared, Usage,
       FailureStopsTheTransfer, Positions
  <2>5. ReadInv'
    BY <1>1, <1>2, <2>1, <2>2, <2>3 DEF ReadInv, Late
  <2>6. WriteInv' /\ RandomInv'
    BY <1>1, <1>2, <2>1, <2>2 DEF WriteInv, RandomInv, Late, Positions
  <2> QED BY <2>4, <2>5, <2>6 DEF IInv
<1> QED BY <1>3, <1>4

\* The steps that move no byte.
LEMMA OtherStep ==
  ASSUME IInv, TSS_Create \/ readNvBufferMax \/ nvwrite_Data \/ CommandFails \/ TSS_Delete
               \/ Output
  PROVE  IInv'
<1>1. CASE TSS_Create
  <2>1. /\ at = "TSS_Create"
        /\ at' = IF utility = "getrandom" THEN "loop" ELSE "readNvBufferMax"
        /\ rc' \in BOOLEAN /\ tssContext' = rc'
        /\ UNCHANGED <<utility, request, nvBufferMax, limitRead, moved, nv, buffer, written,
                       exit>>
    BY <1>1 DEF TSS_Create
  <2>2. TypeOK'
    BY <2>1 DEF IInv, TypeOK, Positions
  <2>3. Fresh' /\ Prepared' /\ Usage'
    BY <2>1 DEF IInv, Fresh, Prepared, Usage, FailureStopsTheTransfer, Positions
  <2>4. ReadInv'
    BY <2>1 DEF IInv, Fresh, ReadInv, Late
  <2>5. WriteInv' /\ RandomInv'
    BY <2>1 DEF IInv, Fresh, WriteInv, RandomInv, Late, Positions
  <2> QED BY <2>2, <2>3, <2>4, <2>5 DEF IInv
<1>2. CASE readNvBufferMax
  <2>1. nvBufferMax' \in Nat /\ (limitRead' => nvBufferMax' <= MAX_NV_BUFFER_SIZE)
    <3>1. nvBufferMax \in Nat /\ (limitRead => nvBufferMax <= MAX_NV_BUFFER_SIZE)
      BY DEF IInv, TypeOK
    <3>2. CASE UNCHANGED <<nvBufferMax, limitRead>>
      BY <3>1, <3>2
    <3>3. CASE \E value \in {TpmNvBufferMax, BackLevelBufferMax} :
                 nvBufferMax' = Least(value, MAX_NV_BUFFER_SIZE)
      BY <3>3, BufferAssumption DEF Least
    <3> QED BY <1>2, <3>2, <3>3 DEF readNvBufferMax
  <2>2. /\ at = "readNvBufferMax"
        /\ at' = IF utility = "nvwrite" THEN "data" ELSE "loop"
        /\ rc' \in BOOLEAN /\ (rc' => rc)
        /\ limitRead' \in BOOLEAN /\ (rc' => limitRead')
        /\ UNCHANGED <<utility, request, tssContext, moved, nv, buffer, written, exit>>
    <3>1. rc \in BOOLEAN /\ limitRead \in BOOLEAN
      BY DEF IInv, TypeOK
    <3>2. CASE rc
      BY <1>2, <3>1, <3>2 DEF readNvBufferMax
    <3>3. CASE ~rc
      BY <1>2, <3>1, <3>3 DEF readNvBufferMax
    <3> QED BY <3>2, <3>3
  <2>3. TypeOK'
    BY <2>1, <2>2 DEF IInv, TypeOK, Positions
  <2>4. Fresh' /\ Prepared' /\ Usage'
    BY <2>2 DEF IInv, Fresh, Prepared, Usage, FailureStopsTheTransfer, Positions
  <2>5. ReadInv'
    BY <2>2 DEF IInv, Fresh, ReadInv, Late
  <2>6. WriteInv' /\ RandomInv'
    BY <2>2 DEF IInv, Fresh, WriteInv, RandomInv, Late, Positions
  <2> QED BY <2>3, <2>4, <2>5, <2>6 DEF IInv
<1>3. CASE nvwrite_Data
  <2>1. rc' \in BOOLEAN /\ (request.source \notin {"file", "string"} => rc' = rc)
    <3>1. rc \in BOOLEAN
      BY DEF IInv, TypeOK
    <3>2. CASE UNCHANGED rc
      BY <3>1, <3>2
    <3>3. CASE request.source = "file" /\ rc' \in BOOLEAN
      BY <3>3
    <3>4. CASE request.source = "string" /\ rc' = StringCopied
      BY <3>4 DEF StringCopied
    <3> QED BY <1>3, <3>2, <3>3, <3>4 DEF nvwrite_Data
  <2>2. /\ at = "data"
        /\ \/ at' = "loop" /\ exit' = exit
           \/ at' = "end" /\ exit' = "crashed"
        /\ UNCHANGED <<utility, request, tssContext, nvBufferMax, limitRead, moved, nv, buffer,
                       written>>
    BY <1>3 DEF nvwrite_Data
  <2>3. TypeOK'
    BY <2>1, <2>2 DEF IInv, TypeOK, Positions
  <2>4. Fresh' /\ Prepared' /\ Usage'
    BY <2>1, <2>2 DEF IInv, Fresh, Prepared, Usage, FailureStopsTheTransfer
  <2>5. ReadInv' /\ WriteInv' /\ RandomInv'
    BY <2>1, <2>2 DEF IInv, Fresh, ReadInv, WriteInv, RandomInv, Late, Positions
  <2> QED BY <2>3, <2>4, <2>5 DEF IInv
<1>4. CASE CommandFails
  <2>1. /\ at = "loop" /\ rc /\ tssContext
        /\ rc' = FALSE /\ at' = "TSS_Delete"
        /\ UNCHANGED <<utility, request, tssContext, nvBufferMax, limitRead, moved, nv, buffer,
                       written, exit>>
    BY <1>4 DEF CommandFails, ExecuteFails
  <2>2. TypeOK'
    BY <2>1 DEF IInv, TypeOK, Positions
  <2>3. Fresh' /\ Prepared' /\ Usage'
    BY <2>1 DEF IInv, Fresh, Prepared, Usage, FailureStopsTheTransfer, Positions
  <2>4. ReadInv'
    BY <2>1 DEF IInv, Fresh, ReadInv, Late
  <2>5. WriteInv' /\ RandomInv'
    BY <2>1 DEF IInv, Fresh, WriteInv, RandomInv, Late, Positions
  <2> QED BY <2>2, <2>3, <2>4, <2>5 DEF IInv
<1>5. CASE TSS_Delete
  <2>1. /\ at = "TSS_Delete" \/ (at = "loop" /\ ~rc)
        /\ rc' \in BOOLEAN /\ (rc' => rc)
        /\ tssContext' = FALSE /\ at' = "output"
        /\ UNCHANGED <<utility, request, nvBufferMax, limitRead, moved, nv, buffer, written,
                       exit>>
    BY <1>5 DEF TSS_Delete
  <2>2. TypeOK'
    BY <2>1 DEF IInv, TypeOK, Positions
  <2>3. Fresh' /\ Prepared' /\ Usage'
    BY <2>1 DEF IInv, Fresh, Prepared, Usage, FailureStopsTheTransfer, Positions
  <2>4. ReadInv'
    BY <2>1 DEF IInv, Fresh, ReadInv, Late
  <2>5. WriteInv' /\ RandomInv'
    BY <2>1 DEF IInv, Fresh, WriteInv, RandomInv, Late, Whole, Positions
  <2> QED BY <2>2, <2>3, <2>4, <2>5 DEF IInv
<1>6. CASE Output
  <2>1. /\ at = "output" /\ at' = "end"
        /\ rc' \in BOOLEAN /\ (rc' => rc)
        /\ exit' = IF rc' THEN "success" ELSE "failure"
        /\ UNCHANGED <<utility, request, tssContext, nvBufferMax, limitRead, moved, nv, buffer,
                       written>>
    <3>1. rc \in BOOLEAN
      BY DEF IInv, TypeOK
    <3> QED BY <1>6, <3>1 DEF Output
  <2>2. TypeOK'
    BY <2>1 DEF IInv, TypeOK, Positions
  <2>3. Fresh' /\ Prepared' /\ Usage'
    BY <2>1 DEF IInv, Fresh, Prepared, Usage, FailureStopsTheTransfer, Positions
  <2>4. ReadInv'
    BY <2>1 DEF IInv, Fresh, ReadInv, Late
  <2>5. WriteInv' /\ RandomInv'
    BY <2>1 DEF IInv, Fresh, WriteInv, RandomInv, Late, Whole, Positions
  <2> QED BY <2>2, <2>3, <2>4, <2>5 DEF IInv
<1> QED BY <1>1, <1>2, <1>3, <1>4, <1>5, <1>6

LEMMA ReadStep ==
  ASSUME IInv, nvread_Pass
  PROVE  IInv'
<1>1. /\ utility = "nvread" /\ at = "loop" /\ rc /\ exit = "none"
      /\ UNCHANGED <<utility, request, tssContext, nvBufferMax, limitRead, nv, written, exit>>
  BY DEF nvread_Pass, LoopOf, IInv, Fresh, ExecuteFails
<1>2. CASE ~TpmAccepts(chunkOffset, chunkSize)
  BY <1>1, <1>2 DEF nvread_Pass, ExecuteFails, IInv, TypeOK, Fresh, ReadInv, WriteInv,
     RandomInv, Prepared, Usage, FailureStopsTheTransfer, Late
<1>3. CASE TpmAccepts(chunkOffset, chunkSize)
  <2>1. /\ chunkOffset = request.offset + moved
        /\ chunkSize \in 0..(request.length - moved)
    BY <1>1, ChunkInRange
  <2>2. request.offset \in Nat /\ moved \in Nat /\ request.length \in Nat
    BY DEF IInv, TypeOK
  <2>3. request.offset + moved + chunkSize <= IndexSize
    BY <2>1, <1>3 DEF TpmAccepts
  <2>4. moved + chunkSize \in Nat /\ moved + chunkSize < Word
    BY <2>1, <2>2, <2>3, IndexAssumption, WordAssumption
  <2>5. moved' = moved + chunkSize
    BY <1>3, <2>4, FitsTheWord DEF nvread_Pass
  <2>6. /\ rc' = rc
        /\ at' = IF moved' = request.length THEN "TSS_Delete" ELSE "loop"
        /\ DOMAIN buffer' = DOMAIN buffer
        /\ \A p \in DOMAIN buffer :
             buffer'[p] = IF p \in moved..(moved + chunkSize - 1)
                          THEN request.offset + moved + (p - moved) ELSE buffer[p]
    BY <1>3, <2>1 DEF nvread_Pass
  <2>7. TypeOK' /\ Fresh' /\ Prepared' /\ Usage' /\ WriteInv' /\ RandomInv'
    BY <1>1, <2>4, <2>5, <2>6, WordAssumption DEF IInv, TypeOK, Fresh, Prepared, Usage,
       WriteInv, RandomInv, FailureStopsTheTransfer
  <2>8. moved' <= request.length /\ request.offset + moved' <= IndexSize
    BY <2>1, <2>2, <2>3, <2>5
  <2>9. \A p \in 0..(request.length - 1) :
          buffer'[p] = IF p < moved' THEN request.offset + p ELSE Unset
    BY <1>1, <2>1, <2>2, <2>5, <2>6 DEF IInv, ReadInv
  <2> QED BY <1>1, <2>6, <2>7, <2>8, <2>9 DEF IInv, ReadInv, Late
<1> QED BY <1>2, <1>3

LEMMA WriteStep ==
  ASSUME IInv, nvwrite_Pass
  PROVE  IInv'
<1>1. /\ utility = "nvwrite" /\ at = "loop" /\ rc /\ exit = "none"
      /\ UNCHANGED <<utility, request, tssContext, nvBufferMax, limitRead, written, buffer>>
  BY DEF nvwrite_Pass, LoopOf, IInv, Fresh, ExecuteFails, Crash
<1> DEFINE accepted == /\ tssContext /\ writeBytes <= MAX_NV_BUFFER_SIZE
                      /\ TpmAccepts(chunkOffset, writeBytes)
<1>2. request.offset \in Nat /\ moved \in Nat /\ request.length \in Nat
  BY DEF IInv, TypeOK
<1>3. CASE Crash
  BY <1>1, <1>3 DEF Crash, IInv, TypeOK, Fresh, ReadInv, WriteInv, RandomInv,
     Prepared, Usage, FailureStopsTheTransfer, Late
<1>4. CASE ExecuteFails
  BY <1>1, <1>4 DEF ExecuteFails, IInv, TypeOK, Fresh, ReadInv, WriteInv,
     RandomInv, Prepared, Usage, FailureStopsTheTransfer, Late
<1>5. ASSUME accepted
      PROVE  /\ rc' = rc /\ exit' = exit
             /\ chunkOffset + writeBytes <= IndexSize
             /\ nv' = [p \in Positions |->
                  IF p \in chunkOffset..(chunkOffset + writeBytes - 1)
                  THEN moved + (p - chunkOffset) ELSE nv[p]]
  <2>1. writeBytes \in Nat
    BY <1>1, WriteCounts
  <2> QED BY <1>5, <2>1, BufferAssumption DEF nvwrite_Pass, TpmAccepts
<1>6. CASE accepted /\ request.source = "file"
  <2>1. /\ chunkOffset = request.offset + moved
        /\ writeBytes \in 0..(request.length - moved)
    BY <1>1, <1>6, WriteInRange
  <2>2. writeBytes \in Nat
    BY <1>2, <2>1
  <2>3. request.offset + moved + writeBytes <= IndexSize
    BY <1>5, <1>6, <2>1
  <2>4. moved + writeBytes \in Nat /\ moved + writeBytes < Word
    BY <1>2, <2>1, <2>3, IndexAssumption, WordAssumption
  <2>5. /\ moved' = moved + writeBytes
        /\ at' = IF moved' = request.length THEN "TSS_Delete" ELSE "loop"
    BY <1>6, <2>2, <2>4, FitsTheWord, BufferAssumption DEF nvwrite_Pass
  <2>6. /\ nv' \in [Positions -> {Unset} \union Nat]
        /\ \A p \in Positions : nv'[p] =
             IF p \in (request.offset + moved)..(request.offset + moved + writeBytes - 1)
             THEN p - request.offset ELSE nv[p]
    <3>1. nv \in [Positions -> {Unset} \union Nat]
      BY DEF IInv, TypeOK
    <3>2. nv' = [p \in Positions |->
            IF p \in (request.offset + moved)..(request.offset + moved + writeBytes - 1)
            THEN moved + (p - (request.offset + moved)) ELSE nv[p]]
      BY <1>5, <1>6, <2>1, <2>2
    <3>3. ASSUME NEW p \in Positions,
                 p \in (request.offset + moved)..(request.offset + moved + writeBytes - 1)
          PROVE  /\ moved + (p - (request.offset + moved)) = p - request.offset
                 /\ p - request.offset \in Nat
      BY <1>2, <2>1, <3>3, IndexAssumption DEF Positions
    <3> QED BY <3>1, <3>2, <3>3
  <2>7. TypeOK' /\ Fresh' /\ Prepared' /\ Usage' /\ ReadInv' /\ RandomInv'
    BY <1>1, <1>5, <1>6, <2>4, <2>5, <2>6, WordAssumption DEF IInv, TypeOK, Fresh, Prepared,
       Usage, ReadInv, RandomInv, FailureStopsTheTransfer
  <2>8. moved' <= request.length /\ request.offset + moved' <= IndexSize
    BY <1>2, <2>1, <2>3, <2>5
  <2>9. \A p \in Positions :
          nv'[p] = IF p \in request.offset..(request.offset + moved' - 1)
                   THEN p - request.offset ELSE Unset
    <3>1. \A p \in Positions :
            nv[p] = IF p \in request.offset..(request.offset + moved - 1)
                    THEN p - request.offset ELSE Unset
      BY <1>1, <1>6 DEF IInv, WriteInv
    <3> SUFFICES ASSUME NEW p \in Positions
                 PROVE  nv'[p] = IF p \in request.offset..(request.offset + moved' - 1)
                                 THEN p - request.offset ELSE Unset
      OBVIOUS
    <3>2. p \in Int /\ writeBytes \in Nat
      BY <2>1, <1>2 DEF Positions
    <3>3. p \in request.offset..(request.offset + moved' - 1) <=>
            \/ p \in request.offset..(request.offset + moved - 1)
            \/ p \in (request.offset + moved)..(request.offset + moved + writeBytes - 1)
      BY <1>2, <2>5, <3>2
    <3> QED BY <2>6, <3>1, <3>3
  <2>10. request.offset < Word
    BY <1>1 DEF IInv, WriteInv
  <2>11. WriteInv'
    BY <1>1, <1>5, <1>6, <2>5, <2>8, <2>9, <2>10 DEF WriteInv, Late
  <2> QED BY <2>7, <2>11 DEF IInv
<1>7. CASE accepted /\ request.source # "file"
  <2>1. moved = 0 /\ moved' = moved /\ at' = "TSS_Delete" /\ request.offset < Word
    BY <1>1, <1>7 DEF IInv, WriteInv, nvwrite_Pass
  <2>2. writeBytes = request.length
    BY <1>7 DEF writeBytes
  <2>3. chunkOffset = request.offset
    BY <1>2, <2>1, FitsTheWord DEF chunkOffset
  <2>4. /\ nv' \in [Positions -> {Unset} \union Nat]
        /\ Whole'
    <3>1. nv \in [Positions -> {Unset} \union Nat]
      BY DEF IInv, TypeOK
    <3>2. \A p \in Positions : nv[p] = Unset
      BY <1>1, <1>7 DEF IInv, WriteInv
    <3>3. nv' = [p \in Positions |->
            IF p \in request.offset..(request.offset + request.length - 1)
            THEN p - request.offset ELSE nv[p]]
      BY <1>2, <1>5, <1>7, <2>1, <2>2, <2>3, IndexAssumption DEF Positions
    <3>4. ASSUME NEW p \in Positions,
                 p \in request.offset..(request.offset + request.length - 1)
          PROVE  p - request.offset \in Nat
      BY <1>2, <3>4, IndexAssumption DEF Positions
    <3>5. nv' \in [Positions -> {Unset} \union Nat]
      BY <3>1, <3>3, <3>4
    <3>6. request' = request
      BY <1>1
    <3>7. Whole'
      BY <3>2, <3>3, <3>6 DEF Whole
    <3> QED BY <3>5, <3>7
  <2>5. TypeOK' /\ Fresh' /\ Prepared' /\ Usage' /\ ReadInv' /\ RandomInv'
    BY <1>1, <1>5, <1>7, <2>1, <2>4 DEF IInv, TypeOK, Fresh, Prepared,
       Usage, ReadInv, RandomInv, FailureStopsTheTransfer
  <2>6. WriteInv'
    BY <1>1, <1>7, <2>1, <2>4 DEF WriteInv, Late
  <2> QED BY <2>5, <2>6 DEF IInv
<1> QED BY <1>3, <1>4, <1>6, <1>7 DEF nvwrite_Pass

LEMMA RandomStep ==
  ASSUME IInv, getrandom_Pass
  PROVE  IInv'
<1>1. /\ utility = "getrandom" /\ at = "loop" /\ rc /\ exit = "none"
      /\ UNCHANGED <<utility, request, tssContext, nvBufferMax, limitRead, nv, buffer, rc, exit>>
  BY DEF getrandom_Pass, getrandom_Receives, LoopOf, IInv, Fresh
<1>2. PICK received \in 0..RandomMax : \E nonZero \in 0..received :
        getrandom_Receives(received, nonZero)
  BY DEF getrandom_Pass
<1>3. PICK nonZero \in 0..received : getrandom_Receives(received, nonZero)
  BY <1>2
<1> DEFINE stored == getrandom_Stores(received, nonZero)
<1>4. /\ moved \in Nat /\ request.length \in Nat /\ moved <= request.length
      /\ request.length < Word
  BY <1>1 DEF IInv, TypeOK, RandomInv
<1>5. received \in Nat /\ nonZero \in Nat
  BY RequestAssumption
<1>6. stored \in Nat /\ stored <= request.length - moved
  BY <1>4, <1>5 DEF getrandom_Stores, Least
<1> HIDE DEF stored
<1>7. /\ moved' = moved + stored
      /\ written' = IF request.noZeros THEN moved' + 1 ELSE moved'
      /\ at' = IF moved' < request.length THEN "loop" ELSE "TSS_Delete"
  BY <1>3 DEF getrandom_Receives, stored
<1>8. moved' \in 0..(Word - 1) /\ moved' <= request.length /\ written' \in Nat
      /\ written' <= request.length + 1
  BY <1>4, <1>6, <1>7, WordAssumption
<1>9. TypeOK' /\ Fresh' /\ Prepared' /\ Usage' /\ ReadInv' /\ WriteInv'
  BY <1>1, <1>7, <1>8 DEF IInv, TypeOK, Fresh, Prepared, Usage, ReadInv, WriteInv,
     FailureStopsTheTransfer
<1>10. RandomInv'
  BY <1>1, <1>4, <1>7, <1>8 DEF RandomInv, Late
<1> QED BY <1>9, <1>10 DEF IInv

\* The invariant is inductive.
LEMMA StepInv == IInv /\ [Next]_vars => IInv'
<1> SUFFICES ASSUME IInv, [Next]_vars PROVE IInv'
  OBVIOUS
<1>1. CASE UNCHANGED vars
  BY <1>1 DEF vars, IInv, TypeOK, Fresh, ReadInv, WriteInv, RandomInv, Prepared, Usage, Late,
     Whole, FailureStopsTheTransfer
<1> QED BY <1>1, OptionsStep, OtherStep, ReadStep, WriteStep, RandomStep DEF Next, Step

THEOREM Invariance == Spec => []IInv
BY InitInv, StepInv, PTL DEF Spec

\* Every value stays in its type: no count of bytes grows beyond its width, and a chunk size
\* that was read is within the limit of the TSS.
THEOREM TypeCorrect == Spec => []TypeOK
<1>1. IInv => TypeOK
  BY DEF IInv
<1> QED BY <1>1, Invariance, PTL

\* nvread's buffer holds the bytes of the index in order, all of them at a success.
THEOREM ReadCorrect == Spec => []ReadBufferIsAPrefix
<1>1. IInv => ReadBufferIsAPrefix
  BY DEF IInv, Fresh, ReadInv, ReadBufferIsAPrefix, Late
<1> QED BY <1>1, Invariance, PTL

\* nvwrite leaves a first part of the file in the index, all of it at a success, however
\* long the file is; and data that must fit in one write is in the index at a success.
THEOREM WriteCorrect == Spec => []IndexHoldsAPrefix
<1>1. IInv => IndexHoldsAPrefix
  <2> SUFFICES ASSUME IInv, utility = "nvwrite" PROVE IndexHoldsAPrefix
    BY DEF IndexHoldsAPrefix
  <2>1. CASE request.source = "file"
    BY <2>1 DEF IInv, Fresh, WriteInv, Usage, IndexHoldsAPrefix, Late
  <2>2. ASSUME request.source \in {"string", "pin"}, exit = "success" PROVE Whole
    <3>1. rc /\ Late /\ exit # "usage" /\ request.source # "file"
      BY <2>2 DEF IInv, Fresh, Late
    <3> QED BY <2>2, <3>1 DEF IInv, WriteInv
  <2> QED BY <2>1, <2>2 DEF IndexHoldsAPrefix, Whole
<1> QED BY <1>1, Invariance, PTL

\* getrandom writes no byte beyond its buffer, whatever the TPM returns.
THEOREM RandomCorrect == Spec => []RandomBufferIsNotOverrun
<1>1. IInv => RandomBufferIsNotOverrun
  <2> SUFFICES ASSUME IInv, utility = "getrandom" PROVE RandomBufferIsNotOverrun
    BY DEF RandomBufferIsNotOverrun
  <2>1. CASE exit = "usage"
    BY <2>1 DEF IInv, TypeOK, Usage, RandomBufferIsNotOverrun
  <2>2. CASE exit # "usage"
    <3>1. exit = "success" => rc /\ Late
      BY DEF IInv, Fresh, Late
    <3> QED BY <2>2, <3>1 DEF IInv, RandomInv, RandomBufferIsNotOverrun
  <2> QED BY <2>1, <2>2
<1> QED BY <1>1, Invariance, PTL

\* A failure stops every transfer but those of nvwrite with -if or -ic.
THEOREM FailureStops == Spec => []FailureStopsTheTransfer
<1>1. IInv => FailureStopsTheTransfer
  BY DEF IInv, Prepared
<1> QED BY <1>1, Invariance, PTL

-----------------------------------------------------------------------------
(* Progress                                                                *)

\* The parts of the three main functions, in their order.
Stage ==
  CASE at = "options" -> 0 [] at = "TSS_Create" -> 1 [] at = "readNvBufferMax" -> 2
    [] at = "data" -> 3 [] at = "loop" -> 4 [] at = "TSS_Delete" -> 5
    [] at = "output" -> 6 [] OTHER -> 7

\* One more pass of a loop, that moved at least a byte and left at least one to move.
ChunkMoved ==
  /\ at = "loop" /\ at' = "loop" /\ request' = request
  /\ moved < moved' /\ moved' < request.length

\* The only passes that bring a program no nearer to its end: getrandom's, when the TPM
\* returned no byte that counts, and nvwrite's with a chunk size that was never assigned.
IdlePass ==
  /\ at = "loop" /\ at' = "loop" /\ moved' = moved
  /\ \/ utility = "getrandom"
     \/ utility = "nvwrite" /\ request.source = "file" /\ ~limitRead

\* A step of a program brings it nearer to its end, or is one of the idle passes.
Advances == Stage < Stage' \/ ChunkMoved \/ IdlePass

\* A chunk size that was read is not zero.
Sized == limitRead => nvBufferMax > 0

LEMMA SizedInv == Spec => []Sized
<1>1. Init => Sized
  BY DEF Init, Sized
<1>2. Sized /\ [Next]_vars => Sized'
  <2> SUFFICES ASSUME Sized, [Next]_vars PROVE Sized'
    OBVIOUS
  <2>1. CASE readNvBufferMax
    <3>1. CASE UNCHANGED <<nvBufferMax, limitRead>>
      BY <3>1 DEF Sized
    <3>2. ASSUME NEW value \in {TpmNvBufferMax, BackLevelBufferMax},
                 nvBufferMax' = Least(value, MAX_NV_BUFFER_SIZE)
          PROVE  Sized'
      BY <3>2, BufferAssumption DEF Least, Sized
    <3> QED BY <2>1, <3>1, <3>2 DEF readNvBufferMax
  <2>2. CASE UNCHANGED <<nvBufferMax, limitRead>>
    BY <2>2 DEF Sized
  <2> QED BY <2>1, <2>2 DEF Next, Step, vars, Unchanged, nvread_Options, nvwrite_Options,
     getrandom_Options, TSS_Create, nvwrite_Data, CommandFails, nvread_Pass, nvwrite_Pass,
     getrandom_Pass, TSS_Delete, Output
<1> QED BY <1>1, <1>2, PTL DEF Spec

LEMMA AdvancesOutsideLoops ==
  ASSUME \/ nvread_Options \/ nvwrite_Options \/ getrandom_Options \/ TSS_Create
         \/ readNvBufferMax \/ nvwrite_Data \/ CommandFails \/ TSS_Delete \/ Output
  PROVE  Stage < Stage'
<1>1. CASE nvread_Options \/ nvwrite_Options \/ getrandom_Options
  <2>1. at = "options" /\ at' \in {"TSS_Create", "end"}
    BY <1>1 DEF nvread_Options, nvwrite_Options, getrandom_Options, printUsage
  <2> QED BY <2>1 DEF Stage
<1>2. CASE TSS_Create
  <2>1. at = "TSS_Create" /\ at' \in {"loop", "readNvBufferMax"}
    BY <1>2 DEF TSS_Create
  <2> QED BY <2>1 DEF Stage
<1>3. CASE readNvBufferMax
  <2>1. at = "readNvBufferMax" /\ at' \in {"loop", "data"}
    BY <1>3 DEF readNvBufferMax
  <2> QED BY <2>1 DEF Stage
<1>4. CASE nvwrite_Data
  BY <1>4 DEF nvwrite_Data, Stage
<1>5. CASE CommandFails
  BY <1>5 DEF CommandFails, ExecuteFails, Stage
<1>6. CASE TSS_Delete \/ Output
  <2>1. \/ at \in {"loop", "TSS_Delete"} /\ at' = "output"
        \/ at = "output" /\ at' = "end"
    BY <1>6 DEF TSS_Delete, Output
  <2> QED BY <2>1 DEF Stage
<1> QED BY <1>1, <1>2, <1>3, <1>4, <1>5, <1>6

\* A pass over a chunk, whole and not wrapped: moved' is moved and its size.
LEMMA AdvancesOverChunk ==
  ASSUME IInv, Sized, at = "loop", limitRead, request' = request,
         utility = "nvread" \/ (utility = "nvwrite" /\ request.source = "file"),
         chunkSize \in 0..(request.length - moved), moved' = moved + chunkSize,
         at' = IF moved' = request.length THEN "TSS_Delete" ELSE "loop"
  PROVE  Stage < Stage' \/ ChunkMoved
<1>1. moved \in Nat /\ request.length \in Nat /\ nvBufferMax \in Nat
  BY BufferAssumption DEF IInv, TypeOK
<1>2. CASE moved' = request.length
  BY <1>2 DEF Stage
<1>3. CASE moved' # request.length
  <2>1. request.length - moved > 0 /\ nvBufferMax > 0
    BY <1>1, <1>3 DEF Sized
  <2>2. chunkSize > 0
    BY <1>1, <2>1 DEF chunkSize, Least
  <2> QED BY <1>1, <1>3, <2>2 DEF ChunkMoved
<1> QED BY <1>2, <1>3

LEMMA ReadAdvances ==
  ASSUME IInv, Sized, nvread_Pass
  PROVE  Advances
<1>1. utility = "nvread" /\ at = "loop" /\ rc /\ request' = request
  BY DEF nvread_Pass, LoopOf
<1>2. limitRead
  BY <1>1 DEF IInv, Prepared, FailureStopsTheTransfer
<1>3. CASE ~TpmAccepts(chunkOffset, chunkSize)
  BY <1>1, <1>3 DEF nvread_Pass, ExecuteFails, Stage, Advances
<1>4. CASE TpmAccepts(chunkOffset, chunkSize)
  <2>1. /\ chunkOffset = request.offset + moved
        /\ chunkSize \in 0..(request.length - moved)
    BY <1>1, ChunkInRange
  <2>2. request.offset \in Nat /\ moved \in Nat /\ request.length \in Nat
    BY DEF IInv, TypeOK
  <2>3. request.offset + moved + chunkSize <= IndexSize
    BY <2>1, <1>4 DEF TpmAccepts
  <2>4. moved + chunkSize \in Nat /\ moved + chunkSize < Word
    BY <2>1, <2>2, <2>3, IndexAssumption, WordAssumption
  <2>5. moved' = moved + chunkSize
    BY <1>4, <2>4, FitsTheWord DEF nvread_Pass
  <2>6. at' = IF moved' = request.length THEN "TSS_Delete" ELSE "loop"
    BY <1>4 DEF nvread_Pass
  <2> QED BY <1>1, <1>2, <2>1, <2>5, <2>6, AdvancesOverChunk DEF Advances
<1> QED BY <1>3, <1>4

LEMMA WriteAdvances ==
  ASSUME IInv, Sized, nvwrite_Pass
  PROVE  Advances
<1>1. utility = "nvwrite" /\ at = "loop" /\ rc /\ request' = request
  BY DEF nvwrite_Pass, LoopOf
<1>2. request.offset \in Nat /\ moved \in Nat /\ request.length \in Nat
  BY DEF IInv, TypeOK
<1> DEFINE accepted == /\ tssContext /\ writeBytes <= MAX_NV_BUFFER_SIZE
                      /\ TpmAccepts(chunkOffset, writeBytes)
<1>3. CASE ~accepted \/ request.source # "file"
  <2>1. at' \in {"TSS_Delete", "end"}
    BY <1>3 DEF nvwrite_Pass, Crash, ExecuteFails
  <2> QED BY <1>1, <2>1 DEF Stage, Advances
<1>4. CASE accepted /\ request.source = "file"
  <2>1. /\ chunkOffset = request.offset + moved
        /\ writeBytes \in 0..(request.length - moved)
        /\ limitRead => writeBytes = chunkSize
    BY <1>1, <1>4, WriteInRange
  <2>2. writeBytes \in Nat
    BY <1>1, WriteCounts
  <2>3. request.offset + moved + writeBytes <= IndexSize
    BY <1>4, <2>1 DEF TpmAccepts
  <2>4. moved + writeBytes \in Nat /\ moved + writeBytes < Word
    BY <1>2, <2>1, <2>3, IndexAssumption, WordAssumption
  <2>5. /\ moved' = moved + writeBytes
        /\ at' = IF moved' = request.length THEN "TSS_Delete" ELSE "loop"
    BY <1>4, <2>2, <2>4, FitsTheWord, BufferAssumption DEF nvwrite_Pass
  <2>6. CASE limitRead
    BY <1>1, <1>4, <2>1, <2>5, <2>6, AdvancesOverChunk DEF Advances
  <2>7. CASE ~limitRead
    <3>1. CASE moved' = request.length
      BY <1>1, <2>5, <3>1 DEF Stage, Advances
    <3>2. CASE moved' # request.length /\ moved' = moved
      BY <1>1, <1>4, <2>5, <2>7, <3>2 DEF IdlePass, Advances
    <3>3. CASE moved' # request.length /\ moved' # moved
      <4>1. moved < moved' /\ moved' < request.length
        BY <1>2, <2>1, <2>5, <3>3
      <4> QED BY <1>1, <2>5, <3>3, <4>1 DEF ChunkMoved, Advances
    <3> QED BY <3>1, <3>2, <3>3
  <2> QED BY <2>6, <2>7
<1> QED BY <1>3, <1>4

LEMMA RandomAdvances ==
  ASSUME IInv, getrandom_Pass
  PROVE  Advances
<1>1. utility = "getrandom" /\ at = "loop" /\ rc /\ request' = request /\ exit # "usage"
  BY DEF getrandom_Pass, LoopOf, IInv, Fresh
<1>2. PICK received \in 0..RandomMax : \E nonZero \in 0..received :
        getrandom_Receives(received, nonZero)
  BY DEF getrandom_Pass
<1>3. PICK nonZero \in 0..received : getrandom_Receives(received, nonZero)
  BY <1>2
<1> DEFINE stored == getrandom_Stores(received, nonZero)
<1>4. moved \in Nat /\ request.length \in Nat /\ moved <= request.length
  BY <1>1 DEF IInv, TypeOK, RandomInv
<1>5. received \in Nat /\ nonZero \in Nat
  BY RequestAssumption
<1>6. stored \in Nat
  BY <1>4, <1>5 DEF getrandom_Stores, Least
<1> HIDE DEF stored
<1>7. /\ moved' = moved + stored
      /\ at' = IF moved' < request.length THEN "loop" ELSE "TSS_Delete"
  BY <1>3 DEF getrandom_Receives, stored
<1>8. CASE ~(moved' < request.length)
  BY <1>1, <1>7, <1>8 DEF Stage, Advances
<1>9. CASE moved' < request.length /\ stored = 0
  BY <1>1, <1>4, <1>7, <1>9 DEF IdlePass, Advances
<1>10. CASE moved' < request.length /\ stored # 0
  <2>1. moved < moved'
    BY <1>4, <1>6, <1>7, <1>10
  <2> QED BY <1>1, <1>7, <1>10, <2>1 DEF ChunkMoved, Advances
<1> QED BY <1>8, <1>9, <1>10

\* The loops of nvread, nvwrite and getrandom end, but for what the TPM may do: every step of
\* a program goes on to a later part of its main function, or is a pass that brings the number
\* of bytes moved nearer to the number asked for; there are no more passes than bytes.  The
\* exceptions are named: a TPM that returns no byte that counts, and nvwrite with -if after a
\* failure it forgot.
THEOREM ProgressCorrect == Spec => [][Advances]_vars
<1>1. IInv /\ Sized /\ [Next]_vars => [Advances]_vars
  BY AdvancesOutsideLoops, ReadAdvances, WriteAdvances, RandomAdvances DEF Next, Step, Advances
<1> QED BY <1>1, Invariance, SizedInv, PTL DEF Spec
=================================================================================
