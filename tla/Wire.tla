-------------------------------- MODULE Wire --------------------------------
(***************************************************************************)
(* The wire format of the TPM: the streams that the marshaling functions   *)
(* of the TSS write and the unmarshaling functions read, and the formats.  *)
(*                                                                         *)
(* A function of tssmarshal.c, Unmarshal.c or Commands.c is written as the *)
(* format it processes; WireFunctions says what the functions do with a    *)
(* format.                                                                 *)
(*                                                                         *)
(* A stream has a size and chunks: from a byte on, n bytes written         *)
(* together that hold the number v, under the key they are encrypted with. *)
(* A read that does not begin and end where a write did, or that meets     *)
(* encrypted bytes, gets Garbage (but any part of a chunk of zeroes is     *)
(* zero).                                                                  *)
(***************************************************************************)
EXTENDS Integers, Sequences, SequencesExt, TLC

Clear == <<>>

Empty == [size |-> 0, chunks |-> {}]

Chunk(n, v) == [size |-> n, chunks |-> {[at |-> 0, n |-> n, v |-> v, key |-> Clear]}]

Bytes(n, v) == IF n = 0 THEN Empty ELSE Chunk(n, v)

Garbage == -99

Moved(chunk, distance) ==
  [at |-> chunk.at + distance, n |-> chunk.n, v |-> chunk.v, key |-> chunk.key]

\* One stream after another.
first ++ second ==
  [size |-> first.size + second.size,
   chunks |-> first.chunks \union {Moved(c, first.size) : c \in second.chunks}]

\* What is left of a chunk.
Part(chunk, at, n) ==
  [at |-> at, n |-> n, v |-> IF chunk.v = 0 THEN 0 ELSE Garbage, key |-> chunk.key]

EndOf(chunk) == chunk.at + chunk.n

\* The chunks the n-th byte is inside of.
Cut(stream, n) == {c \in stream.chunks : c.at < n /\ n < EndOf(c)}

\* The stream without its first n bytes, which may end inside a chunk.
Skip(stream, n) ==
  IF stream.size <= n THEN Empty
  ELSE [size |-> stream.size - n,
        chunks |-> {Moved(c, -n) : c \in {c \in stream.chunks : n <= c.at}}
                     \union {Part(c, 0, EndOf(c) - n) : c \in Cut(stream, n)}]

\* The first n bytes.
Prefix(stream, n) ==
  IF stream.size <= n THEN stream
  ELSE [size |-> n,
        chunks |-> {c \in stream.chunks : EndOf(c) <= n}
                     \union {Part(c, c.at, n - c.at) : c \in Cut(stream, n)}]

\* What a marshaling function returns.
Stream(s) == [ok |-> TRUE, stream |-> s]
Refused == [ok |-> FALSE, stream |-> Empty]

\* What encrypted the bytes of a chunk: sessions, for a command or a response, algorithms.
Directions == {"command", "response"}

Algorithms == {"none", "xor", "aes128", "aes256"}

CipherKeys == Seq(Nat \X Directions \X Algorithms)

IsChunk(c) ==
  /\ c = [at |-> c.at, n |-> c.n, v |-> c.v, key |-> c.key]
  /\ c.at \in Nat /\ c.n \in Nat \ {0} /\ c.key \in CipherKeys

IsStream(stream) ==
  /\ stream = [size |-> stream.size, chunks |-> stream.chunks]
  /\ stream.size \in Nat
  /\ \A c \in stream.chunks : IsChunk(c) /\ EndOf(c) <= stream.size

InTheClear(stream) == \A c \in stream.chunks : c.key = Clear

-----------------------------------------------------------------------------
(* Formats                                                                 *)

\* A number of n bytes; limits is a sequence of sets of ranges <<first, last>>.
Number(n) == [kind |-> "int", n |-> n, limits |-> <<>>, reserved |-> {}]

Within(format, ranges) == [format EXCEPT !.limits = Append(@, ranges)]

Only(format, values) == Within(format, {<<v, v>> : v \in values})

\* A number whose reserved bits must be clear.
Flags(format, bits) == [format EXCEPT !.reserved = @ \union bits]

\* A two byte size and as many bytes, max at most.
Buffer(max) == [kind |-> "buffer", max |-> max]

\* A structure after its two byte size.
Sized(format) == [kind |-> "sized", format |-> format]

\* A sized structure or, alone, a size of zero.
Optional(format) == [kind |-> "optional", format |-> format]

\* A four byte count and as many structures, min to max of them.
List(min, max, format) == [kind |-> "list", min |-> min, max |-> max, format |-> format]

\* n bytes, or as many as the field of that name of the same structure says.
Array(n) == [kind |-> "array", n |-> n]
ArrayOf == [kind |-> "arrayOf"]

\* Fields <<name, format>> or <<name, format, selector>> in the order of the stream.
Struct(fields) == [kind |-> "struct", fields |-> fields]

\* A union: a function of the selector to a format.  Another selector is refused,
\* or stands for no bytes at all.
Union(cases) == [kind |-> "union", cases |-> cases, default |-> "refused"]
UnionOrNothing(cases) == [kind |-> "union", cases |-> cases, default |-> "nothing"]

Nothing == [kind |-> "nothing"]

If(condition, value) == IF condition THEN {value} ELSE {}

Selector(field, record) == IF Len(field) = 3 THEN record[field[3]] ELSE 0

\* A record with the fields of both.
Joined(f, g) ==
  [x \in DOMAIN f \union DOMAIN g |-> IF x \in DOMAIN f THEN f[x] ELSE g[x]]

-----------------------------------------------------------------------------
(* Numbers                                                                 *)

Value(v, rest) == [ok |-> TRUE, value |-> v, rest |-> rest]
NoValue == [ok |-> FALSE, value |-> 0, rest |-> Empty]

\* The chunks that are n bytes from the beginning, in the clear.
Whole(stream, n) == {c \in Prefix(stream, n).chunks : c.n = n /\ c.key = Clear}

\* The number in the first n bytes.
Read(stream, n) ==
  IF n = 0 THEN Value(0, stream)
  ELSE IF stream.size < n THEN NoValue
  ELSE LET whole == Whole(stream, n)
       IN  Value(IF whole = {} THEN Garbage ELSE (CHOOSE c \in whole : TRUE).v, Skip(stream, n))

BitIsSet(v, bit) == IF bit = 31 THEN v < 0 ELSE (v \div 2 ^ bit) % 2 = 1

Allowed(format, v) ==
  /\ \A i \in DOMAIN format.limits : \E range \in format.limits[i] : range[1] <= v /\ v <= range[2]
  /\ \A bit \in format.reserved : ~BitIsSet(v, bit)

\* The number in a field of that format.
ReadNumber(format, stream) ==
  LET r == Read(stream, format.n)
  IN  IF r.ok /\ Allowed(format, r.value) THEN r ELSE NoValue

=============================================================================
