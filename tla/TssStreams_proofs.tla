-------------------------- MODULE TssStreams_proofs --------------------------
(***************************************************************************)
(* The TPM gets the command of the application, and the application the    *)
(* response of the TPM, for any calls, whatever the structures are made    *)
(* of, as long as the functions that write and read them agree             *)
(* (StructureReadsBack).                                                   *)
(*                                                                         *)
(* First what joining, cutting, reading and encrypting does to a stream;   *)
(* then the stream of the command after each step (IInv); then what the    *)
(* TPM takes out of it, and the stream of the response (RInv).             *)
(***************************************************************************)
EXTENDS TssStreams, FiniteSetTheorems, TLAPS

-----------------------------------------------------------------------------
(* Streams: joining, cutting and reading                                   *)

\* What a chunk and its parts have in common, wherever they are moved to.
Raw(c) == c = [at |-> c.at, n |-> c.n, v |-> c.v, key |-> c.key] /\ c.at \in Int

LEMMA ChunkIsRaw == ASSUME NEW c, IsChunk(c) PROVE Raw(c)
BY DEF IsChunk, Raw

LEMMA MovedRaw ==
  ASSUME NEW c, Raw(c), NEW k \in Int
  PROVE  /\ Raw(Moved(c, k))
         /\ Moved(c, k).at = c.at + k /\ Moved(c, k).n = c.n
         /\ Moved(c, k).v = c.v /\ Moved(c, k).key = c.key
BY DEF Raw, Moved

\* Two moves are one.
LEMMA MovedTwice ==
  ASSUME NEW c, Raw(c), NEW k \in Int, NEW l \in Int
  PROVE  Moved(Moved(c, k), l) = Moved(c, k + l)
<1>1. c.at + k + l = c.at + (k + l)
  BY DEF Raw
<1>2. QED
  BY <1>1 DEF Moved

LEMMA MovedNowhere == ASSUME NEW c, Raw(c) PROVE Moved(c, 0) = c
BY DEF Moved, Raw

\* A move back undoes a move.
LEMMA MovedBack ==
  ASSUME NEW c, Raw(c), NEW k \in Int
  PROVE  Moved(Moved(c, k), -k) = c /\ Moved(Moved(c, -k), k) = c
<1>1. k + (-k) = 0 /\ (-k) + k = 0 /\ -k \in Int
  OBVIOUS
<1>2. QED
  BY <1>1, MovedTwice, MovedNowhere

LEMMA StreamChunks ==
  ASSUME NEW s, IsStream(s), NEW c \in s.chunks
  PROVE  /\ Raw(c) /\ IsChunk(c) /\ c.at \in Nat /\ c.n \in Nat \ {0}
         /\ EndOf(c) = c.at + c.n /\ EndOf(c) <= s.size /\ s.size \in Nat
<1>1. IsChunk(c) /\ EndOf(c) <= s.size /\ s.size \in Nat
  BY DEF IsStream
<1>2. QED
  BY <1>1, ChunkIsRaw DEF IsChunk, EndOf

\* A stream is its size and its chunks.
LEMMA SameStream ==
  ASSUME NEW s, NEW t, IsStream(s), IsStream(t), s.size = t.size,
         \A x : Raw(x) => (x \in s.chunks <=> x \in t.chunks)
  PROVE  s = t
<1>1. \A x : x \in s.chunks <=> x \in t.chunks
  BY StreamChunks
<1>2. s.chunks = t.chunks
  BY <1>1
<1>3. QED
  BY <1>2 DEF IsStream

\* The chunks of two streams joined.
LEMMA InConcat ==
  ASSUME NEW s, NEW t, IsStream(s), IsStream(t), NEW x, Raw(x)
  PROVE  x \in (s ++ t).chunks <=> x \in s.chunks \/ Moved(x, -s.size) \in t.chunks
<1>1. (s ++ t).chunks = s.chunks \union {Moved(c, s.size) : c \in t.chunks}
  BY DEF ++
<1>2. ASSUME NEW c \in t.chunks
      PROVE  Moved(Moved(c, s.size), -s.size) = c
  BY StreamChunks, MovedBack DEF IsStream
<1>3. Moved(Moved(x, -s.size), s.size) = x
  BY MovedBack DEF IsStream
<1>4. QED
  BY <1>1, <1>2, <1>3

\* Two streams joined are a stream.
LEMMA ConcatStream ==
  ASSUME NEW s, NEW t, IsStream(s), IsStream(t)
  PROVE  IsStream(s ++ t) /\ (s ++ t).size = s.size + t.size
<1>1. s ++ t = [size |-> s.size + t.size, chunks |-> s.chunks \union {Moved(c, s.size) : c \in t.chunks}]
  BY DEF ++
<1>2. s.size \in Nat /\ t.size \in Nat
  BY DEF IsStream
<1>3. ASSUME NEW c \in s.chunks PROVE IsChunk(c) /\ EndOf(c) <= s.size + t.size
  BY <1>2, StreamChunks
<1>4. ASSUME NEW d \in t.chunks PROVE IsChunk(Moved(d, s.size)) /\ EndOf(Moved(d, s.size)) <= s.size + t.size
  <2>1. IsChunk(d) /\ EndOf(d) <= t.size
    BY DEF IsStream
  <2>2. QED
    BY <1>2, <2>1 DEF IsChunk, EndOf, Moved
<1>5. \A c \in (s ++ t).chunks : IsChunk(c) /\ EndOf(c) <= s.size + t.size
  BY <1>1, <1>3, <1>4
<1>6. QED
  BY <1>1, <1>2, <1>5 DEF IsStream

\* Streams can be joined in any order.
LEMMA ConcatAssociates ==
  ASSUME NEW s, NEW t, NEW u, IsStream(s), IsStream(t), IsStream(u)
  PROVE  (s ++ t) ++ u = s ++ (t ++ u)
<1>1. /\ IsStream(s ++ t) /\ IsStream(t ++ u) /\ IsStream((s ++ t) ++ u) /\ IsStream(s ++ (t ++ u))
      /\ (s ++ t).size = s.size + t.size
      /\ ((s ++ t) ++ u).size = s.size + t.size + u.size
      /\ (s ++ (t ++ u)).size = s.size + (t.size + u.size)
  BY ConcatStream
<1>2. s.size \in Nat /\ t.size \in Nat /\ u.size \in Nat
  BY DEF IsStream
<1>3. ASSUME NEW x, Raw(x)
      PROVE  x \in ((s ++ t) ++ u).chunks <=> x \in (s ++ (t ++ u)).chunks
  <2>1. Raw(Moved(x, -s.size))
    BY <1>2, <1>3, MovedRaw
  <2>2. Moved(Moved(x, -s.size), -t.size) = Moved(x, -(s.size + t.size))
    <3>1. (-s.size) + (-t.size) = -(s.size + t.size) /\ -s.size \in Int /\ -t.size \in Int
      BY <1>2
    <3>2. QED
      BY <1>3, <3>1, MovedTwice
  <2>3. x \in ((s ++ t) ++ u).chunks
          <=> x \in (s ++ t).chunks \/ Moved(x, -(s.size + t.size)) \in u.chunks
    BY <1>1, <1>3, InConcat
  <2>4. x \in (s ++ t).chunks <=> x \in s.chunks \/ Moved(x, -s.size) \in t.chunks
    BY <1>3, InConcat
  <2>5. x \in (s ++ (t ++ u)).chunks <=> x \in s.chunks \/ Moved(x, -s.size) \in (t ++ u).chunks
    BY <1>1, <1>3, InConcat
  <2>6. Moved(x, -s.size) \in (t ++ u).chunks
          <=> Moved(x, -s.size) \in t.chunks \/ Moved(x, -(s.size + t.size)) \in u.chunks
    BY <2>1, <2>2, InConcat
  <2>7. QED
    BY <2>3, <2>4, <2>5, <2>6
<1>4. QED
  BY <1>1, <1>2, <1>3, SameStream

LEMMA EmptyStream == IsStream(Empty) /\ Empty.size = 0 /\ Empty.chunks = {}
BY DEF IsStream, Empty

LEMMA NoBytes == ASSUME NEW s, IsStream(s), s.size = 0 PROVE s = Empty
<1>1. ASSUME NEW c \in s.chunks PROVE FALSE
  BY StreamChunks
<1>2. QED
  BY <1>1 DEF IsStream, Empty

\* A stream without bytes adds nothing.
LEMMA ConcatEmpty == ASSUME NEW s, IsStream(s) PROVE Empty ++ s = s /\ s ++ Empty = s
<1>1. s.size \in Nat /\ IsStream(Empty) /\ Empty.size = 0 /\ Empty.chunks = {}
  BY EmptyStream DEF IsStream
<1>2. /\ IsStream(Empty ++ s) /\ IsStream(s ++ Empty) /\ (Empty ++ s).size = s.size
      /\ (s ++ Empty).size = s.size
  BY <1>1, ConcatStream
<1>3. ASSUME NEW x, Raw(x) PROVE x \in (Empty ++ s).chunks <=> x \in s.chunks
  BY <1>1, <1>3, InConcat, MovedNowhere
<1>4. ASSUME NEW x, Raw(x) PROVE x \in (s ++ Empty).chunks <=> x \in s.chunks
  BY <1>1, <1>4, InConcat
<1>5. QED
  BY <1>2, <1>3, <1>4, SameStream

\* The chunks behind the first n bytes, and those in them.
LEMMA InSkip ==
  ASSUME NEW s, IsStream(s), NEW n \in Nat, n < s.size, NEW x, Raw(x)
  PROVE  x \in Skip(s, n).chunks
           <=> \/ x.at >= 0 /\ Moved(x, n) \in s.chunks
               \/ \E c \in Cut(s, n) : x = Part(c, 0, EndOf(c) - n)
<1>1. Skip(s, n).chunks = {Moved(c, -n) : c \in {c \in s.chunks : n <= c.at}}
                            \union {Part(c, 0, EndOf(c) - n) : c \in Cut(s, n)}
  BY DEF Skip, IsStream
<1>2. ASSUME NEW c \in s.chunks PROVE Moved(Moved(c, -n), n) = c /\ Moved(c, -n).at = c.at - n
  <2>1. Raw(c) /\ c.at \in Nat /\ n \in Int /\ -n \in Int /\ c.at + (-n) = c.at - n
    BY StreamChunks
  <2>2. QED
    BY <2>1, MovedBack, MovedRaw
<1>3. Moved(Moved(x, n), -n) = x /\ Moved(x, n).at = x.at + n
  BY MovedBack, MovedRaw
<1>4. x \in {Moved(c, -n) : c \in {c \in s.chunks : n <= c.at}}
        <=> x.at >= 0 /\ Moved(x, n) \in s.chunks
  <2>1. ASSUME NEW c \in s.chunks, n <= c.at, x = Moved(c, -n)
        PROVE  x.at >= 0 /\ Moved(x, n) \in s.chunks
    BY <1>2, <2>1, StreamChunks
  <2>2. ASSUME x.at >= 0, Moved(x, n) \in s.chunks
        PROVE  \E c \in s.chunks : n <= c.at /\ x = Moved(c, -n)
    BY <1>3, <2>2 DEF Raw
  <2>3. QED
    BY <2>1, <2>2
<1>5. QED
  BY <1>1, <1>4

LEMMA InPrefix ==
  ASSUME NEW s, IsStream(s), NEW n \in Nat, n < s.size, NEW x, Raw(x)
  PROVE  x \in Prefix(s, n).chunks
           <=> \/ x \in s.chunks /\ EndOf(x) <= n
               \/ \E c \in Cut(s, n) : x = Part(c, c.at, n - c.at)
BY DEF Prefix, IsStream

\* A part of a stream is a stream.
LEMMA SkipStream ==
  ASSUME NEW s, IsStream(s), NEW n \in Nat, n <= s.size
  PROVE  IsStream(Skip(s, n)) /\ Skip(s, n).size = s.size - n
<1>1. CASE s.size = n
  BY <1>1, EmptyStream DEF Skip
<1>2. CASE n < s.size
  <2>1. s.size \in Nat
    BY DEF IsStream
  <2>2. Skip(s, n) = [size |-> s.size - n,
          chunks |-> {Moved(c, -n) : c \in {c \in s.chunks : n <= c.at}}
                       \union {Part(c, 0, EndOf(c) - n) : c \in Cut(s, n)}]
    BY <1>2, <2>1 DEF Skip
  <2>3. ASSUME NEW c \in s.chunks, n <= c.at
        PROVE  IsChunk(Moved(c, -n)) /\ EndOf(Moved(c, -n)) <= s.size - n
    BY <2>1, <2>3, StreamChunks DEF IsChunk, Moved, EndOf
  <2>4. ASSUME NEW c \in Cut(s, n)
        PROVE  IsChunk(Part(c, 0, EndOf(c) - n)) /\ EndOf(Part(c, 0, EndOf(c) - n)) <= s.size - n
    <3>1. c \in s.chunks /\ n < EndOf(c)
      BY DEF Cut
    <3>2. EndOf(c) - n \in Nat \ {0} /\ EndOf(c) <= s.size
      BY <3>1, StreamChunks
    <3>3. QED
      BY <2>1, <3>1, <3>2, StreamChunks DEF IsChunk, Part, EndOf
  <2>5. QED
    BY <1>2, <2>1, <2>2, <2>3, <2>4 DEF IsStream
<1>3. QED
  BY <1>1, <1>2 DEF IsStream

LEMMA PrefixStream ==
  ASSUME NEW s, IsStream(s), NEW n \in Nat, n <= s.size
  PROVE  IsStream(Prefix(s, n)) /\ Prefix(s, n).size = n
<1>1. CASE s.size = n
  BY <1>1 DEF Prefix
<1>2. CASE n < s.size
  <2>1. s.size \in Nat
    BY DEF IsStream
  <2>2. Prefix(s, n) = [size |-> n,
          chunks |-> {c \in s.chunks : EndOf(c) <= n} \union {Part(c, c.at, n - c.at) : c \in Cut(s, n)}]
    BY <1>2, <2>1 DEF Prefix
  <2>3. ASSUME NEW c \in Cut(s, n)
        PROVE  IsChunk(Part(c, c.at, n - c.at)) /\ EndOf(Part(c, c.at, n - c.at)) <= n
    <3>1. c \in s.chunks /\ c.at < n
      BY DEF Cut
    <3>2. n - c.at \in Nat \ {0} /\ c.at \in Nat
      BY <3>1, StreamChunks
    <3>3. QED
      BY <2>1, <3>1, <3>2, StreamChunks DEF IsChunk, Part, EndOf
  <2>4. QED
    BY <1>2, <2>1, <2>2, <2>3, StreamChunks DEF IsStream
<1>3. QED
  BY <1>1, <1>2 DEF IsStream

\* What a stream is cut into does not depend on what is behind it, and what is behind can be cut
\* alone.
LEMMA CutBefore ==
  ASSUME NEW s, NEW t, IsStream(s), IsStream(t), NEW n \in Nat, n <= s.size
  PROVE  Cut(s ++ t, n) = Cut(s, n)
<1>1. ASSUME NEW c \in t.chunks PROVE ~(Moved(c, s.size).at < n)
  <2>1. Raw(c) /\ c.at \in Nat /\ s.size \in Nat
    BY StreamChunks DEF IsStream
  <2>2. Moved(c, s.size).at = c.at + s.size
    BY DEF Moved
  <2>3. QED
    BY <2>1, <2>2
<1>2. QED
  BY <1>1 DEF Cut, ++

LEMMA SkipBefore ==
  ASSUME NEW s, NEW t, IsStream(s), IsStream(t), NEW n \in Nat, n <= s.size
  PROVE  Skip(s ++ t, n) = Skip(s, n) ++ t
<1>0. /\ s.size \in Nat /\ t.size \in Nat /\ IsStream(s ++ t) /\ (s ++ t).size = s.size + t.size
      /\ IsStream(Skip(s, n)) /\ Skip(s, n).size = s.size - n
      /\ IsStream(Skip(s ++ t, n)) /\ Skip(s ++ t, n).size = s.size + t.size - n
      /\ IsStream(Skip(s, n) ++ t) /\ (Skip(s, n) ++ t).size = s.size - n + t.size
  <2>1. s.size \in Nat /\ t.size \in Nat /\ IsStream(s ++ t) /\ (s ++ t).size = s.size + t.size
    BY ConcatStream DEF IsStream
  <2>2. IsStream(Skip(s, n)) /\ Skip(s, n).size = s.size - n
    BY SkipStream
  <2>3. QED
    BY <2>1, <2>2, ConcatStream, SkipStream
<1>1. CASE t.size = 0
  <2>1. t = Empty
    BY <1>1, NoBytes
  <2>2. QED
    BY <1>0, <2>1, ConcatEmpty
<1>2. CASE t.size # 0
  <2>1. n < (s ++ t).size
    BY <1>0, <1>2
  <2>2. ASSUME NEW x, Raw(x)
        PROVE  x \in Skip(s ++ t, n).chunks <=> x \in (Skip(s, n) ++ t).chunks
    <3>1. x \in Skip(s ++ t, n).chunks
            <=> \/ x.at >= 0 /\ Moved(x, n) \in (s ++ t).chunks
                \/ \E c \in Cut(s, n) : x = Part(c, 0, EndOf(c) - n)
      BY <1>0, <2>1, <2>2, InSkip, CutBefore
    <3>2. Raw(Moved(x, n)) /\ Moved(Moved(x, n), -s.size) = Moved(x, -(s.size - n))
      <4>1. n + (-s.size) = -(s.size - n) /\ -s.size \in Int
        BY <1>0
      <4>2. QED
        BY <2>2, <4>1, MovedRaw, MovedTwice
    <3>3. Moved(x, n) \in (s ++ t).chunks
            <=> Moved(x, n) \in s.chunks \/ Moved(x, -(s.size - n)) \in t.chunks
      BY <3>2, InConcat
    <3>4. Moved(x, -(s.size - n)) \in t.chunks => x.at >= 0
      <4>1. s.size - n \in Nat /\ -(s.size - n) \in Int
        BY <1>0
      <4>2. Moved(x, -(s.size - n)).at = x.at + (-(s.size - n))
        BY <2>2, <4>1, MovedRaw
      <4>3. QED
        BY <2>2, <4>1, <4>2, StreamChunks DEF Raw
    <3>5. x \in (Skip(s, n) ++ t).chunks
            <=> x \in Skip(s, n).chunks \/ Moved(x, -(s.size - n)) \in t.chunks
      BY <1>0, <2>2, InConcat
    <3>6. CASE n < s.size
      <4>1. x \in Skip(s, n).chunks
              <=> \/ x.at >= 0 /\ Moved(x, n) \in s.chunks
                  \/ \E c \in Cut(s, n) : x = Part(c, 0, EndOf(c) - n)
        BY <2>2, <3>6, InSkip
      <4>2. QED
        BY <3>1, <3>3, <3>4, <3>5, <4>1
    <3>7. CASE n = s.size
      <4>1. Skip(s, n).chunks = {}
        BY <1>0, <3>7, EmptyStream DEF Skip
      <4>2. ~(x.at >= 0 /\ Moved(x, n) \in s.chunks)
        BY <1>0, <2>2, <3>7, StreamChunks, MovedRaw DEF Raw
      <4>3. Cut(s, n) = {}
        BY <1>0, <3>7, StreamChunks DEF Cut
      <4>4. QED
        BY <3>1, <3>3, <3>4, <3>5, <4>1, <4>2, <4>3
    <3>8. QED
      BY <1>0, <3>6, <3>7
  <2>3. QED
    BY <1>0, <2>2, SameStream
<1>3. QED
  BY <1>1, <1>2

LEMMA CutBehind ==
  ASSUME NEW s, NEW t, IsStream(s), IsStream(t), NEW n \in Nat
  PROVE  Cut(s ++ t, s.size + n) = {Moved(c, s.size) : c \in Cut(t, n)}
<1>1. ASSUME NEW c \in s.chunks PROVE ~(s.size + n < EndOf(c))
  BY StreamChunks
<1>2. ASSUME NEW c \in t.chunks
      PROVE  /\ Moved(c, s.size).at < s.size + n <=> c.at < n
             /\ s.size + n < EndOf(Moved(c, s.size)) <=> n < EndOf(c)
  <2>1. Raw(c) /\ c.at \in Nat /\ s.size \in Nat /\ c.n \in Nat
    BY StreamChunks DEF IsStream
  <2>2. QED
    BY <2>1 DEF Moved, EndOf
<1>3. QED
  BY <1>1, <1>2 DEF Cut, ++

LEMMA SkipBehind ==
  ASSUME NEW s, NEW t, IsStream(s), IsStream(t), NEW n \in Nat, NEW m \in Nat, m = s.size + n
  PROVE  Skip(s ++ t, m) = Skip(t, n)
<1>0. s.size \in Nat /\ t.size \in Nat /\ IsStream(s ++ t) /\ (s ++ t).size = s.size + t.size
  BY ConcatStream DEF IsStream
<1>1. CASE t.size <= n
  BY <1>0, <1>1 DEF Skip
<1>2. CASE n < t.size
  <2>1. m \in Nat /\ m < (s ++ t).size /\ n <= t.size
    BY <1>0, <1>2
  <2>2. /\ IsStream(Skip(s ++ t, m)) /\ IsStream(Skip(t, n))
        /\ Skip(s ++ t, m).size = Skip(t, n).size
    <3>1. IsStream(Skip(s ++ t, m)) /\ Skip(s ++ t, m).size = (s ++ t).size - m
      BY <1>0, <2>1, SkipStream
    <3>2. IsStream(Skip(t, n)) /\ Skip(t, n).size = t.size - n
      BY <2>1, SkipStream
    <3>3. QED
      BY <1>0, <3>1, <3>2
  <2>3. ASSUME NEW x, Raw(x)
        PROVE  x \in Skip(s ++ t, m).chunks <=> x \in Skip(t, n).chunks
    <3>1. x \in Skip(s ++ t, m).chunks
            <=> \/ x.at >= 0 /\ Moved(x, m) \in (s ++ t).chunks
                \/ \E c \in Cut(s ++ t, m) : x = Part(c, 0, EndOf(c) - m)
      BY <1>0, <2>1, <2>3, InSkip
    <3>2. x \in Skip(t, n).chunks
            <=> \/ x.at >= 0 /\ Moved(x, n) \in t.chunks
                \/ \E c \in Cut(t, n) : x = Part(c, 0, EndOf(c) - n)
      BY <1>2, <2>3, InSkip
    <3>3. Raw(Moved(x, m)) /\ Moved(Moved(x, m), -s.size) = Moved(x, n)
      <4>1. m + (-s.size) = n /\ m \in Int /\ -s.size \in Int
        BY <1>0
      <4>2. Raw(Moved(x, m))
        BY <2>3, <4>1, MovedRaw
      <4>3. Moved(Moved(x, m), -s.size) = Moved(x, m + (-s.size))
        BY <2>3, <4>1, MovedTwice
      <4>4. QED
        BY <4>1, <4>2, <4>3
    <3>4. Moved(x, m) \in (s ++ t).chunks
            <=> Moved(x, m) \in s.chunks \/ Moved(x, n) \in t.chunks
      BY <3>3, InConcat
    <3>5. x.at >= 0 => Moved(x, m) \notin s.chunks
      <4>1. ASSUME Moved(x, m) \in s.chunks, x.at >= 0 PROVE FALSE
        <5>1. Moved(x, m).at = x.at + m /\ x.at \in Int
          BY <2>3 DEF Moved, Raw
        <5>2. Moved(x, m).at < s.size
          BY <4>1, StreamChunks
        <5>3. QED
          BY <1>0, <4>1, <5>1, <5>2
      <4>2. QED
        BY <4>1
    <3>6. ASSUME NEW c \in Cut(t, n)
          PROVE  Part(Moved(c, s.size), 0, EndOf(Moved(c, s.size)) - m) = Part(c, 0, EndOf(c) - n)
      <4>1. c.at \in Nat /\ c.n \in Nat
        BY StreamChunks DEF Cut
      <4>2. c.at + s.size + c.n - m = c.at + c.n - n
        BY <1>0, <4>1
      <4>3. EndOf(Moved(c, s.size)) = c.at + s.size + c.n /\ EndOf(c) = c.at + c.n
        BY DEF Moved, EndOf
      <4>4. EndOf(Moved(c, s.size)) - m = EndOf(c) - n
        BY <1>0, <4>1, <4>2, <4>3
      <4>5. QED
        BY <4>4 DEF Part, Moved
    <3>7. QED
      BY <3>1, <3>2, <3>4, <3>5, <3>6, CutBehind
  <2>4. QED
    BY <2>2, <2>3, SameStream
<1>3. QED
  BY <1>0, <1>1, <1>2

LEMMA PrefixBefore ==
  ASSUME NEW s, NEW t, IsStream(s), IsStream(t), NEW n \in Nat, n <= s.size
  PROVE  Prefix(s ++ t, n) = Prefix(s, n)
<1>0. /\ s.size \in Nat /\ t.size \in Nat /\ IsStream(s ++ t) /\ (s ++ t).size = s.size + t.size
  BY ConcatStream DEF IsStream
<1>1. CASE t.size = 0
  BY <1>1, NoBytes, ConcatEmpty
<1>2. CASE t.size # 0
  <2>1. n < (s ++ t).size /\ n <= (s ++ t).size
    BY <1>0, <1>2
  <2>2. /\ IsStream(Prefix(s ++ t, n)) /\ Prefix(s ++ t, n).size = n
        /\ IsStream(Prefix(s, n)) /\ Prefix(s, n).size = n
    BY <1>0, <2>1, PrefixStream
  <2>3. ASSUME NEW x, Raw(x)
        PROVE  x \in Prefix(s ++ t, n).chunks <=> x \in Prefix(s, n).chunks
    <3>1. x \in Prefix(s ++ t, n).chunks
            <=> \/ x \in (s ++ t).chunks /\ EndOf(x) <= n
                \/ \E c \in Cut(s, n) : x = Part(c, c.at, n - c.at)
      BY <1>0, <2>1, <2>3, InPrefix, CutBefore
    <3>2. x \in (s ++ t).chunks <=> x \in s.chunks \/ Moved(x, -s.size) \in t.chunks
      BY <2>3, InConcat
    <3>3. Moved(x, -s.size) \in t.chunks => ~(EndOf(x) <= n)
      <4>1. ASSUME Moved(x, -s.size) \in t.chunks PROVE ~(EndOf(x) <= n)
        <5>1. x.at \in Int
          BY <2>3 DEF Raw
        <5>2. x.at + (-s.size) \in Nat /\ x.n \in Nat \ {0}
          BY <4>1, StreamChunks DEF Moved
        <5>3. s.size <= x.at
          BY <1>0, <5>1, <5>2
        <5>4. x.n \in Int /\ x.n >= 1 /\ s.size \in Int /\ n \in Int
          BY <1>0, <5>2
        <5>5. ~(x.at + x.n <= n)
          BY <5>1, <5>3, <5>4
        <5>6. QED
          BY <5>5 DEF EndOf
      <4>2. QED
        BY <4>1
    <3>4. CASE n < s.size
      <4>1. x \in Prefix(s, n).chunks
              <=> \/ x \in s.chunks /\ EndOf(x) <= n
                  \/ \E c \in Cut(s, n) : x = Part(c, c.at, n - c.at)
        BY <2>3, <3>4, InPrefix
      <4>2. QED
        BY <3>1, <3>2, <3>3, <4>1
    <3>5. CASE n = s.size
      <4>1. Prefix(s, n) = s
        BY <1>0, <3>5 DEF Prefix
      <4>2. Cut(s, n) = {}
        BY <1>0, <3>5, StreamChunks DEF Cut
      <4>3. x \in s.chunks => EndOf(x) <= n
        BY <3>5, StreamChunks
      <4>4. QED
        BY <3>1, <3>2, <3>3, <4>1, <4>2, <4>3
    <3>6. QED
      BY <1>0, <3>4, <3>5
  <2>4. QED
    BY <2>2, <2>3, SameStream
<1>3. QED
  BY <1>1, <1>2

LEMMA PrefixBehind ==
  ASSUME NEW s, NEW t, IsStream(s), IsStream(t), NEW n \in Nat, NEW m \in Nat, m = s.size + n
  PROVE  Prefix(s ++ t, m) = s ++ Prefix(t, n)
<1>0. s.size \in Nat /\ t.size \in Nat /\ IsStream(s ++ t) /\ (s ++ t).size = s.size + t.size
  BY ConcatStream DEF IsStream
<1>1. CASE t.size <= n
  BY <1>0, <1>1 DEF Prefix
<1>2. CASE n < t.size
  <2>1. m \in Nat /\ m < (s ++ t).size /\ n <= t.size
    BY <1>0, <1>2
  <2>2. /\ IsStream(Prefix(s ++ t, m)) /\ IsStream(Prefix(t, n)) /\ IsStream(s ++ Prefix(t, n))
        /\ Prefix(s ++ t, m).size = (s ++ Prefix(t, n)).size
    BY <1>0, <2>1, PrefixStream, ConcatStream
  <2>3. ASSUME NEW x, Raw(x)
        PROVE  x \in Prefix(s ++ t, m).chunks <=> x \in (s ++ Prefix(t, n)).chunks
    <3>1. x \in Prefix(s ++ t, m).chunks
            <=> \/ x \in (s ++ t).chunks /\ EndOf(x) <= m
                \/ \E c \in Cut(s ++ t, m) : x = Part(c, c.at, m - c.at)
      BY <1>0, <2>1, <2>3, InPrefix
    <3>2. x \in (s ++ t).chunks <=> x \in s.chunks \/ Moved(x, -s.size) \in t.chunks
      BY <2>3, InConcat
    <3>3. x \in s.chunks => EndOf(x) <= m
      BY <1>0, StreamChunks
    <3>4. Raw(Moved(x, -s.size)) /\ Moved(Moved(x, -s.size), s.size) = x
      <4>1. s.size \in Int /\ -s.size \in Int
        BY <1>0
      <4>2. QED
        BY <2>3, <4>1, MovedRaw, MovedBack
    <3>5. x \in (s ++ Prefix(t, n)).chunks
            <=> \/ x \in s.chunks
                \/ Moved(x, -s.size) \in t.chunks /\ EndOf(Moved(x, -s.size)) <= n
                \/ \E c \in Cut(t, n) : Moved(x, -s.size) = Part(c, c.at, n - c.at)
      BY <1>2, <2>2, <2>3, <3>4, InConcat, InPrefix
    <3>6. Moved(x, -s.size) \in t.chunks
            => (EndOf(Moved(x, -s.size)) <= n <=> EndOf(x) <= m)
      <4>1. ASSUME Moved(x, -s.size) \in t.chunks
            PROVE  EndOf(Moved(x, -s.size)) <= n <=> EndOf(x) <= m
        <5>1. x.at \in Int
          BY <2>3 DEF Raw
        <5>2. x.at + (-s.size) \in Nat /\ x.n \in Nat \ {0}
          BY <4>1, StreamChunks DEF Moved
        <5>3. QED
          BY <1>0, <5>1, <5>2 DEF EndOf, Moved
      <4>2. QED
        BY <4>1
    <3>7. ASSUME NEW c \in Cut(t, n)
          PROVE  x = Part(Moved(c, s.size), Moved(c, s.size).at, m - Moved(c, s.size).at)
                   <=> Moved(x, -s.size) = Part(c, c.at, n - c.at)
      <4>1. c.at \in Nat /\ c.n \in Nat
        BY StreamChunks DEF Cut
      <4>2. m - (c.at + s.size) = n - c.at
        BY <1>0, <4>1
      <4>3. Part(Moved(c, s.size), Moved(c, s.size).at, m - Moved(c, s.size).at)
              = Moved(Part(c, c.at, n - c.at), s.size)
        BY <4>2 DEF Part, Moved
      <4>4. Raw(Part(c, c.at, n - c.at))
        BY <4>1 DEF Part, Raw
      <4>5. QED
        BY <1>0, <3>4, <4>3, <4>4, MovedBack
    <3>8. QED
      BY <3>1, <3>2, <3>3, <3>5, <3>6, <3>7, CutBehind
  <2>4. QED
    BY <2>2, <2>3, SameStream
<1>3. QED
  BY <1>0, <1>1, <1>2

LEMMA ChunkStream ==
  ASSUME NEW n \in Nat \ {0}, NEW v
  PROVE  IsStream(Chunk(n, v)) /\ Chunk(n, v).size = n
<1>1. <<>> \in CipherKeys
  BY DEF CipherKeys
<1>2. QED
  BY <1>1 DEF IsStream, IsChunk, Chunk, EndOf, Clear

LEMMA SkipNothing == ASSUME NEW s, IsStream(s) PROVE Skip(s, 0) = s
<1>1. IsStream(Empty) /\ 0 <= Empty.size /\ Skip(Empty, 0) = Empty
  BY EmptyStream DEF Skip
<1>2. Skip(Empty ++ s, 0) = Skip(Empty, 0) ++ s
  BY <1>1, SkipBefore
<1>3. QED
  BY <1>1, <1>2, ConcatEmpty

LEMMA PrefixNothing == ASSUME NEW s, IsStream(s) PROVE Prefix(s, 0) = Empty
<1>1. IsStream(Empty) /\ 0 <= Empty.size /\ Prefix(Empty, 0) = Empty
  BY EmptyStream DEF Prefix
<1>2. Prefix(Empty ++ s, 0) = Prefix(Empty, 0)
  BY <1>1, PrefixBefore
<1>3. QED
  BY <1>1, <1>2, ConcatEmpty

LEMMA SkipFirst ==
  ASSUME NEW s, NEW t, IsStream(s), IsStream(t), NEW n \in Nat, n = s.size
  PROVE  Skip(s ++ t, n) = t
<1>1. Skip(t, 0) = t
  BY SkipNothing
<1>2. QED
  BY <1>1, SkipBehind

LEMMA PrefixFirst ==
  ASSUME NEW s, NEW t, IsStream(s), IsStream(t), NEW n \in Nat, n = s.size
  PROVE  Prefix(s ++ t, n) = s
<1>1. Prefix(s ++ t, n) = Prefix(s, n)
  BY PrefixBefore
<1>2. QED
  BY <1>1 DEF Prefix

\* A number is read whatever is behind it.
LEMMA ReadBefore ==
  ASSUME NEW s, NEW t, IsStream(s), IsStream(t), NEW n \in Nat \ {0}, n <= s.size
  PROVE  Read(s, n).ok /\ Read(s ++ t, n) = Value(Read(s, n).value, Skip(s, n) ++ t)
<1>1. s.size \in Nat /\ t.size \in Nat /\ (s ++ t).size = s.size + t.size
  BY ConcatStream DEF IsStream
<1>2. ~(s.size < n) /\ ~((s ++ t).size < n) /\ n # 0
  BY <1>1
<1>3. Whole(s ++ t, n) = Whole(s, n) /\ Skip(s ++ t, n) = Skip(s, n) ++ t
  BY SkipBefore, PrefixBefore DEF Whole
<1>4. QED
  BY <1>2, <1>3 DEF Read, Value

LEMMA OnlyOne == ASSUME NEW e PROVE (CHOOSE c \in {e} : TRUE) = e
OBVIOUS

\* A number is read as it was written.
LEMMA ReadChunk ==
  ASSUME NEW n \in Nat \ {0}, NEW v, NEW t, IsStream(t)
  PROVE  Read(Chunk(n, v) ++ t, n) = Value(v, t)
<1>1. IsStream(Chunk(n, v)) /\ Chunk(n, v).size = n /\ IsStream(Chunk(n, v) ++ t)
  BY ChunkStream, ConcatStream
<1>2. Prefix(Chunk(n, v) ++ t, n) = Chunk(n, v) /\ Skip(Chunk(n, v) ++ t, n) = t
  BY <1>1, PrefixFirst, SkipFirst
<1>3. ~((Chunk(n, v) ++ t).size < n) /\ n # 0
  BY <1>1, ConcatStream DEF IsStream
<1>4. Whole(Chunk(n, v) ++ t, n) = {[at |-> 0, n |-> n, v |-> v, key |-> Clear]}
  BY <1>2 DEF Whole, Chunk
<1>5. (CHOOSE c \in Whole(Chunk(n, v) ++ t, n) : TRUE) = [at |-> 0, n |-> n, v |-> v, key |-> Clear]
  BY <1>4, OnlyOne
<1>6. QED
  BY <1>2, <1>3, <1>4, <1>5 DEF Read

\* Encryption keeps the size; twice with one key it gives the bytes back.
LEMMA ToggledStream ==
  ASSUME NEW s, IsStream(s), NEW key \in CipherKeys
  PROVE  IsStream(Toggled(s, key)) /\ Toggled(s, key).size = s.size
<1>1. ASSUME NEW c \in s.chunks
      PROVE  IsChunk(Toggle(c, key)) /\ EndOf(Toggle(c, key)) <= s.size
  <2>1. IsChunk(c) /\ EndOf(c) <= s.size
    BY DEF IsStream
  <2>2. (IF c.key = key THEN Clear ELSE key \o c.key) \in CipherKeys
    BY <2>1 DEF IsChunk, CipherKeys, Clear
  <2>3. QED
    BY <2>1, <2>2 DEF IsChunk, EndOf, Toggle
<1>2. QED
  BY <1>1 DEF IsStream, Toggled

LEMMA ToggledClear ==
  ASSUME NEW s, IsStream(s), InTheClear(s), NEW key \in CipherKeys, key # Clear
  PROVE  /\ Toggled(Toggled(s, key), key) = s
         /\ Encrypted(Toggled(s, key))
<1>1. ASSUME NEW c \in s.chunks
      PROVE  Toggle(c, key) = [at |-> c.at, n |-> c.n, v |-> c.v, key |-> key]
  <2>1. c.key = <<>> /\ c.key # key
    BY DEF InTheClear, Clear
  <2>2. key \o <<>> = key
    BY DEF CipherKeys
  <2>3. QED
    BY <2>1, <2>2 DEF Toggle
<1>2. ASSUME NEW c \in s.chunks
      PROVE  Toggle(Toggle(c, key), key) = c /\ Toggle(c, key).key # Clear
  <2>1. c = [at |-> c.at, n |-> c.n, v |-> c.v, key |-> Clear]
    BY DEF InTheClear, IsStream, IsChunk
  <2>2. QED
    BY <1>1, <2>1 DEF Toggle
<1>3. Toggled(Toggled(s, key), key).chunks = s.chunks
  BY <1>2 DEF Toggled
<1>4. QED
  BY <1>2, <1>3 DEF Toggled, IsStream, Encrypted

\* What Encipher does to bytes between others.
LEMMA EncipherBetween ==
  ASSUME NEW x, NEW a, NEW b, NEW z, IsStream(x), IsStream(a), IsStream(b), IsStream(z),
         NEW key \in CipherKeys, NEW offset \in Nat, offset = x.size + a.size
  PROVE  Encipher(x ++ (a ++ (b ++ z)), offset, b.size, key) = x ++ (a ++ (Toggled(b, key) ++ z))
<1>1. /\ IsStream(x ++ a) /\ (x ++ a).size = offset /\ IsStream(b ++ z) /\ (b ++ z).size = b.size + z.size
      /\ IsStream(Toggled(b, key)) /\ IsStream(Toggled(b, key) ++ z) /\ IsStream(a ++ (b ++ z))
      /\ x.size \in Nat /\ a.size \in Nat /\ b.size \in Nat /\ z.size \in Nat
  BY ConcatStream, ToggledStream DEF IsStream
<1>2. x ++ (a ++ (b ++ z)) = (x ++ a) ++ (b ++ z)
  BY <1>1, ConcatAssociates
<1>3. Prefix((x ++ a) ++ (b ++ z), offset) = x ++ a /\ Skip((x ++ a) ++ (b ++ z), offset) = b ++ z
  BY <1>1, PrefixFirst, SkipFirst
<1>4. Prefix(b ++ z, b.size) = b /\ Skip(b ++ z, b.size) = z
  BY <1>1, PrefixFirst, SkipFirst
<1>5. Skip((x ++ a) ++ (b ++ z), offset + b.size) = z
  <2>1. offset + b.size \in Nat /\ offset + b.size = (x ++ a).size + b.size
    BY <1>1
  <2>2. Skip((x ++ a) ++ (b ++ z), offset + b.size) = Skip(b ++ z, b.size)
    BY <1>1, <2>1, SkipBehind
  <2>3. QED
    BY <1>4, <2>2
<1>6. Encipher(x ++ (a ++ (b ++ z)), offset, b.size, key) = (x ++ a) ++ Toggled(b, key) ++ z
  BY <1>2, <1>3, <1>4, <1>5 DEF Encipher
<1>7. (x ++ a) ++ Toggled(b, key) ++ z = (x ++ a) ++ (Toggled(b, key) ++ z)
  BY <1>1, ConcatAssociates
<1>8. QED
  BY <1>1, <1>6, <1>7, ConcatAssociates

LEMMA ClearConcat ==
  ASSUME NEW s, NEW t, IsStream(s), IsStream(t), InTheClear(s ++ t)
  PROVE  InTheClear(s) /\ InTheClear(t)
<1>1. ASSUME NEW c \in s.chunks PROVE c.key = Clear
  BY StreamChunks, InConcat DEF InTheClear
<1>2. ASSUME NEW c \in t.chunks PROVE c.key = Clear
  <2>1. Raw(c) /\ s.size \in Int
    BY StreamChunks DEF IsStream
  <2>2. Raw(Moved(c, s.size)) /\ Moved(c, s.size).key = c.key /\ Moved(Moved(c, s.size), -s.size) = c
    BY <2>1, MovedRaw, MovedBack
  <2>3. Moved(c, s.size) \in (s ++ t).chunks
    BY <2>2, InConcat
  <2>4. QED
    BY <2>2, <2>3 DEF InTheClear
<1>3. QED
  BY <1>1, <1>2 DEF InTheClear

-----------------------------------------------------------------------------
(* A first parameter of a two byte size and as many bytes                  *)

Tpm2bFirst(p) == IsStream(p) /\ BeginsWithTpm2b(p, SizeAt(p, 0))

\* The size a, the bytes b and what follows.
Parts(p, a, b, c) ==
  /\ IsStream(a) /\ IsStream(b) /\ IsStream(c)
  /\ a.size = 2 /\ b.size = SizeAt(p, 0) /\ SizeAt(p, 0) \in Nat
  /\ p = a ++ (b ++ c)

\* The parts of such a stream: the size, the bytes, the rest.
LEMMA Tpm2bParts == ASSUME NEW p, Tpm2bFirst(p) PROVE \E a, b, c : Parts(p, a, b, c)
<1> DEFINE n == SizeAt(p, 0)
           a == Prefix(p, 2)
           b == Prefix(Skip(p, 2), n)
           c == Skip(p, 2 + n)
<1>1. n \in Nat /\ 2 + n <= p.size /\ IsStream(p) /\ p = a ++ b ++ c
  BY DEF Tpm2bFirst, BeginsWithTpm2b
<1>2. p.size \in Nat
  BY <1>1 DEF IsStream
<1>3. IsStream(a) /\ a.size = 2
  <2>1. 2 <= p.size
    BY <1>1, <1>2
  <2>2. QED
    BY <1>1, <2>1, PrefixStream
<1>4. IsStream(Skip(p, 2)) /\ Skip(p, 2).size = p.size - 2
  BY <1>1, <1>2, SkipStream
<1>5. IsStream(b) /\ b.size = n
  <2>1. n <= Skip(p, 2).size
    BY <1>1, <1>2, <1>4
  <2>2. QED
    BY <1>1, <1>4, <2>1, PrefixStream
<1>6. IsStream(c)
  <2>1. 2 + n \in Nat
    BY <1>1
  <2>2. QED
    BY <1>1, <2>1, SkipStream
<1>7. p = a ++ (b ++ c)
  BY <1>1, <1>3, <1>5, <1>6, ConcatAssociates
<1>8. Parts(p, a, b, c)
  BY <1>1, <1>3, <1>5, <1>6, <1>7 DEF Parts
<1>9. QED
  BY <1>8

\* Its size is read wherever it is in a stream.
LEMMA SizeBetween ==
  ASSUME NEW x, NEW a, NEW z, IsStream(x), IsStream(a), IsStream(z), a.size = 2,
         NEW offset \in Nat, offset = x.size
  PROVE  SizeAt(x ++ (a ++ z), offset) = Read(a, 2).value
<1>1. IsStream(a ++ z)
  BY ConcatStream
<1>2. Skip(x ++ (a ++ z), offset) = a ++ z
  BY <1>1, SkipFirst
<1>3. Read(a ++ z, 2) = Value(Read(a, 2).value, Skip(a, 2) ++ z)
  BY ReadBefore
<1>4. QED
  BY <1>2, <1>3 DEF SizeAt, Value

LEMMA SizeFirst ==
  ASSUME NEW a, NEW z, IsStream(a), IsStream(z), a.size = 2
  PROVE  SizeAt(a ++ z, 0) = Read(a, 2).value
<1>1. IsStream(Empty) /\ 0 = Empty.size /\ Empty ++ (a ++ z) = a ++ z
  BY EmptyStream, ConcatStream, ConcatEmpty
<1>2. QED
  BY <1>1, SizeBetween

\* A sized first parameter, encrypted.
Enciphered(p, key) == Encipher(p, 2, SizeAt(p, 0), key)

\* Encryption leaves the size and the rest alone.
LEMMA EncipheredParts ==
  ASSUME NEW p, NEW a, NEW b, NEW c, Parts(p, a, b, c), NEW key \in CipherKeys
  PROVE  /\ Enciphered(p, key) = a ++ (Toggled(b, key) ++ c)
         /\ Parts(Enciphered(p, key), a, Toggled(b, key), c)
         /\ SizeAt(Enciphered(p, key), 0) = SizeAt(p, 0)
<1>1. IsStream(Empty) /\ IsStream(p) /\ IsStream(a ++ (Toggled(b, key) ++ c))
      /\ IsStream(Toggled(b, key)) /\ Toggled(b, key).size = b.size
      /\ IsStream(b ++ c) /\ IsStream(Toggled(b, key) ++ c)
  BY EmptyStream, ToggledStream, ConcatStream DEF Parts
<1>2. Empty ++ p = p /\ Empty ++ (a ++ (Toggled(b, key) ++ c)) = a ++ (Toggled(b, key) ++ c)
  BY <1>1, ConcatEmpty
<1>3. 2 = Empty.size + a.size
  BY DEF Empty, Parts
<1>4. Encipher(Empty ++ p, 2, b.size, key) = Empty ++ (a ++ (Toggled(b, key) ++ c))
  BY <1>1, <1>3, EncipherBetween DEF Parts
<1>5. Enciphered(p, key) = a ++ (Toggled(b, key) ++ c)
  BY <1>2, <1>4 DEF Enciphered, Parts
<1>6. SizeAt(Enciphered(p, key), 0) = SizeAt(p, 0)
  <2>1. SizeAt(a ++ (Toggled(b, key) ++ c), 0) = Read(a, 2).value /\ SizeAt(a ++ (b ++ c), 0) = Read(a, 2).value
    BY <1>1, SizeFirst DEF Parts
  <2>2. QED
    BY <1>5, <2>1 DEF Parts
<1>7. QED
  BY <1>1, <1>5, <1>6 DEF Parts

LEMMA PartsAreTpm2b ==
  ASSUME NEW p, NEW a, NEW b, NEW c, Parts(p, a, b, c)
  PROVE  Tpm2bFirst(p)
<1>1. /\ IsStream(a) /\ IsStream(b) /\ IsStream(c) /\ IsStream(b ++ c) /\ IsStream(p)
      /\ a.size = 2 /\ b.size = SizeAt(p, 0) /\ b.size \in Nat /\ p = a ++ (b ++ c)
      /\ p.size = a.size + (b ++ c).size /\ (b ++ c).size = b.size + c.size /\ c.size \in Nat
  BY ConcatStream DEF Parts, IsStream
<1>2. Prefix(p, 2) = a /\ Skip(p, 2) = b ++ c
  BY <1>1, PrefixFirst, SkipFirst
<1>3. Prefix(b ++ c, b.size) = b /\ Skip(b ++ c, b.size) = c
  BY <1>1, PrefixFirst, SkipFirst
<1>4. Skip(p, 2 + b.size) = c
  <2>1. 2 + b.size \in Nat /\ 2 + b.size = a.size + b.size
    BY <1>1
  <2>2. QED
    BY <1>1, <1>3, <2>1, SkipBehind
<1>5. p = (a ++ b) ++ c
  BY <1>1, ConcatAssociates
<1>6. 2 + b.size <= p.size
  BY <1>1
<1>7. QED
  BY <1>1, <1>2, <1>3, <1>4, <1>5, <1>6 DEF Tpm2bFirst, BeginsWithTpm2b

\* The bytes around a parameter do not matter for its encryption.
LEMMA EncipherParameters ==
  ASSUME NEW p, Tpm2bFirst(p), NEW key \in CipherKeys, NEW x, NEW w, IsStream(x), IsStream(w)
  PROVE  /\ Encipher(x ++ (p ++ w), x.size + 2, SizeAt(p, 0), key) = x ++ (Enciphered(p, key) ++ w)
         /\ SizeAt(x ++ (p ++ w), x.size) = SizeAt(p, 0)
<1>1. PICK a, b, c : Parts(p, a, b, c)
  BY Tpm2bParts
<1>2. /\ IsStream(a) /\ IsStream(b) /\ IsStream(c) /\ a.size = 2 /\ b.size = SizeAt(p, 0)
      /\ IsStream(Toggled(b, key))
      /\ IsStream(b ++ c) /\ IsStream(Toggled(b, key) ++ c)
      /\ IsStream(c ++ w) /\ IsStream(b ++ (c ++ w)) /\ IsStream((b ++ c) ++ w)
      /\ x.size \in Nat /\ x.size + 2 \in Nat
  BY <1>1, ToggledStream, ConcatStream DEF IsStream, Parts
<1>3. Enciphered(p, key) = a ++ (Toggled(b, key) ++ c)
  BY <1>1, EncipheredParts
<1>4. p ++ w = a ++ ((b ++ c) ++ w) /\ p ++ w = a ++ (b ++ (c ++ w))
  BY <1>1, <1>2, ConcatAssociates DEF Parts
<1>5. Enciphered(p, key) ++ w = a ++ (Toggled(b, key) ++ (c ++ w))
  BY <1>2, <1>3, ConcatAssociates
<1>6. Encipher(x ++ (a ++ (b ++ (c ++ w))), x.size + 2, b.size, key)
        = x ++ (a ++ (Toggled(b, key) ++ (c ++ w)))
  BY <1>2, EncipherBetween
<1>7. SizeAt(x ++ (a ++ ((b ++ c) ++ w)), x.size) = Read(a, 2).value
  BY <1>2, SizeBetween
<1>8. SizeAt(p, 0) = Read(a, 2).value
  BY <1>1, <1>2, SizeFirst DEF Parts
<1>9. QED
  BY <1>2, <1>4, <1>5, <1>6, <1>7, <1>8

\* Encryption keeps the sizes.
LEMMA EncipherKeeps ==
  ASSUME NEW p, Tpm2bFirst(p), NEW key \in CipherKeys
  PROVE  /\ Tpm2bFirst(Enciphered(p, key)) /\ Enciphered(p, key).size = p.size
         /\ SizeAt(Enciphered(p, key), 0) = SizeAt(p, 0)
<1>1. PICK a, b, c : Parts(p, a, b, c)
  BY Tpm2bParts
<1>2. Enciphered(p, key) = a ++ (Toggled(b, key) ++ c) /\ Parts(Enciphered(p, key), a, Toggled(b, key), c)
  BY <1>1, EncipheredParts
<1>3. IsStream(b ++ c) /\ (b ++ c).size = b.size + c.size /\ p.size = a.size + (b ++ c).size
  BY <1>1, ConcatStream DEF Parts
<1>4. /\ IsStream(Toggled(b, key)) /\ Toggled(b, key).size = b.size
      /\ IsStream(Toggled(b, key) ++ c) /\ (Toggled(b, key) ++ c).size = b.size + c.size
      /\ Enciphered(p, key).size = a.size + (b.size + c.size)
  BY <1>1, <1>2, ToggledStream, ConcatStream DEF Parts
<1>5. QED
  BY <1>1, <1>2, <1>3, <1>4, PartsAreTpm2b, EncipheredParts

\* Without a byte there is nothing to encrypt.
LEMMA EncipherNothing ==
  ASSUME NEW p, Tpm2bFirst(p), NEW key \in CipherKeys, SizeAt(p, 0) = 0
  PROVE  Enciphered(p, key) = p
<1>1. PICK a, b, c : Parts(p, a, b, c)
  BY Tpm2bParts
<1>2. b = Empty /\ Toggled(b, key) = Empty
  <2>1. IsStream(b) /\ b.size = 0 /\ IsStream(Toggled(b, key)) /\ Toggled(b, key).size = 0
    BY <1>1, ToggledStream DEF Parts
  <2>2. QED
    BY <2>1, NoBytes
<1>3. QED
  BY <1>1, <1>2, EncipheredParts DEF Parts

\* A second time with the same key gives the parameter back.
LEMMA EncipherTwice ==
  ASSUME NEW p, Tpm2bFirst(p), InTheClear(p), NEW key \in CipherKeys, key # Clear
  PROVE  Enciphered(Enciphered(p, key), key) = p
<1>1. PICK a, b, c : Parts(p, a, b, c)
  BY Tpm2bParts
<1>2. Enciphered(Enciphered(p, key), key) = a ++ (Toggled(Toggled(b, key), key) ++ c)
  BY <1>1, EncipheredParts
<1>3. InTheClear(b) /\ IsStream(b)
  BY <1>1, ConcatStream, ClearConcat DEF Parts
<1>4. QED
  BY <1>1, <1>2, <1>3, ToggledClear DEF Parts

\* The bytes of the parameter are encrypted.
LEMMA EncipherEncrypts ==
  ASSUME NEW p, Tpm2bFirst(p), InTheClear(p), NEW key \in CipherKeys, key # Clear,
         NEW x, NEW w, IsStream(x), IsStream(w)
  PROVE  LET q == x ++ (Enciphered(p, key) ++ w)
         IN  Encrypted(Prefix(Skip(q, x.size + 2), SizeAt(q, x.size)))
<1> DEFINE q == x ++ (Enciphered(p, key) ++ w)
<1>1. PICK a, b, c : Parts(p, a, b, c)
  BY Tpm2bParts
<1>2. /\ IsStream(a) /\ IsStream(b) /\ IsStream(c) /\ a.size = 2 /\ b.size = SizeAt(p, 0) /\ b.size \in Nat
      /\ IsStream(Toggled(b, key)) /\ Toggled(b, key).size = b.size
      /\ IsStream(Toggled(b, key) ++ c) /\ IsStream(c ++ w) /\ IsStream(Toggled(b, key) ++ (c ++ w))
      /\ IsStream(x ++ a) /\ (x ++ a).size = x.size + 2 /\ x.size \in Nat /\ x.size + 2 \in Nat
  BY <1>1, ToggledStream, ConcatStream DEF IsStream, Parts
<1>3. Enciphered(p, key) = a ++ (Toggled(b, key) ++ c)
  BY <1>1, EncipheredParts
<1>4. q = (x ++ a) ++ (Toggled(b, key) ++ (c ++ w))
  BY <1>2, <1>3, ConcatAssociates
<1>5. Skip(q, x.size + 2) = Toggled(b, key) ++ (c ++ w)
  BY <1>2, <1>4, SkipFirst
<1>6. SizeAt(q, x.size) = b.size
  <2>1. Tpm2bFirst(Enciphered(p, key)) /\ SizeAt(Enciphered(p, key), 0) = SizeAt(p, 0)
    BY EncipherKeeps
  <2>2. SizeAt(q, x.size) = SizeAt(Enciphered(p, key), 0)
    BY <2>1, EncipherParameters
  <2>3. QED
    BY <1>2, <2>1, <2>2
<1>7. Prefix(Toggled(b, key) ++ (c ++ w), b.size) = Toggled(b, key)
  BY <1>2, PrefixFirst
<1>8. InTheClear(b)
  BY <1>1, <1>2, ConcatStream, ClearConcat DEF Parts
<1>9. QED
  BY <1>2, <1>5, <1>6, <1>7, <1>8, ToggledClear

-----------------------------------------------------------------------------
(* A command or a response: the header and the rest                        *)

Framed(tag, code, body) == Header(tag, HeaderSize + body.size, code) ++ body

\* The header, and what is read out of it.
LEMMA HeaderStream ==
  ASSUME NEW tag, NEW size, NEW code
  PROVE  /\ IsStream(Header(tag, size, code)) /\ Header(tag, size, code).size = HeaderSize
         /\ HeaderSize = 10
BY ChunkStream, ConcatStream DEF Header, HeaderSize

LEMMA HeaderChunks ==
  ASSUME NEW tag, NEW size, NEW code, NEW t, IsStream(t)
  PROVE  /\ Header(tag, size, code) ++ t = Chunk(2, tag) ++ (Chunk(4, size) ++ (Chunk(4, code) ++ t))
         /\ IsStream(Chunk(4, code) ++ t) /\ IsStream(Chunk(4, size) ++ (Chunk(4, code) ++ t))
<1>1. /\ IsStream(Chunk(2, tag)) /\ IsStream(Chunk(4, size)) /\ IsStream(Chunk(4, code))
      /\ IsStream(Chunk(2, tag) ++ Chunk(4, size))
      /\ IsStream(Chunk(4, code) ++ t) /\ IsStream(Chunk(4, size) ++ (Chunk(4, code) ++ t))
  BY ChunkStream, ConcatStream
<1>2. Header(tag, size, code) ++ t = (Chunk(2, tag) ++ Chunk(4, size)) ++ (Chunk(4, code) ++ t)
  BY <1>1, ConcatAssociates DEF Header
<1>3. QED
  BY <1>1, <1>2, ConcatAssociates

LEMMA HeaderReads ==
  ASSUME NEW tag, NEW size, NEW code, NEW t, IsStream(t)
  PROVE  LET s == Header(tag, size, code) ++ t
         IN  /\ Read(s, 2) = Value(tag, Skip(s, 2))
             /\ Read(Skip(s, 2), 4).value = size
             /\ Read(Skip(s, 6), 4).value = code
             /\ Skip(s, HeaderSize) = t
             /\ Skip(s, 6) = Chunk(4, code) ++ t
<1> DEFINE s == Header(tag, size, code) ++ t
           u == Chunk(4, code) ++ t
           w == Chunk(4, size) ++ u
<1>1. /\ s = Chunk(2, tag) ++ w /\ IsStream(u) /\ IsStream(w)
      /\ IsStream(Chunk(2, tag)) /\ Chunk(2, tag).size = 2
      /\ IsStream(Chunk(4, size)) /\ Chunk(4, size).size = 4
  BY HeaderChunks, ChunkStream
<1>2. Skip(s, 2) = w /\ Skip(w, 4) = u
  BY <1>1, SkipFirst
<1>3. Skip(s, 6) = u
  <2>1. 6 = Chunk(2, tag).size + 4
    BY <1>1
  <2>2. Skip(Chunk(2, tag) ++ w, 6) = Skip(w, 4)
    BY <1>1, <2>1, SkipBehind
  <2>3. QED
    BY <1>1, <1>2, <2>2
<1>4. Read(s, 2) = Value(tag, w) /\ Read(w, 4) = Value(size, u) /\ Read(u, 4) = Value(code, t)
  BY <1>1, ReadChunk
<1>5. Skip(s, HeaderSize) = t
  BY HeaderStream, SkipFirst DEF HeaderSize
<1>6. QED
  BY <1>2, <1>3, <1>4, <1>5 DEF Value

\* SetSize puts in the size of all that follows.
LEMMA SetSizeFrames ==
  ASSUME NEW x, NEW y, NEW code, NEW tag, NEW t, IsStream(t)
  PROVE  SetSize(Header(x, y, code) ++ t, tag) = Framed(tag, code, t)
<1>1. IsStream(Header(x, y, code)) /\ Header(x, y, code).size = HeaderSize
  BY HeaderStream
<1>2. (Header(x, y, code) ++ t).size = HeaderSize + t.size
  BY <1>1, ConcatStream
<1>3. Skip(Header(x, y, code) ++ t, 6) = Chunk(4, code) ++ t
  BY HeaderReads
<1>4. /\ IsStream(Chunk(2, tag)) /\ IsStream(Chunk(4, HeaderSize + t.size)) /\ IsStream(Chunk(4, code))
      /\ IsStream(Chunk(2, tag) ++ Chunk(4, HeaderSize + t.size)) /\ IsStream(Chunk(4, code) ++ t)
  BY ChunkStream, ConcatStream
<1>5. (Chunk(2, tag) ++ Chunk(4, HeaderSize + t.size)) ++ (Chunk(4, code) ++ t)
        = ((Chunk(2, tag) ++ Chunk(4, HeaderSize + t.size)) ++ Chunk(4, code)) ++ t
  BY <1>4, ConcatAssociates
<1>6. QED
  BY <1>2, <1>3, <1>5 DEF SetSize, Framed, Header

LEMMA FramedStream ==
  ASSUME NEW tag, NEW code, NEW t, IsStream(t)
  PROVE  IsStream(Framed(tag, code, t)) /\ Framed(tag, code, t).size = HeaderSize + t.size
BY HeaderStream, ConcatStream DEF Framed

LEMMA FramedReads ==
  ASSUME NEW tag, NEW code, NEW t, IsStream(t)
  PROVE  LET s == Framed(tag, code, t)
         IN  /\ Read(s, 2) = Value(tag, Skip(s, 2))
             /\ Read(Skip(s, 2), 4).value = HeaderSize + t.size
             /\ Read(Skip(s, 6), 4).value = code
             /\ Skip(s, HeaderSize) = t
BY HeaderReads DEF Framed

\* What is behind the first n bytes of the rest.
LEMMA FramedSkips ==
  ASSUME NEW tag, NEW code, NEW h, NEW t, IsStream(h), IsStream(t)
  PROVE  /\ Skip(Framed(tag, code, h ++ t), HeaderSize + h.size) = t
         /\ Prefix(Framed(tag, code, h ++ t), HeaderSize + h.size)
              = Header(tag, HeaderSize + (h ++ t).size, code) ++ h
<1> DEFINE header == Header(tag, HeaderSize + (h ++ t).size, code)
<1>1. IsStream(header) /\ header.size = HeaderSize /\ HeaderSize \in Nat /\ h.size \in Nat
  BY HeaderStream DEF IsStream
<1>2. IsStream(header ++ h) /\ (header ++ h).size = HeaderSize + h.size /\ HeaderSize + h.size \in Nat
  BY <1>1, ConcatStream
<1>3. Framed(tag, code, h ++ t) = (header ++ h) ++ t
  BY <1>1, ConcatAssociates DEF Framed
<1>4. QED
  BY <1>2, <1>3, SkipFirst, PrefixFirst

\* A parameter is encrypted in its place in a command or a response.
LEMMA EncipherFramed ==
  ASSUME NEW p, Tpm2bFirst(p), NEW key \in CipherKeys, NEW h, NEW w, IsStream(h), IsStream(w),
         NEW tag, NEW code, NEW offset, offset = HeaderSize + h.size
  PROVE  /\ Encipher(Framed(tag, code, h ++ (p ++ w)), offset + 2, SizeAt(p, 0), key)
              = Framed(tag, code, h ++ (Enciphered(p, key) ++ w))
         /\ SizeAt(Framed(tag, code, h ++ (p ++ w)), offset) = SizeAt(p, 0)
<1> DEFINE q == Enciphered(p, key)
<1>1. /\ Tpm2bFirst(q) /\ q.size = p.size /\ IsStream(p) /\ IsStream(q)
  BY EncipherKeeps DEF Tpm2bFirst
<1>2. /\ IsStream(p ++ w) /\ IsStream(q ++ w) /\ (p ++ w).size = (q ++ w).size
  BY <1>1, ConcatStream
<1>3. (h ++ (p ++ w)).size = (h ++ (q ++ w)).size
  BY <1>2, ConcatStream
<1> DEFINE header == Header(tag, HeaderSize + (h ++ (p ++ w)).size, code)
<1>4. IsStream(header) /\ header.size = HeaderSize
  BY HeaderStream
<1>5. IsStream(header ++ h) /\ (header ++ h).size = offset
  BY <1>4, ConcatStream
<1>6. /\ Framed(tag, code, h ++ (p ++ w)) = (header ++ h) ++ (p ++ w)
      /\ Framed(tag, code, h ++ (q ++ w)) = (header ++ h) ++ (q ++ w)
  BY <1>2, <1>3, <1>4, ConcatAssociates DEF Framed
<1>7. QED
  BY <1>5, <1>6, EncipherParameters

\* No byte of it is in the clear then.
LEMMA EncipherFramedEncrypts ==
  ASSUME NEW p, Tpm2bFirst(p), InTheClear(p), NEW key \in CipherKeys, key # Clear,
         NEW h, IsStream(h), NEW tag, NEW code, NEW offset, offset = HeaderSize + h.size
  PROVE  LET s == Framed(tag, code, h ++ Enciphered(p, key))
         IN  Encrypted(Prefix(Skip(s, offset + 2), SizeAt(s, offset)))
<1> DEFINE q == Enciphered(p, key)
           header == Header(tag, HeaderSize + (h ++ q).size, code)
<1>1. IsStream(q) /\ IsStream(Empty) /\ q ++ Empty = q
  BY EncipherKeeps, EmptyStream, ConcatEmpty DEF Tpm2bFirst
<1>2. IsStream(header) /\ header.size = HeaderSize
  BY HeaderStream
<1>3. IsStream(header ++ h) /\ (header ++ h).size = offset
  BY <1>2, ConcatStream
<1>4. Framed(tag, code, h ++ q) = (header ++ h) ++ (q ++ Empty)
  BY <1>1, <1>2, ConcatAssociates DEF Framed
<1>5. QED
  BY <1>1, <1>3, <1>4, EncipherEncrypts

-----------------------------------------------------------------------------
(* The command of a call                                                   *)

IsCall(c) == \E i \in DOMAIN Calls : c = Calls[i]

InHandles(c) == Prefix(InStream(c), HandlesSize(c))
InParameters(c) == Skip(InStream(c), HandlesSize(c))

DecryptSessions(c) == GetDecryptSession(c.sessions)

\* The TSS encrypts if there is one session for it and a parameter of that kind.
Decryptable(c) ==
  DecryptSessions(c) # {} => Cardinality(DecryptSessions(c)) <= 1 /\ getDecryptSize(c.command) = 2

CommandKey(c) ==
  LET i == CHOOSE i \in DecryptSessions(c) : TRUE
  IN  Key(i, "command", TssAlgorithm(c.sessions[i]))

\* The parameters as they are sent.
Sent(c) ==
  IF DecryptSessions(c) = {} THEN InParameters(c) ELSE Enciphered(InParameters(c), CommandKey(c))

Authorizations(c) == AuthArea(c.sessions)

CommandStream(c, parameters) == Framed(TPM_ST.NO_SESSIONS, TPM_CC[c.command], InHandles(c) ++ parameters)

SentStream(c) ==
  IF c.sessions = <<>> THEN CommandStream(c, Sent(c))
  ELSE Framed(TPM_ST.SESSIONS, TPM_CC[c.command],
              InHandles(c) ++ (Chunk(4, Authorizations(c).size) ++ (Authorizations(c) ++ Sent(c))))

SentOffset(c) ==
  HeaderSize + HandlesSize(c) + IF c.sessions = <<>> THEN 0 ELSE 4 + Authorizations(c).size

\* The calls and their sessions.
LEMMA CallFacts ==
  ASSUME NEW c, IsCall(c)
  PROVE  /\ c.command \in DOMAIN TPM_CC
         /\ c.sessions \in Seq(SessionRecord)
         /\ c.hasIn \in BOOLEAN /\ c.hasOut \in BOOLEAN /\ c.outGood \in BOOLEAN
BY CallsAssumption DEF IsCall

LEMMA SequenceFacts ==
  ASSUME NEW S, NEW s \in Seq(S)
  PROVE  /\ Len(s) \in Nat /\ DOMAIN s = 1 .. Len(s) /\ DOMAIN s \subseteq Nat
         /\ \A i \in DOMAIN s : s[i] \in S
OBVIOUS

LEMMA SessionFacts ==
  ASSUME NEW c, IsCall(c), NEW i \in DOMAIN c.sessions
  PROVE  /\ i \in Nat /\ c.sessions[i] \in SessionRecord
         /\ c.sessions[i].algorithm \in Algorithms /\ TssAlgorithm(c.sessions[i]) \in Algorithms
         /\ c.sessions[i].kind \in {"pw", "hmac"}
         /\ c.sessions[i].decrypt \in BOOLEAN /\ c.sessions[i].encrypt \in BOOLEAN
<1>1. i \in Nat /\ c.sessions[i] \in SessionRecord
  BY CallFacts, SequenceFacts
<1>2. \A r \in SessionRecord :
        r.algorithm \in Algorithms /\ r.kind \in {"pw", "hmac"} /\ r.decrypt \in BOOLEAN /\ r.encrypt \in BOOLEAN
  BY DEF SessionRecord
<1>3. ASSUME NEW r, r.algorithm \in Algorithms PROVE TssAlgorithm(r) \in Algorithms
  BY <1>3 DEF TssAlgorithm, Algorithms
<1>4. QED
  BY <1>1, <1>2, <1>3

LEMMA SessionsAreFinite ==
  ASSUME NEW c, IsCall(c), NEW S \in SUBSET DOMAIN c.sessions
  PROVE  IsFiniteSet(S) /\ Cardinality(S) \in Nat
<1>1. Len(c.sessions) \in Nat /\ DOMAIN c.sessions = 1 .. Len(c.sessions)
  BY CallFacts, SequenceFacts
<1>2. IsFiniteSet(DOMAIN c.sessions)
  BY <1>1, FS_Interval
<1>3. IsFiniteSet(S)
  BY <1>2, FS_Subset
<1>4. QED
  BY <1>3, FS_CardinalityType

\* What the agreement of the functions says, part by part.
LEMMA ReadsBackParts ==
  ASSUME NEW c, ReadsBack(c)
  PROVE  /\ CommandReadsBack(c, TpmCommand(c.command), InStream(c), InHandles(c), InParameters(c),
                             Unmarshal(TpmCommand(c.command).parameters, InParameters(c), 0))
         /\ AuthorizationsReadBack(c, Authorizations(c), InStream(c).size)
         /\ ResponseReadsBack(c, Entry(c).unmarshalOut, TpmResponse[c.command].parameters.fields,
                              OutHandles(c), OutParameters(c),
                              Handle(Entry(c).unmarshalOut.handles, OutHandles(c)),
                              Unmarshal(Entry(c).unmarshalOut.parameters,
                                        OutParameters(c) ++ AnswerArea(c, "none"), 0))
         /\ \A fault \in c.faults :
              AnswerReadsBack(c, fault, AnswerArea(c, fault),
                              AfterAuths(AnswerArea(c, fault) ++ Trailer(fault), Len(c.sessions)))
BY DEF ReadsBack, InHandles, InParameters, Authorizations

\* The stream of a command: its handles and its parameters, and room for the authorizations.
LEMMA CommandFacts ==
  ASSUME NEW c, IsCall(c), ReadsBack(c)
  PROVE  /\ IsStream(InStream(c)) /\ IsStream(InHandles(c)) /\ IsStream(InParameters(c))
         /\ InStream(c) = InHandles(c) ++ InParameters(c)
         /\ InTheClear(InParameters(c))
         /\ HandlesSize(c) \in Nat /\ InHandles(c).size = HandlesSize(c)
         /\ InParameters(c).size = InStream(c).size - HandlesSize(c)
         /\ InStream(c).size \in Nat /\ InParameters(c).size \in Nat
         /\ getDecryptSize(c.command) = 2 => Tpm2bFirst(InParameters(c))
         /\ IsStream(Authorizations(c)) /\ Authorizations(c).size \in Nat
         /\ Authorizations(c).size = 0 <=> c.sessions = <<>>
         /\ HeaderSize + InStream(c).size + 4 + Authorizations(c).size <= MAX_COMMAND_SIZE
         /\ Len(c.sessions) \in 0 .. MAX_SESSION_NUM
<1> DEFINE format == TpmCommand(c.command)
<1>1. /\ CommandReadsBack(c, format, InStream(c), InHandles(c), InParameters(c),
                          Unmarshal(format.parameters, InParameters(c), 0))
      /\ AuthorizationsReadBack(c, Authorizations(c), InStream(c).size)
  BY ReadsBackParts
<1>2. /\ IsStream(InStream(c)) /\ InTheClear(InStream(c)) /\ InStream(c) = InHandles(c) ++ InParameters(c)
      /\ format.handles \in Seq(STRING) /\ Len(format.handles) = getCommandHandleCount(c.command)
      /\ HandlesSize(c) <= InStream(c).size
      /\ getDecryptSize(c.command) = 2 => BeginsWithTpm2b(InParameters(c), SizeAt(InParameters(c), 0))
  BY <1>1 DEF CommandReadsBack
<1>3. HandlesSize(c) \in Nat
  BY <1>2 DEF HandlesSize
<1>4. /\ IsStream(InHandles(c)) /\ InHandles(c).size = HandlesSize(c)
      /\ IsStream(InParameters(c)) /\ InParameters(c).size = InStream(c).size - HandlesSize(c)
  BY <1>2, <1>3, PrefixStream, SkipStream DEF InHandles, InParameters
<1>5. InTheClear(InParameters(c))
  BY <1>2, <1>4, ClearConcat
<1>6. getDecryptSize(c.command) = 2 => Tpm2bFirst(InParameters(c))
  BY <1>2, <1>4 DEF Tpm2bFirst
<1>7. InStream(c).size \in Nat /\ InParameters(c).size \in Nat
  BY <1>2, <1>4 DEF IsStream
<1>8. /\ IsStream(Authorizations(c)) /\ Len(c.sessions) <= MAX_SESSION_NUM
      /\ Authorizations(c).size = 0 <=> c.sessions = <<>>
      /\ HeaderSize + InStream(c).size + 4 + Authorizations(c).size <= MAX_COMMAND_SIZE
  BY <1>1 DEF AuthorizationsReadBack
<1>9. Authorizations(c).size \in Nat /\ Len(c.sessions) \in 0 .. MAX_SESSION_NUM
  <2>1. Len(c.sessions) \in Nat
    BY CallFacts, SequenceFacts
  <2>2. Len(c.sessions) <= MAX_SESSION_NUM
    BY <1>8, Zenon
  <2>3. \A n \in Nat : n <= MAX_SESSION_NUM => n \in 0 .. MAX_SESSION_NUM
    BY DEF MAX_SESSION_NUM
  <2>4. Len(c.sessions) \in 0 .. MAX_SESSION_NUM
    BY <2>1, <2>2, <2>3
  <2>5. Authorizations(c).size \in Nat
    BY <1>8 DEF IsStream
  <2>6. QED
    BY <2>4, <2>5
<1>10. QED
  BY <1>2, <1>3, <1>4, <1>5, <1>6, <1>7, <1>8, <1>9

\* A session encrypts with a key.
LEMMA KeyFacts ==
  ASSUME NEW i \in Nat, NEW direction \in Directions, NEW algorithm \in Algorithms
  PROVE  Key(i, direction, algorithm) \in CipherKeys /\ Key(i, direction, algorithm) # Clear
<1> DEFINE S == Nat \X Directions \X Algorithms
           e == <<i, direction, algorithm>>
<1>1. e \in S
  OBVIOUS
<1>2. ASSUME NEW T, NEW t \in T PROVE <<t>> \in Seq(T) /\ <<t>> # <<>>
  OBVIOUS
<1>3. QED
  BY <1>1, <1>2 DEF Key, CipherKeys, Clear

LEMMA CommandKeyFacts ==
  ASSUME NEW c, IsCall(c), DecryptSessions(c) # {}
  PROVE  CommandKey(c) \in CipherKeys /\ CommandKey(c) # Clear
<1> DEFINE i == CHOOSE i \in DecryptSessions(c) : TRUE
<1>1. i \in DOMAIN c.sessions
  BY DEF DecryptSessions, GetDecryptSession, BeforePassword
<1>2. i \in Nat /\ TssAlgorithm(c.sessions[i]) \in Algorithms
  BY <1>1, SessionFacts
<1>3. CommandKey(c) = Key(i, "command", TssAlgorithm(c.sessions[i]))
  BY DEF CommandKey
<1>4. "command" \in Directions
  BY DEF Directions
<1>5. QED
  BY <1>2, <1>3, <1>4, KeyFacts

\* Encrypted parameters take the place of the parameters.
LEMMA SentFacts ==
  ASSUME NEW c, IsCall(c), ReadsBack(c), Decryptable(c)
  PROVE  IsStream(Sent(c)) /\ Sent(c).size = InParameters(c).size
<1>1. CASE DecryptSessions(c) = {}
  BY <1>1, CommandFacts DEF Sent
<1>2. CASE DecryptSessions(c) # {}
  <2>1. Tpm2bFirst(InParameters(c))
    BY <1>2, CommandFacts DEF Decryptable
  <2>2. QED
    BY <1>2, <2>1, CommandKeyFacts, EncipherKeeps DEF Sent, Tpm2bFirst
<1>3. QED
  BY <1>1, <1>2

-----------------------------------------------------------------------------
(* The inductive invariant: the streams, step by step                      *)

Running == Steps \ {"done"}

TypeInv ==
  /\ pc \in Steps \union {"idle", "written", "file"}
  /\ pc \in Steps => IsCall(call)
  /\ cpBuffer \in 0 .. MAX_COMMAND_SIZE
  /\ authCount \in 0 .. MAX_SESSION_NUM
  /\ commandBuffer.size \in 0 .. MAX_COMMAND_SIZE
  /\ received = <<>> \/ received = <<received[1]>>
  /\ given = <<>> \/ given = <<given[1]>>

\* Nothing of a call is left when the next one begins.
ClearedInv ==
  /\ pc \in {"idle", "written", "file"} =>
       /\ commandBuffer = Empty /\ cpBuffer = 0 /\ authCount = 0 /\ received = <<>>
  /\ pc \in {"idle", "written"} => refusedBy = "none" /\ given = <<>>

RunningInv ==
  /\ pc \in Running => ReadsBack(call) /\ refusedBy = "none" /\ given = <<>>
  /\ pc \in {"marshaled", "decrypt", "hmac", "send"} => received = <<>>

\* Until the authorizations are inserted, the command is that of the structures, the first
\* parameter encrypted if there is a session for it.
UnauthorizedInv ==
  /\ pc \in {"marshaled", "decrypt", "hmac"} =>
       cpBuffer = HeaderSize + HandlesSize(call) /\ authCount = 0
  /\ pc = "marshaled" => commandBuffer = CommandStream(call, InParameters(call))
  /\ pc \in {"decrypt", "hmac"} => commandBuffer = CommandStream(call, Sent(call))
  /\ pc \in {"decrypt", "hmac", "send"} => Decryptable(call)

SendInv ==
  /\ pc \in {"hmac", "send"} => hmacs = Sent(call)
  /\ pc = "send" =>
       commandBuffer = SentStream(call) /\ cpBuffer = SentOffset(call) /\ authCount = Len(call.sessions)

IInv == TypeInv /\ ClearedInv /\ RunningInv /\ UnauthorizedInv /\ SendInv

LEMMA InitIInv == Init => IInv
<1>1. Empty.size \in 0 .. MAX_COMMAND_SIZE /\ 0 \in 0 .. MAX_COMMAND_SIZE /\ 0 \in 0 .. MAX_SESSION_NUM
  BY DEF Empty, MAX_COMMAND_SIZE, MAX_SESSION_NUM
<1>2. SUFFICES ASSUME Init PROVE IInv
  OBVIOUS
<1>3. pc = "idle" /\ pc \notin Steps
  BY <1>2 DEF Init, Steps
<1>4. TypeInv
  BY <1>1, <1>2, <1>3 DEF Init, TypeInv
<1>5. ClearedInv /\ RunningInv /\ UnauthorizedInv /\ SendInv
  BY <1>2, <1>3 DEF Init, ClearedInv, RunningInv, UnauthorizedInv, SendInv, Running
<1>6. QED
  BY <1>4, <1>5 DEF IInv

\* What TSS_Marshal makes.
LEMMA MarshaledStream ==
  ASSUME NEW c, IsCall(c), ReadsBack(c)
  PROVE  /\ SetSize(Command_In(c, MarshalIn(c, Entry(c))), TPM_ST.NO_SESSIONS)
              = CommandStream(c, InParameters(c))
         /\ CommandStream(c, InParameters(c)).size \in 0 .. MAX_COMMAND_SIZE
         /\ HeaderSize + HandlesSize(c) \in 0 .. MAX_COMMAND_SIZE
<1>1. IsStream(InStream(c)) /\ InStream(c) = InHandles(c) ++ InParameters(c)
  BY CommandFacts
<1>2. SetSize(Command_In(c, MarshalIn(c, Entry(c))), TPM_ST.NO_SESSIONS) = CommandStream(c, InParameters(c))
  BY <1>1, SetSizeFrames DEF Command_In, InStream, CommandStream
<1>3. CommandStream(c, InParameters(c)).size = HeaderSize + InStream(c).size
  BY <1>1, FramedStream DEF CommandStream
<1>4. /\ HandlesSize(c) \in Nat /\ InStream(c).size \in Nat /\ Authorizations(c).size \in Nat
      /\ InParameters(c).size = InStream(c).size - HandlesSize(c) /\ InParameters(c).size \in Nat
      /\ HeaderSize + InStream(c).size + 4 + Authorizations(c).size <= MAX_COMMAND_SIZE
  BY CommandFacts
<1>5. ASSUME NEW h \in Nat, NEW n \in Nat, NEW a \in Nat, NEW p \in Nat, p = n - h,
             HeaderSize + n + 4 + a <= MAX_COMMAND_SIZE
      PROVE  HeaderSize + n \in 0 .. MAX_COMMAND_SIZE /\ HeaderSize + h \in 0 .. MAX_COMMAND_SIZE
  BY <1>5 DEF HeaderSize, MAX_COMMAND_SIZE
<1>6. QED
  BY <1>2, <1>3, <1>4, <1>5

\* The steps.
LEMMA MarshalStep ==
  ASSUME IInv, NEW c, IsCall(c), TSS_Marshal(c), StructureReadsBack'
  PROVE  IInv'
<1>1. pc = "idle" /\ Marshaled(c, Entry(c))
  BY DEF TSS_Marshal, Entry
<1>2. /\ commandBuffer = Empty /\ cpBuffer = 0 /\ authCount = 0 /\ received = <<>>
      /\ refusedBy = "none" /\ given = <<>>
  BY <1>1 DEF IInv, ClearedInv
<1>3. /\ call' = c /\ authCount' = authCount /\ hmacs' = hmacs /\ received' = received
      /\ given' = given
  BY <1>1 DEF Marshaled
<1>4. TypeInv
  BY DEF IInv
<1>5. CASE IsMarshaled(c, Entry(c), MarshalIn(c, Entry(c)))
  <2>1. /\ pc' = "marshaled" /\ refusedBy' = refusedBy
        /\ commandBuffer' = SetSize(Command_In(c, MarshalIn(c, Entry(c))), TPM_ST.NO_SESSIONS)
        /\ cpBuffer' = HeaderSize + HandlesSize(c)
    BY <1>1, <1>5 DEF Marshaled, Completed, HandlesSize
  <2>2. ReadsBack(c)
    BY <1>3, <2>1 DEF StructureReadsBack
  <2>3. /\ commandBuffer' = CommandStream(c, InParameters(c))
        /\ commandBuffer'.size \in 0 .. MAX_COMMAND_SIZE /\ cpBuffer' \in 0 .. MAX_COMMAND_SIZE
    BY <2>1, <2>2, MarshaledStream
  <2>4. TypeInv'
    BY <1>2, <1>3, <1>4, <2>1, <2>3 DEF TypeInv, Steps
  <2>5. ClearedInv' /\ RunningInv' /\ UnauthorizedInv' /\ SendInv'
    BY <1>2, <1>3, <2>1, <2>2, <2>3 DEF ClearedInv, RunningInv, UnauthorizedInv, SendInv, Running
  <2>6. QED
    BY <2>4, <2>5 DEF IInv
<1>6. CASE ~IsMarshaled(c, Entry(c), MarshalIn(c, Entry(c)))
  <2>1. pc' = "done" /\ commandBuffer' = commandBuffer /\ cpBuffer' = cpBuffer
    BY <1>1, <1>6 DEF Marshaled, Refuse
  <2>2. TypeInv'
    BY <1>2, <1>3, <1>4, <2>1 DEF TypeInv, Steps
  <2>3. ClearedInv' /\ RunningInv' /\ UnauthorizedInv' /\ SendInv'
    BY <2>1 DEF ClearedInv, RunningInv, UnauthorizedInv, SendInv, Running
  <2>4. QED
    BY <2>2, <2>3 DEF IInv
<1>7. QED
  BY <1>5, <1>6

\* The first parameter at the time of the encryption.
LEMMA DecryptedStream ==
  ASSUME NEW c, IsCall(c), ReadsBack(c), DecryptSessions(c) # {}, Decryptable(c),
         NEW stream, stream = CommandStream(c, InParameters(c)), NEW offset, offset = HeaderSize + HandlesSize(c)
  PROVE  /\ SizeAt(stream, offset) = 0 => stream = CommandStream(c, Sent(c))
         /\ Encipher(stream, offset + 2, SizeAt(stream, offset), CommandKey(c)) = CommandStream(c, Sent(c))
<1> DEFINE p == InParameters(c)
           q == Enciphered(p, CommandKey(c))
<1>1. /\ IsStream(InHandles(c)) /\ InHandles(c).size = HandlesSize(c) /\ IsStream(p) /\ Tpm2bFirst(p)
  BY CommandFacts DEF Decryptable
<1>2. CommandKey(c) \in CipherKeys
  BY CommandKeyFacts
<1>3. IsStream(Empty) /\ p ++ Empty = p /\ IsStream(q) /\ q ++ Empty = q
  BY <1>1, <1>2, EmptyStream, ConcatEmpty, EncipherKeeps DEF Tpm2bFirst
<1>4. Sent(c) = q
  BY DEF Sent
<1>5. /\ Encipher(stream, offset + 2, SizeAt(p, 0), CommandKey(c)) = CommandStream(c, q)
      /\ SizeAt(stream, offset) = SizeAt(p, 0)
  BY <1>1, <1>2, <1>3, EncipherFramed DEF CommandStream
<1>6. SizeAt(p, 0) = 0 => q = p
  BY <1>1, <1>2, EncipherNothing
<1>7. QED
  BY <1>4, <1>5, <1>6

LEMMA DecryptStep ==
  ASSUME IInv, TSS_Command_Decrypt
  PROVE  IInv'
<1> DEFINE c == call
<1>1. /\ pc = "marshaled" /\ call' = call /\ cpBuffer' = cpBuffer /\ authCount' = authCount
      /\ received' = received /\ given' = given
  BY DEF TSS_Command_Decrypt
<1>2. /\ IsCall(c) /\ ReadsBack(c) /\ refusedBy = "none" /\ given = <<>> /\ received = <<>>
      /\ cpBuffer = HeaderSize + HandlesSize(c) /\ authCount = 0
      /\ commandBuffer = CommandStream(c, InParameters(c))
  BY <1>1 DEF IInv, TypeInv, RunningInv, UnauthorizedInv, Running, Steps
<1>3. TypeInv
  BY DEF IInv
<1> DEFINE refused == \/ Cardinality(DecryptSessions(c)) > 1
                      \/ DecryptSessions(c) # {} /\ getDecryptSize(c.command) # 2
                      \/ /\ DecryptSessions(c) # {} /\ SizeAt(commandBuffer, cpBuffer) # 0
                         /\ ~Implemented(c.sessions[CHOOSE i \in DecryptSessions(c) : TRUE])
<1>4. CASE refused
  <2>1. pc' = "done" /\ commandBuffer' = commandBuffer
    BY <1>4 DEF TSS_Command_Decrypt, Refuse, DecryptSessions
  <2>2. TypeInv'
    BY <1>1, <1>2, <1>3, <2>1 DEF TypeInv, Steps
  <2>3. ClearedInv' /\ RunningInv' /\ UnauthorizedInv' /\ SendInv'
    BY <2>1 DEF ClearedInv, RunningInv, UnauthorizedInv, SendInv, Running
  <2>4. QED
    BY <2>2, <2>3 DEF IInv
<1>5. CASE ~refused
  <2>1. /\ pc' = "decrypt" /\ refusedBy' = refusedBy
        /\ commandBuffer' =
             IF DecryptSessions(c) = {} \/ SizeAt(commandBuffer, cpBuffer) = 0 THEN commandBuffer
             ELSE Encipher(commandBuffer, cpBuffer + 2, SizeAt(commandBuffer, cpBuffer), CommandKey(c))
    BY <1>5 DEF TSS_Command_Decrypt, Completed, DecryptSessions, CommandKey
  <2>2. Decryptable(c)
    <3>1. DecryptSessions(c) \subseteq DOMAIN c.sessions
      BY DEF DecryptSessions, GetDecryptSession, BeforePassword
    <3>2. Cardinality(DecryptSessions(c)) \in Nat
      BY <1>2, <3>1, SessionsAreFinite
    <3>3. Cardinality(DecryptSessions(c)) <= 1
      BY <1>5, <3>2
    <3>4. QED
      BY <1>5, <3>3 DEF Decryptable
  <2>3. commandBuffer' = CommandStream(c, Sent(c))
    <3>1. CASE DecryptSessions(c) = {}
      BY <1>2, <2>1, <3>1 DEF Sent
    <3>2. CASE DecryptSessions(c) # {}
      BY <1>2, <2>1, <2>2, <3>2, DecryptedStream
    <3>3. QED
      BY <3>1, <3>2
  <2>4. commandBuffer'.size \in 0 .. MAX_COMMAND_SIZE
    <3>1. /\ CommandStream(c, InParameters(c)).size \in 0 .. MAX_COMMAND_SIZE
          /\ IsStream(Sent(c)) /\ Sent(c).size = InParameters(c).size
          /\ IsStream(InHandles(c)) /\ IsStream(InParameters(c))
      BY <1>2, <2>2, MarshaledStream, SentFacts, CommandFacts
    <3>2. CommandStream(c, Sent(c)).size = CommandStream(c, InParameters(c)).size
      BY <3>1, ConcatStream, FramedStream DEF CommandStream
    <3>3. QED
      BY <2>3, <3>1, <3>2
  <2>5. TypeInv'
    BY <1>1, <1>2, <1>3, <2>1, <2>4 DEF TypeInv, Steps
  <2>6. ClearedInv' /\ RunningInv' /\ UnauthorizedInv' /\ SendInv'
    BY <1>1, <1>2, <2>1, <2>2, <2>3 DEF ClearedInv, RunningInv, UnauthorizedInv, SendInv, Running
  <2>7. QED
    BY <2>5, <2>6 DEF IInv
<1>6. QED
  BY <1>4, <1>5

LEMMA HmacStep ==
  ASSUME IInv, TSS_HmacSession_SetHMAC
  PROVE  IInv'
<1> DEFINE c == call
<1>1. /\ pc = "decrypt" /\ pc' = "hmac" /\ refusedBy' = refusedBy /\ call' = call /\ cpBuffer' = cpBuffer
      /\ authCount' = authCount /\ commandBuffer' = commandBuffer /\ received' = received /\ given' = given
      /\ hmacs' = Skip(commandBuffer, cpBuffer)
  BY DEF TSS_HmacSession_SetHMAC, Completed
<1>2. /\ IsCall(c) /\ ReadsBack(c) /\ refusedBy = "none" /\ given = <<>> /\ received = <<>>
      /\ cpBuffer = HeaderSize + HandlesSize(c) /\ authCount = 0
      /\ commandBuffer = CommandStream(c, Sent(c)) /\ Decryptable(c)
  BY <1>1 DEF IInv, TypeInv, RunningInv, UnauthorizedInv, Running, Steps
<1>3. hmacs' = Sent(c)
  <2>1. IsStream(InHandles(c)) /\ IsStream(Sent(c)) /\ InHandles(c).size = HandlesSize(c)
    BY <1>2, CommandFacts, SentFacts
  <2>2. QED
    BY <1>1, <1>2, <2>1, FramedSkips DEF CommandStream
<1>4. TypeInv'
  BY <1>1, <1>2 DEF IInv, TypeInv, Steps
<1>5. ClearedInv' /\ RunningInv' /\ UnauthorizedInv' /\ SendInv'
  BY <1>1, <1>2, <1>3 DEF ClearedInv, RunningInv, UnauthorizedInv, SendInv, Running
<1>6. QED
  BY <1>4, <1>5 DEF IInv

\* The size of a command after the authorizations were inserted.
LEMMA AuthorizedSize ==
  ASSUME NEW l \in Nat, NEW n \in Nat, NEW m \in Nat
  PROVE  HeaderSize + (l + (4 + (m + (n - l)))) = HeaderSize + n + 4 + m
BY DEF HeaderSize

\* The command with its authorizations inserted.
LEMMA AuthorizedStream ==
  ASSUME NEW c, IsCall(c), ReadsBack(c), Decryptable(c), c.sessions # <<>>,
         NEW stream, stream = CommandStream(c, Sent(c)), NEW offset, offset = HeaderSize + HandlesSize(c)
  PROVE  LET a == Authorizations(c)
             inserted == Prefix(stream, offset) ++ Chunk(4, a.size) ++ a ++ Skip(stream, offset)
         IN  /\ SetSize(inserted, TPM_ST.SESSIONS) = SentStream(c)
             /\ inserted.size = HeaderSize + InStream(c).size + 4 + a.size
             /\ SentStream(c).size = inserted.size
<1> DEFINE h == InHandles(c)
           q == Sent(c)
           a == Authorizations(c)
           s == Chunk(4, a.size)
           header == Header(TPM_ST.NO_SESSIONS, HeaderSize + (h ++ q).size, TPM_CC[c.command])
           inserted == Prefix(stream, offset) ++ s ++ a ++ Skip(stream, offset)
           body == h ++ (s ++ (a ++ q))
<1>1. /\ IsStream(h) /\ h.size = HandlesSize(c) /\ IsStream(q) /\ q.size = InParameters(c).size
      /\ IsStream(a) /\ a.size \in Nat /\ IsStream(s) /\ s.size = 4
      /\ IsStream(header) /\ header.size = HeaderSize
      /\ InParameters(c).size = InStream(c).size - HandlesSize(c)
      /\ InStream(c).size \in Nat /\ HandlesSize(c) \in Nat
  BY CommandFacts, SentFacts, ChunkStream, HeaderStream
<1>2. Prefix(stream, offset) = header ++ h /\ Skip(stream, offset) = q
  BY <1>1, FramedSkips DEF CommandStream
<1>3. /\ IsStream(header ++ h) /\ IsStream((header ++ h) ++ s) /\ IsStream(a ++ q)
      /\ IsStream(s ++ (a ++ q)) /\ IsStream(body)
      /\ (a ++ q).size = a.size + q.size
      /\ (s ++ (a ++ q)).size = 4 + (a.size + q.size)
      /\ body.size = HandlesSize(c) + (4 + (a.size + q.size))
  BY <1>1, ConcatStream
<1>4. inserted = header ++ body
  <2>1. inserted = ((header ++ h) ++ s) ++ (a ++ q)
    BY <1>1, <1>2, <1>3, ConcatAssociates
  <2>2. ((header ++ h) ++ s) ++ (a ++ q) = (header ++ h) ++ (s ++ (a ++ q))
    BY <1>1, <1>3, ConcatAssociates
  <2>3. (header ++ h) ++ (s ++ (a ++ q)) = header ++ body
    BY <1>1, <1>3, ConcatAssociates
  <2>4. QED
    BY <2>1, <2>2, <2>3
<1>5. SetSize(inserted, TPM_ST.SESSIONS) = Framed(TPM_ST.SESSIONS, TPM_CC[c.command], body)
  BY <1>3, <1>4, SetSizeFrames
<1>6. SentStream(c) = Framed(TPM_ST.SESSIONS, TPM_CC[c.command], body)
  BY DEF SentStream
<1>7. inserted.size = HeaderSize + body.size /\ SentStream(c).size = HeaderSize + body.size
  BY <1>1, <1>3, <1>4, <1>6, ConcatStream, FramedStream
<1>8. HeaderSize + body.size = HeaderSize + InStream(c).size + 4 + a.size
  <2>1. body.size = HandlesSize(c) + (4 + (a.size + (InStream(c).size - HandlesSize(c))))
    BY <1>1, <1>3
  <2>2. HandlesSize(c) \in Nat /\ InStream(c).size \in Nat /\ a.size \in Nat
    BY <1>1
  <2>3. HeaderSize + (HandlesSize(c) + (4 + (a.size + (InStream(c).size - HandlesSize(c)))))
          = HeaderSize + InStream(c).size + 4 + a.size
    BY ONLY <2>2, AuthorizedSize
  <2>4. QED
    BY ONLY <2>1, <2>3
<1>9. QED
  BY <1>5, <1>6, <1>7, <1>8

LEMMA SetCmdAuthsStep ==
  ASSUME IInv, TSS_SetCmdAuths
  PROVE  IInv'
<1> DEFINE c == call
           a == Authorizations(c)
           inserted == Prefix(commandBuffer, cpBuffer) ++ Chunk(4, a.size) ++ a ++ Skip(commandBuffer, cpBuffer)
<1>1. /\ pc = "hmac" /\ call' = call /\ hmacs' = hmacs /\ received' = received /\ given' = given
  BY DEF TSS_SetCmdAuths
<1>2. /\ IsCall(c) /\ ReadsBack(c) /\ refusedBy = "none" /\ given = <<>> /\ received = <<>>
      /\ cpBuffer = HeaderSize + HandlesSize(c) /\ authCount = 0 /\ Decryptable(c)
      /\ commandBuffer = CommandStream(c, Sent(c)) /\ hmacs = Sent(c)
  BY <1>1 DEF IInv, TypeInv, RunningInv, UnauthorizedInv, SendInv, Running, Steps
<1>3. /\ a.size = 0 <=> c.sessions = <<>>
      /\ a.size \in Nat /\ Len(c.sessions) \in 0 .. MAX_SESSION_NUM
      /\ HeaderSize + InStream(c).size + 4 + a.size <= MAX_COMMAND_SIZE
      /\ HandlesSize(c) \in Nat /\ InStream(c).size \in Nat
      /\ InParameters(c).size = InStream(c).size - HandlesSize(c) /\ InParameters(c).size \in Nat
  BY <1>2, CommandFacts
<1>4. TypeInv
  BY DEF IInv
<1>5. CASE c.sessions = <<>>
  <2>1. /\ pc' = "send" /\ refusedBy' = refusedBy /\ commandBuffer' = commandBuffer
        /\ cpBuffer' = cpBuffer /\ authCount' = authCount
    BY <1>3, <1>5 DEF TSS_SetCmdAuths, Completed, Authorizations
  <2>2. Len(c.sessions) = 0
    BY <1>5
  <2>3. SentStream(c) = CommandStream(c, Sent(c)) /\ SentOffset(c) = cpBuffer
    BY <1>2, <1>3, <1>5 DEF SentStream, SentOffset, HeaderSize
  <2>4. TypeInv'
    BY <1>1, <1>4, <2>1 DEF TypeInv, Steps
  <2>5. ClearedInv' /\ RunningInv' /\ UnauthorizedInv' /\ SendInv'
    BY <1>1, <1>2, <2>1, <2>2, <2>3 DEF ClearedInv, RunningInv, UnauthorizedInv, SendInv, Running
  <2>6. QED
    BY <2>4, <2>5 DEF IInv
<1>6. CASE c.sessions # <<>>
  <2>1. /\ SetSize(inserted, TPM_ST.SESSIONS) = SentStream(c)
        /\ inserted.size = HeaderSize + InStream(c).size + 4 + a.size
        /\ SentStream(c).size = inserted.size
    BY <1>2, <1>6, AuthorizedStream
  <2>2. ~(inserted.size > MAX_COMMAND_SIZE) /\ inserted.size \in 0 .. MAX_COMMAND_SIZE
    <3>1. \A n, m \in Nat : HeaderSize + n + 4 + m <= MAX_COMMAND_SIZE
            => /\ ~(HeaderSize + n + 4 + m > MAX_COMMAND_SIZE)
               /\ HeaderSize + n + 4 + m \in 0 .. MAX_COMMAND_SIZE
      BY DEF HeaderSize, MAX_COMMAND_SIZE
    <3>2. QED
      BY <1>3, <2>1, <3>1
  <2>3. /\ pc' = "send" /\ refusedBy' = refusedBy /\ commandBuffer' = SetSize(inserted, TPM_ST.SESSIONS)
        /\ cpBuffer' = cpBuffer + 4 + a.size /\ authCount' = Len(c.sessions)
    BY <1>3, <1>6, <2>2 DEF TSS_SetCmdAuths, Completed, Authorizations
  <2>4. cpBuffer' = SentOffset(c) /\ cpBuffer' \in 0 .. MAX_COMMAND_SIZE
    <3>1. \A h, n, m, p \in Nat : HeaderSize + n + 4 + m <= MAX_COMMAND_SIZE /\ p = n - h
            => /\ HeaderSize + h + 4 + m \in 0 .. MAX_COMMAND_SIZE
               /\ HeaderSize + h + 4 + m = HeaderSize + h + (4 + m)
      BY DEF HeaderSize, MAX_COMMAND_SIZE
    <3>2. QED
      BY <1>2, <1>3, <1>6, <2>3, <3>1 DEF SentOffset
  <2>5. TypeInv'
    BY <1>1, <1>3, <1>4, <2>1, <2>2, <2>3, <2>4 DEF TypeInv, Steps
  <2>6. ClearedInv' /\ RunningInv' /\ UnauthorizedInv' /\ SendInv'
    BY <1>1, <1>2, <2>1, <2>3, <2>4 DEF ClearedInv, RunningInv, UnauthorizedInv, SendInv, Running
  <2>7. QED
    BY <2>5, <2>6 DEF IInv
<1>7. QED
  BY <1>5, <1>6

LEMMA ExecuteStep ==
  ASSUME IInv, NEW fault, TpmExecutes(fault)
  PROVE  IInv'
<1>1. /\ pc = "send" /\ call' = call /\ commandBuffer' = commandBuffer /\ cpBuffer' = cpBuffer
      /\ authCount' = authCount /\ given' = given
  BY DEF TpmExecutes
<1>2. \/ pc' = "execute" /\ refusedBy' = refusedBy /\ received' = <<received'[1]>>
      \/ pc' = "done" /\ received' = received
  <2>1. ASSUME NEW r, received' = <<r>> PROVE received' = <<received'[1]>>
    BY <2>1
  <2>2. \/ pc' = "execute" /\ refusedBy' = refusedBy /\ \E r : received' = <<r>>
        \/ pc' = "done" /\ received' = received
    BY DEF TpmExecutes, TpmAnswers, Completed, Refuse
  <2>3. QED
    BY <2>1, <2>2
<1>3. /\ IsCall(call) /\ ReadsBack(call) /\ refusedBy = "none" /\ given = <<>> /\ received = <<>>
  BY <1>1 DEF IInv, TypeInv, RunningInv, Running, Steps
<1>4. TypeInv
  BY DEF IInv
<1>5. TypeInv'
  BY <1>1, <1>2, <1>3, <1>4 DEF TypeInv, Steps
<1>6. ClearedInv' /\ RunningInv' /\ UnauthorizedInv' /\ SendInv'
  BY <1>1, <1>2, <1>3 DEF ClearedInv, RunningInv, UnauthorizedInv, SendInv, Running
<1>7. QED
  BY <1>5, <1>6 DEF IInv

\* The steps that only read and change the response.
LEMMA ResponseStep ==
  ASSUME IInv, pc \in {"execute", "auths", "verify", "encrypt"},
         pc' \in {"auths", "verify", "encrypt", "done"},
         pc' # "done" => refusedBy' = refusedBy /\ given' = given,
         given' = <<>> \/ given' = <<given'[1]>>,
         UNCHANGED <<call, commandVars, received>>
  PROVE  IInv'
<1>1. /\ IsCall(call) /\ ReadsBack(call) /\ refusedBy = "none" /\ given = <<>> /\ call' = call
      /\ commandBuffer' = commandBuffer /\ cpBuffer' = cpBuffer /\ authCount' = authCount /\ hmacs' = hmacs
      /\ received' = received
  BY DEF IInv, TypeInv, RunningInv, Running, Steps, commandVars
<1>2. TypeInv
  BY DEF IInv
<1>3. TypeInv'
  BY <1>1, <1>2 DEF TypeInv, Steps
<1>4. ClearedInv' /\ RunningInv' /\ UnauthorizedInv' /\ SendInv'
  BY <1>1 DEF ClearedInv, RunningInv, UnauthorizedInv, SendInv, Running
<1>5. QED
  BY <1>3, <1>4 DEF IInv

LEMMA GetRspAuthsStep == ASSUME IInv, TSS_GetRspAuths PROVE IInv'
<1>1. /\ pc = "execute" /\ pc' \in {"auths", "done"} /\ (pc' # "done" => refusedBy' = refusedBy)
      /\ given' = given /\ UNCHANGED <<call, commandVars, received>>
  BY DEF TSS_GetRspAuths, Completed, Refuse
<1>2. given = <<>>
  BY <1>1 DEF IInv, RunningInv, Running, Steps
<1>3. QED
  BY <1>1, <1>2, ResponseStep

LEMMA VerifyStep == ASSUME IInv, TSS_HmacSession_Verify PROVE IInv'
<1>1. /\ pc = "auths" /\ pc' \in {"verify", "done"} /\ (pc' # "done" => refusedBy' = refusedBy)
      /\ given' = given /\ UNCHANGED <<call, commandVars, received>>
  BY DEF TSS_HmacSession_Verify, Completed, Refuse
<1>2. given = <<>>
  BY <1>1 DEF IInv, RunningInv, Running, Steps
<1>3. QED
  BY <1>1, <1>2, ResponseStep

LEMMA EncryptStep == ASSUME IInv, TSS_Response_Encrypt PROVE IInv'
<1>1. /\ pc = "verify" /\ pc' \in {"encrypt", "done"} /\ (pc' # "done" => refusedBy' = refusedBy)
      /\ given' = given /\ UNCHANGED <<call, commandVars, received>>
  BY DEF TSS_Response_Encrypt, Completed, Refuse
<1>2. given = <<>>
  BY <1>1 DEF IInv, RunningInv, Running, Steps
<1>3. QED
  BY <1>1, <1>2, ResponseStep

LEMMA UnmarshalStep == ASSUME IInv, TSS_Unmarshal PROVE IInv'
<1>1. /\ pc = "encrypt" /\ pc' = "done" /\ (given' = given \/ given' = <<given'[1]>>)
      /\ UNCHANGED <<call, commandVars, received>>
  BY DEF TSS_Unmarshal, Unmarshaled, Done, Refuse
<1>2. given = <<>>
  BY <1>1 DEF IInv, RunningInv, Running, Steps
<1>3. QED
  BY <1>1, <1>2, ResponseStep

LEMMA WriteStep == ASSUME IInv, NEW f, TSS_File_WriteStructure(f) PROVE IInv'
<1>1. /\ pc = "idle" /\ pc' \in {"written", "file"} /\ (pc' = "written" => refusedBy' = refusedBy)
      /\ UNCHANGED <<commandVars, received, given>>
  BY DEF TSS_File_WriteStructure, Completed
<1>2. /\ commandBuffer' = commandBuffer /\ cpBuffer' = cpBuffer /\ authCount' = authCount /\ hmacs' = hmacs
      /\ received' = received /\ given' = given
  BY <1>1 DEF commandVars
<1>3. TypeInv /\ ClearedInv
  BY DEF IInv
<1>4. TypeInv'
  BY <1>1, <1>2, <1>3 DEF TypeInv, Steps
<1>5. ClearedInv' /\ RunningInv' /\ UnauthorizedInv' /\ SendInv'
  BY <1>1, <1>2, <1>3 DEF ClearedInv, RunningInv, UnauthorizedInv, SendInv, Running, Steps
<1>6. QED
  BY <1>4, <1>5 DEF IInv

LEMMA ReadStep == ASSUME IInv, TSS_File_ReadStructure PROVE IInv'
<1>1. /\ pc = "written" /\ pc' = "file" /\ (given' = given \/ given' = <<given'[1]>>)
      /\ UNCHANGED <<commandVars, received>>
  BY DEF TSS_File_ReadStructure
<1>2. /\ commandBuffer' = commandBuffer /\ cpBuffer' = cpBuffer /\ authCount' = authCount /\ hmacs' = hmacs
      /\ received' = received
  BY <1>1 DEF commandVars
<1>3. TypeInv /\ ClearedInv
  BY DEF IInv
<1>4. TypeInv'
  BY <1>1, <1>2, <1>3 DEF TypeInv, Steps
<1>5. ClearedInv' /\ RunningInv' /\ UnauthorizedInv' /\ SendInv'
  BY <1>1, <1>2, <1>3 DEF ClearedInv, RunningInv, UnauthorizedInv, SendInv, Running, Steps
<1>6. QED
  BY <1>4, <1>5 DEF IInv

LEMMA InitAuthContextStep == ASSUME IInv, TSS_InitAuthContext PROVE IInv'
<1>1. Empty.size \in 0 .. MAX_COMMAND_SIZE /\ 0 \in 0 .. MAX_COMMAND_SIZE /\ 0 \in 0 .. MAX_SESSION_NUM
  BY DEF Empty, MAX_COMMAND_SIZE, MAX_SESSION_NUM
<1>2. /\ pc' = "idle" /\ refusedBy' = "none" /\ commandBuffer' = Empty /\ cpBuffer' = 0 /\ authCount' = 0
      /\ received' = <<>> /\ given' = <<>>
  BY DEF TSS_InitAuthContext
<1>3. TypeInv'
  BY <1>1, <1>2 DEF TypeInv, Steps
<1>4. ClearedInv' /\ RunningInv' /\ UnauthorizedInv' /\ SendInv'
  BY <1>2 DEF ClearedInv, RunningInv, UnauthorizedInv, SendInv, Running, Steps
<1>5. QED
  BY <1>3, <1>4 DEF IInv

\* Every step keeps the invariant.
LEMMA NextIInv == ASSUME IInv, StructureReadsBack', [Next]_vars PROVE IInv'
<1>1. ASSUME NEW i \in DOMAIN Calls, TSS_Marshal(Calls[i]) PROVE IInv'
  BY <1>1, MarshalStep DEF IsCall
<1>2. ASSUME UNCHANGED vars PROVE IInv'
  <2>1. /\ call' = call /\ pc' = pc /\ refusedBy' = refusedBy /\ commandBuffer' = commandBuffer
        /\ cpBuffer' = cpBuffer /\ authCount' = authCount /\ hmacs' = hmacs /\ received' = received
        /\ given' = given
    BY <1>2 DEF vars
  <2>2. QED
    BY <2>1 DEF IInv, TypeInv, ClearedInv, RunningInv, UnauthorizedInv, SendInv
<1>3. QED
  BY <1>1, <1>2, DecryptStep, HmacStep, SetCmdAuthsStep, ExecuteStep, GetRspAuthsStep, VerifyStep,
     EncryptStep, UnmarshalStep, WriteStep, ReadStep, InitAuthContextStep DEF Next

-----------------------------------------------------------------------------
(* The response, and the invariant of what the two sides get               *)

\* Every call has its sessions in that order.
SessionsInOrder == \A i \in DOMAIN Calls : InOrder(Calls[i].sessions)

EncryptSessions(c) == GetEncryptSession(c.sessions)

ResponseKey(c) ==
  LET i == CHOOSE i \in EncryptSessions(c) : TRUE
  IN  Key(i, "response", TssAlgorithm(c.sessions[i]))

\* The parameters of the response as the TPM sends them.
Answered(c) ==
  IF EncryptSessions(c) = {} THEN OutParameters(c) ELSE Enciphered(OutParameters(c), ResponseKey(c))

HasArea(c, fault) == c.sessions # <<>> /\ fault # "untagged"

\* The response with some parameters.
ResponseStream(c, fault, parameters) ==
  IF HasArea(c, fault)
    THEN Framed(TPM_ST.SESSIONS, 0,
                OutHandles(c) ++ (Chunk(4, parameters.size)
                                    ++ (parameters ++ (AnswerArea(c, fault) ++ Trailer(fault)))))
    ELSE Framed(TPM_ST.NO_SESSIONS, 0, OutHandles(c) ++ (parameters ++ Trailer(fault)))

\* What the TPM took is what the application filled in.
Took(c, taken) ==
  LET handles == TpmCommand(c.command).handles
  IN  /\ \A i \in DOMAIN handles : taken.handles[i] = c.in[handles[i]]
      /\ \A name \in DOMAIN taken.parameters : taken.parameters[name] = c.in[name]

TookInv ==
  /\ received # <<>> => Took(call, received[1])
  /\ pc = "done" /\ refusedBy \in {"TSS_Command_Decrypt", "TSS_SetCmdAuths", "TPM"} => ~Legal(call)

\* A response is there, with a fault until its authorizations are read; a session for it, with a
\* parameter of that kind.
AnsweredInv ==
  /\ pc \in {"execute", "auths", "verify", "encrypt"} =>
       /\ received # <<>> /\ Legal(call)
  /\ pc \in {"execute", "auths"} => hmacs = Answered(call)
  /\ pc = "execute" =>
       /\ authCount = Len(call.sessions)
       /\ \E fault \in call.faults :
            received[1].ok = (fault = "none") /\ responseBuffer = ResponseStream(call, fault, Answered(call))
  /\ pc \in {"auths", "verify", "encrypt"} => "none" \in call.faults /\ received[1].ok = TRUE
  /\ pc \in {"auths", "verify"} => responseBuffer = ResponseStream(call, "none", Answered(call))
  /\ pc = "encrypt" => responseBuffer = ResponseStream(call, "none", OutParameters(call))

RInv == TookInv /\ AnsweredInv /\ ApplicationReceivesTheResponse

\* The attributes and the handle the TPM sees are those of the session.
LEMMA AuthCommandFacts ==
  ASSUME NEW i \in Nat, NEW s \in SessionRecord
  PROVE  LET a == AuthCommand(i, s)
         IN  /\ (a.sessionAttributes \div TPMA_SESSION_DECRYPT) % 2 = 1 <=> s.kind = "hmac" /\ s.decrypt
             /\ (a.sessionAttributes \div TPMA_SESSION_ENCRYPT) % 2 = 1 <=> s.kind = "hmac" /\ s.encrypt
             /\ s.kind = "hmac" => a.sessionHandle - HMAC_SESSION_FIRST = i
<1> DEFINE a == AuthCommand(i, s)
<1>1. s.kind \in {"pw", "hmac"} /\ s.decrypt \in BOOLEAN /\ s.encrypt \in BOOLEAN
  BY DEF SessionRecord
<1>2. /\ (0 \div 32) % 2 = 0 /\ (0 \div 64) % 2 = 0 /\ (1 \div 32) % 2 = 0 /\ (1 \div 64) % 2 = 0
      /\ (33 \div 32) % 2 = 1 /\ (33 \div 64) % 2 = 0 /\ (65 \div 32) % 2 = 0 /\ (65 \div 64) % 2 = 1
      /\ (97 \div 32) % 2 = 1 /\ (97 \div 64) % 2 = 1
  OBVIOUS
<1>3. CASE s.kind = "pw"
  <2>1. a.sessionAttributes = 0
    BY <1>3 DEF AuthCommand
  <2>2. s.kind # "hmac"
    BY <1>3
  <2>3. QED
    BY <1>2, <2>1, <2>2 DEF TPMA_SESSION_DECRYPT, TPMA_SESSION_ENCRYPT
<1>4. CASE s.kind = "hmac"
  <2>1. a.sessionAttributes = TPMA_SESSION(s) /\ a.sessionHandle = HMAC_SESSION_FIRST + i
    BY <1>4 DEF AuthCommand
  <2>2. /\ s.decrypt /\ s.encrypt => TPMA_SESSION(s) = 97
        /\ s.decrypt /\ ~s.encrypt => TPMA_SESSION(s) = 33
        /\ ~s.decrypt /\ s.encrypt => TPMA_SESSION(s) = 65
        /\ ~s.decrypt /\ ~s.encrypt => TPMA_SESSION(s) = 1
    BY DEF TPMA_SESSION, TPMA_SESSION_DECRYPT, TPMA_SESSION_ENCRYPT
  <2>3. /\ (a.sessionAttributes \div 32) % 2 = 1 <=> s.decrypt
        /\ (a.sessionAttributes \div 64) % 2 = 1 <=> s.encrypt
    <3>1. CASE s.decrypt /\ s.encrypt
      BY <1>2, <2>1, <2>2, <3>1
    <3>2. CASE s.decrypt /\ ~s.encrypt
      BY <1>2, <2>1, <2>2, <3>2
    <3>3. CASE ~s.decrypt /\ s.encrypt
      BY <1>2, <2>1, <2>2, <3>3
    <3>4. CASE ~s.decrypt /\ ~s.encrypt
      BY <1>2, <2>1, <2>2, <3>4
    <3>5. QED
      BY <1>1, <3>1, <3>2, <3>3, <3>4
  <2>4. TPMA_SESSION_DECRYPT = 32 /\ TPMA_SESSION_ENCRYPT = 64
    BY DEF TPMA_SESSION_DECRYPT, TPMA_SESSION_ENCRYPT
  <2>5. /\ (a.sessionAttributes \div TPMA_SESSION_DECRYPT) % 2 = 1 <=> s.decrypt
        /\ (a.sessionAttributes \div TPMA_SESSION_ENCRYPT) % 2 = 1 <=> s.encrypt
    BY ONLY <2>3, <2>4
  <2>6. a.sessionHandle - HMAC_SESSION_FIRST = i
    BY <2>1 DEF HMAC_SESSION_FIRST
  <2>7. QED
    BY ONLY <1>4, <2>5, <2>6, Zenon
<1>5. QED
  BY <1>1, <1>3, <1>4

\* The sessions the TSS finds are those the TPM sees.
LEMMA OrderedSessions ==
  ASSUME SessionsInOrder, NEW c, IsCall(c)
  PROVE  /\ DecryptSessions(c) = Indices(c.sessions, IsDecrypt)
         /\ EncryptSessions(c) = Indices(c.sessions, IsEncrypt)
         /\ WithAttribute(AuthCommands(c.sessions), TPMA_SESSION_DECRYPT) = DecryptSessions(c)
         /\ WithAttribute(AuthCommands(c.sessions), TPMA_SESSION_ENCRYPT) = EncryptSessions(c)
         /\ \A i \in DecryptSessions(c) \union EncryptSessions(c) :
              /\ i \in DOMAIN c.sessions /\ i \in Nat
              /\ c.sessions[i].kind = "hmac" /\ c.sessions[i].algorithm # "aes256"
<1>1. ASSUME NEW j \in DOMAIN c.sessions
      PROVE  /\ c.sessions[j].decrypt \/ c.sessions[j].encrypt =>
                  /\ c.sessions[j].kind = "hmac" /\ j \in BeforePassword(c.sessions)
                  /\ c.sessions[j].algorithm # "aes256"
             /\ j \in Nat /\ c.sessions[j] \in SessionRecord
  BY SessionFacts DEF SessionsInOrder, InOrder, IsCall
<1>2. DecryptSessions(c) = Indices(c.sessions, IsDecrypt) /\ EncryptSessions(c) = Indices(c.sessions, IsEncrypt)
  BY <1>1 DEF DecryptSessions, EncryptSessions, GetDecryptSession, GetEncryptSession, Indices, IsDecrypt,
              IsEncrypt
<1>3. /\ Indices(c.sessions, IsDecrypt) = {i \in DOMAIN c.sessions : c.sessions[i].decrypt}
      /\ Indices(c.sessions, IsEncrypt) = {i \in DOMAIN c.sessions : c.sessions[i].encrypt}
  BY DEF Indices, IsDecrypt, IsEncrypt
<1>4. ASSUME NEW j \in DOMAIN c.sessions
      PROVE  /\ (AuthCommands(c.sessions)[j].sessionAttributes \div TPMA_SESSION_DECRYPT) % 2 = 1
                  <=> c.sessions[j].decrypt
             /\ (AuthCommands(c.sessions)[j].sessionAttributes \div TPMA_SESSION_ENCRYPT) % 2 = 1
                  <=> c.sessions[j].encrypt
  <2>1. AuthCommands(c.sessions)[j] = AuthCommand(j, c.sessions[j])
    BY DEF AuthCommands
  <2>2. QED
    BY <1>1, <2>1, AuthCommandFacts
<1>5. DOMAIN AuthCommands(c.sessions) = DOMAIN c.sessions
  BY DEF AuthCommands
<1>6. /\ WithAttribute(AuthCommands(c.sessions), TPMA_SESSION_DECRYPT) = DecryptSessions(c)
      /\ WithAttribute(AuthCommands(c.sessions), TPMA_SESSION_ENCRYPT) = EncryptSessions(c)
  BY <1>2, <1>3, <1>4, <1>5 DEF WithAttribute
<1>7. QED
  BY <1>1, <1>2, <1>3, <1>6

\* The TPM finds the session by its handle.
LEMMA SameSession ==
  ASSUME SessionsInOrder, NEW c, IsCall(c), NEW i \in DecryptSessions(c) \union EncryptSessions(c)
  PROVE  /\ AuthCommands(c.sessions)[i].sessionHandle - HMAC_SESSION_FIRST = i
         /\ TpmSession(c, AuthCommands(c.sessions), i) = c.sessions[i]
<1>1. i \in DOMAIN c.sessions /\ i \in Nat /\ c.sessions[i].kind = "hmac"
  BY OrderedSessions
<1>2. c.sessions[i] \in SessionRecord
  BY <1>1, SessionFacts
<1>3. AuthCommands(c.sessions)[i] = AuthCommand(i, c.sessions[i])
  BY <1>1 DEF AuthCommands
<1>4. AuthCommands(c.sessions)[i].sessionHandle - HMAC_SESSION_FIRST = i
  BY <1>1, <1>2, <1>3, AuthCommandFacts
<1>5. QED
  BY <1>4 DEF TpmSession

\* The TPM and the TSS use the same key.
LEMMA SameKey ==
  ASSUME SessionsInOrder, NEW c, IsCall(c), NEW i \in DecryptSessions(c) \union EncryptSessions(c),
         NEW direction
  PROVE  /\ TpmKey(c, AuthCommands(c.sessions), i, direction)
              = Key(i, direction, TssAlgorithm(c.sessions[i]))
         /\ i \in Nat /\ TssAlgorithm(c.sessions[i]) \in Algorithms
<1>1. i \in DOMAIN c.sessions /\ i \in Nat /\ c.sessions[i].algorithm # "aes256"
  BY OrderedSessions
<1>2. TssAlgorithm(c.sessions[i]) \in Algorithms
  BY <1>1, SessionFacts
<1>3. AuthCommands(c.sessions)[i].sessionHandle - HMAC_SESSION_FIRST = i
  BY SameSession
<1>4. TssAlgorithm(c.sessions[i]) = c.sessions[i].algorithm
  BY <1>1 DEF TssAlgorithm
<1>5. QED
  BY <1>1, <1>2, <1>3, <1>4 DEF TpmKey

\* The session that encrypts the response has a key.
LEMMA ResponseKeyFacts ==
  ASSUME SessionsInOrder, NEW c, IsCall(c), EncryptSessions(c) # {}
  PROVE  ResponseKey(c) \in CipherKeys /\ ResponseKey(c) # Clear
<1> DEFINE i == CHOOSE i \in EncryptSessions(c) : TRUE
<1>1. i \in EncryptSessions(c)
  OBVIOUS
<1>2. i \in Nat /\ TssAlgorithm(c.sessions[i]) \in Algorithms
  BY <1>1, SameKey
<1>3. ResponseKey(c) = Key(i, "response", TssAlgorithm(c.sessions[i]))
  BY DEF ResponseKey
<1>4. "response" \in Directions
  BY DEF Directions
<1>5. QED
  BY <1>2, <1>3, <1>4, KeyFacts

\* The two tags are different and both are read.
LEMMA Tags ==
  ASSUME NEW tag \in {TPM_ST.SESSIONS, TPM_ST.NO_SESSIONS}
  PROVE  TPM_ST.SESSIONS # TPM_ST.NO_SESSIONS /\ TPM_ST_Unmarshal.n = 2 /\ Allowed(TPM_ST_Unmarshal, tag)
<1>1. TPM_ST.SESSIONS = 32770 /\ TPM_ST.NO_SESSIONS = 32769
  BY DEF TPM_ST
<1> DEFINE tags == {TPM_ST.RSP_COMMAND, TPM_ST.NULL, TPM_ST.NO_SESSIONS, TPM_ST.SESSIONS,
                    TPM_ST.ATTEST_NV, TPM_ST.ATTEST_COMMAND_AUDIT, TPM_ST.ATTEST_SESSION_AUDIT,
                    TPM_ST.ATTEST_CERTIFY, TPM_ST.ATTEST_QUOTE, TPM_ST.ATTEST_TIME, TPM_ST.ATTEST_CREATION,
                    TPM_ST.CREATION, TPM_ST.VERIFIED, TPM_ST.AUTH_SECRET, TPM_ST.HASHCHECK,
                    TPM_ST.AUTH_SIGNED}
<1>2. tag \in tags /\ tag \in Int
  BY <1>1
<1>3. TPM_ST_Unmarshal = Only(UINT16_Unmarshal, tags)
  BY DEF TPM_ST_Unmarshal
<1> HIDE DEF tags
<1>4. TPM_ST_Unmarshal = [kind |-> "int", n |-> 2, limits |-> <<{<<v, v>> : v \in tags}>>, reserved |-> {}]
  <2>1. ASSUME NEW e PROVE Append(<<>>, e) = <<e>>
    OBVIOUS
  <2>2. ASSUME NEW R
        PROVE  Within(Number(2), R) = [kind |-> "int", n |-> 2, limits |-> Append(<<>>, R), reserved |-> {}]
    <3>1. ASSUME NEW y
          PROVE  [Number(2) EXCEPT !.limits = y] = [kind |-> "int", n |-> 2, limits |-> y, reserved |-> {}]
      BY DEF Number
    <3>2. Within(Number(2), R) = [kind |-> "int", n |-> 2, limits |-> Append(Number(2).limits, R), reserved |-> {}]
      BY <3>1 DEF Within
    <3>3. Number(2).limits = <<>>
      BY DEF Number
    <3>4. QED
      BY ONLY <3>2, <3>3
  <2>3. TPM_ST_Unmarshal = Within(Number(2), {<<v, v>> : v \in tags})
    BY <1>3 DEF Only, UINT16_Unmarshal
  <2>4. QED
    BY <2>1, <2>2, <2>3
<1>5. \E range \in {<<v, v>> : v \in tags} : range[1] <= tag /\ tag <= range[2]
  <2>1. <<tag, tag>>[1] <= tag /\ tag <= <<tag, tag>>[2]
    BY <1>2
  <2>2. QED
    BY <1>2, <2>1
<1>6. Allowed(TPM_ST_Unmarshal, tag)
  BY <1>4, <1>5 DEF Allowed
<1>7. QED
  BY <1>1, <1>4, <1>6

\* The authorizations and the parameters as the TPM finds them.
LEMMA SentSections ==
  ASSUME NEW c, IsCall(c), ReadsBack(c), Decryptable(c),
         NEW stream, stream = SentStream(c), NEW offset, offset = HeaderSize + HandlesSize(c)
  PROVE  /\ TpmAuths(Skip(TpmAuthArea(stream, offset), 4)) = AuthCommands(c.sessions)
         /\ Skip(stream, offset + TpmAuthArea(stream, offset).size) = Sent(c)
<1> DEFINE h == InHandles(c)
           q == Sent(c)
           a == Authorizations(c)
           s == Chunk(4, a.size)
<1>1. /\ IsStream(h) /\ h.size = HandlesSize(c) /\ IsStream(q) /\ IsStream(a) /\ a.size \in Nat
      /\ IsStream(s) /\ s.size = 4 /\ HandlesSize(c) \in Nat /\ (a.size = 0 <=> c.sessions = <<>>)
  BY CommandFacts, SentFacts, ChunkStream
<1>2. TpmAuths(a) = AuthCommands(c.sessions)
  BY ReadsBackParts DEF AuthorizationsReadBack
<1>3. CASE c.sessions = <<>>
  <2>1. stream = Framed(TPM_ST.NO_SESSIONS, TPM_CC[c.command], h ++ q)
    BY <1>3 DEF SentStream, CommandStream
  <2>2. IsStream(h ++ q)
    BY <1>1, ConcatStream
  <2>3. Read(stream, 2).value = TPM_ST.NO_SESSIONS
    BY <2>1, <2>2, FramedReads DEF Value
  <2>4. TpmAuthArea(stream, offset) = Empty
    BY <2>3, Tags DEF TpmAuthArea
  <2>5. a = Empty /\ Skip(Empty, 4) = Empty
    BY <1>1, <1>3, NoBytes, EmptyStream DEF Skip
  <2>6. offset + Empty.size = HeaderSize + h.size
    BY <1>1, HeaderStream, EmptyStream
  <2>7. Skip(stream, offset + Empty.size) = q
    BY <1>1, <2>1, <2>6, FramedSkips
  <2>8. QED
    BY <1>2, <2>4, <2>5, <2>7
<1>4. CASE c.sessions # <<>>
  <2>1. stream = Framed(TPM_ST.SESSIONS, TPM_CC[c.command], h ++ (s ++ (a ++ q)))
    BY <1>4 DEF SentStream
  <2>2. /\ IsStream(a ++ q) /\ IsStream(s ++ (a ++ q)) /\ IsStream(h ++ (s ++ (a ++ q)))
        /\ IsStream(s ++ a) /\ (s ++ a).size = 4 + a.size /\ IsStream(h ++ (s ++ a))
        /\ (h ++ (s ++ a)).size = HandlesSize(c) + (4 + a.size)
    BY <1>1, ConcatStream
  <2>3. Read(stream, 2).value = TPM_ST.SESSIONS
    BY <2>1, <2>2, FramedReads DEF Value
  <2>4. Skip(stream, offset) = s ++ (a ++ q)
    BY <1>1, <2>1, <2>2, FramedSkips
  <2>5. Read(s ++ (a ++ q), 4).value = a.size
    BY <2>2, ReadChunk DEF Value
  <2>6. s ++ (a ++ q) = (s ++ a) ++ q /\ h ++ (s ++ (a ++ q)) = (h ++ (s ++ a)) ++ q
    BY <1>1, <2>2, ConcatAssociates
  <2>7. Prefix(s ++ (a ++ q), 4 + a.size) = s ++ a
    BY <1>1, <2>2, <2>6, PrefixFirst
  <2>8. TpmAuthArea(stream, offset) = s ++ a
    BY <2>3, <2>4, <2>5, <2>7 DEF TpmAuthArea
  <2>9. Skip(s ++ a, 4) = a
    BY <1>1, SkipFirst
  <2>10. offset + (s ++ a).size = HeaderSize + (h ++ (s ++ a)).size
    BY <1>1, <2>2, HeaderStream
  <2>11. Skip(stream, offset + (s ++ a).size) = q
    BY <1>1, <2>1, <2>2, <2>6, <2>10, FramedSkips
  <2>12. QED
    BY <1>2, <2>8, <2>9, <2>11
<1>5. QED
  BY <1>3, <1>4

\* The TPM decrypts the parameters the TSS encrypted.
LEMMA SentParameters ==
  ASSUME SessionsInOrder, NEW c, IsCall(c), ReadsBack(c), Decryptable(c)
  PROVE  TpmParameters(c, Sent(c), AuthCommands(c.sessions)) = InParameters(c)
<1>1. WithAttribute(AuthCommands(c.sessions), TPMA_SESSION_DECRYPT) = DecryptSessions(c)
  BY OrderedSessions
<1>2. CASE DecryptSessions(c) = {}
  BY <1>1, <1>2 DEF TpmParameters, Sent
<1>3. CASE DecryptSessions(c) # {}
  <2> DEFINE i == CHOOSE i \in DecryptSessions(c) : TRUE
  <2>1. TpmKey(c, AuthCommands(c.sessions), i, "command") = CommandKey(c)
    BY <1>3, SameKey DEF CommandKey
  <2>2. TpmParameters(c, Sent(c), AuthCommands(c.sessions)) = Enciphered(Sent(c), CommandKey(c))
    BY <1>1, <1>3, <2>1 DEF TpmParameters, Enciphered
  <2>3. Tpm2bFirst(InParameters(c)) /\ InTheClear(InParameters(c)) /\ CommandKey(c) \in CipherKeys /\ CommandKey(c) # Clear
    BY <1>3, CommandFacts, CommandKeyFacts DEF Decryptable
  <2>4. QED
    BY <1>3, <2>2, <2>3, EncipherTwice DEF Sent
<1>4. QED
  BY <1>2, <1>3

\* The handles as the TPM finds them.
LEMMA SentHandles ==
  ASSUME NEW c, IsCall(c), ReadsBack(c), Decryptable(c), NEW i \in DOMAIN TpmCommand(c.command).handles
  PROVE  Read(Skip(SentStream(c), HeaderSize + 4 * (i - 1)), 4).value = c.in[TpmCommand(c.command).handles[i]]
<1> DEFINE h == InHandles(c)
           q == Sent(c)
           a == Authorizations(c)
           s == Chunk(4, a.size)
           k == 4 * (i - 1)
           format == TpmCommand(c.command)
<1>1. /\ IsStream(h) /\ h.size = HandlesSize(c) /\ IsStream(q) /\ IsStream(a) /\ IsStream(s)
  BY CommandFacts, SentFacts, ChunkStream
<1>2. PICK tag, t : IsStream(t) /\ SentStream(c) = Framed(tag, TPM_CC[c.command], h ++ t)
  <2>1. IsStream(s ++ (a ++ q))
    BY <1>1, ConcatStream
  <2>2. CASE c.sessions = <<>>
    BY <1>1, <2>2 DEF SentStream, CommandStream
  <2>3. CASE c.sessions # <<>>
    BY <2>1, <2>3 DEF SentStream
  <2>4. QED
    BY <2>2, <2>3
<1>3. /\ format.handles \in Seq(STRING) /\ Len(format.handles) = getCommandHandleCount(c.command)
      /\ Read(Skip(h, k), 4).value = c.in[format.handles[i]]
  BY ReadsBackParts DEF CommandReadsBack
<1>4. k \in Nat /\ 4 <= h.size - k /\ k <= h.size /\ h.size \in Nat
  <2>1. i \in 1 .. Len(format.handles) /\ Len(format.handles) \in Nat
    BY <1>3, SequenceFacts
  <2>2. h.size = 4 * Len(format.handles)
    BY <1>1, <1>3 DEF HandlesSize
  <2>3. \A n \in Nat : i \in 1 .. n => k \in Nat /\ 4 <= 4 * n - k /\ k <= 4 * n /\ 4 * n \in Nat
    OBVIOUS
  <2>4. QED
    BY <2>1, <2>2, <2>3
<1> HIDE DEF k
<1>5. Skip(SentStream(c), HeaderSize + k) = Skip(h ++ t, k)
  <2> DEFINE header == Header(tag, HeaderSize + (h ++ t).size, TPM_CC[c.command])
  <2>1. IsStream(header) /\ header.size = HeaderSize /\ IsStream(h ++ t) /\ HeaderSize + k = header.size + k
    BY <1>1, <1>2, HeaderStream, ConcatStream
  <2>2. HeaderSize + k \in Nat
    BY <1>4 DEF HeaderSize
  <2>3. QED
    BY <1>2, <1>4, <2>1, <2>2, SkipBehind DEF Framed
<1>6. Skip(h ++ t, k) = Skip(h, k) ++ t
  BY <1>1, <1>2, <1>4, SkipBefore
<1>7. IsStream(Skip(h, k)) /\ Skip(h, k).size = h.size - k
  BY <1>1, <1>4, SkipStream
<1>8. Read(Skip(h, k) ++ t, 4).value = Read(Skip(h, k), 4).value
  BY <1>2, <1>4, <1>7, ReadBefore DEF Value
<1>9. Read(Skip(SentStream(c), HeaderSize + k), 4).value = c.in[format.handles[i]]
  BY <1>3, <1>5, <1>6, <1>8
<1>10. QED
  BY <1>9 DEF k

\* The command the TPM gets has the size it says and the code of the command.
LEMMA SentSize ==
  ASSUME NEW c, IsCall(c), ReadsBack(c), Decryptable(c)
  PROVE  /\ Read(Skip(SentStream(c), 2), 4).value = SentStream(c).size
         /\ Read(Skip(SentStream(c), 6), 4).value = TPM_CC[c.command]
<1> DEFINE h == InHandles(c)
           q == Sent(c)
           a == Authorizations(c)
           s == Chunk(4, a.size)
<1>1. IsStream(h) /\ IsStream(q) /\ IsStream(a) /\ IsStream(s)
  BY CommandFacts, SentFacts, ChunkStream
<1>2. IsStream(h ++ q) /\ IsStream(h ++ (s ++ (a ++ q)))
  BY <1>1, ConcatStream
<1>3. PICK tag, t : IsStream(t) /\ SentStream(c) = Framed(tag, TPM_CC[c.command], t)
  BY <1>2 DEF SentStream, CommandStream
<1>4. QED
  BY <1>3, FramedReads, FramedStream

\* What the sessions may be, as the TSS checks it and as the TPM does.
LEMMA LegalMeans ==
  ASSUME SessionsInOrder, NEW c, IsCall(c), ReadsBack(c)
  PROVE  /\ Legal(c) <=> /\ Cardinality(DecryptSessions(c)) <= 1 /\ Cardinality(EncryptSessions(c)) <= 1
                         /\ DecryptSessions(c) # {} => FirstIsTpm2b(TpmCommand(c.command).parameters.fields)
                         /\ EncryptSessions(c) # {} => FirstIsTpm2b(TpmResponse[c.command].parameters.fields)
                         /\ \A i \in DecryptSessions(c) \union EncryptSessions(c) : Implemented(c.sessions[i])
         /\ getDecryptSize(c.command) = 2 <=> FirstIsTpm2b(TpmCommand(c.command).parameters.fields)
         /\ getEncryptSize(c.command) # 0 <=> FirstIsTpm2b(TpmResponse[c.command].parameters.fields)
<1>1. Indices(c.sessions, IsDecrypt) = DecryptSessions(c) /\ Indices(c.sessions, IsEncrypt) = EncryptSessions(c)
  BY OrderedSessions
<1>2. /\ getDecryptSize(c.command) = 2 <=> FirstIsTpm2b(TpmCommand(c.command).parameters.fields)
      /\ getEncryptSize(c.command) # 0 <=> FirstIsTpm2b(TpmResponse[c.command].parameters.fields)
  BY ReadsBackParts DEF CommandReadsBack, ResponseReadsBack
<1>3. QED
  BY <1>1, <1>2 DEF Legal

\* The TPM takes the command as the application filled it in, if it may have its sessions.
LEMMA TpmReadsSent ==
  ASSUME SessionsInOrder, NEW c, IsCall(c), ReadsBack(c), Decryptable(c),
         NEW stream, stream = SentStream(c), hmacs = Sent(c)
  PROVE  LET t == TpmReads(c, stream)
         IN  /\ t.ok <=> Legal(c)
             /\ t.auths = AuthCommands(c.sessions)
             /\ Took(c, t)
             /\ t = [ok |-> t.ok, handles |-> t.handles, parameters |-> t.parameters, auths |-> t.auths]
<1> DEFINE format == TpmCommand(c.command)
           auths == AuthCommands(c.sessions)
           taken == Unmarshal(format.parameters, InParameters(c), 0)
           t == TpmReads(c, stream)
<1>1. /\ CommandReadsBack(c, format, InStream(c), InHandles(c), InParameters(c), taken)
  BY ReadsBackParts
<1>2. /\ Len(format.handles) = getCommandHandleCount(c.command)
      /\ taken.ok /\ taken.rest = Empty
      /\ \A name \in DOMAIN taken.value : taken.value[name] = c.in[name]
  BY <1>1 DEF CommandReadsBack
<1>3. HeaderSize + 4 * Len(format.handles) = HeaderSize + HandlesSize(c)
  BY <1>2 DEF HandlesSize
<1>4. t = TpmTakes(c, stream, auths, Sent(c), format, taken)
  <2>1. t = TpmSections(c, stream, HeaderSize + HandlesSize(c), TpmAuthArea(stream, HeaderSize + HandlesSize(c)),
                        format)
    BY <1>3 DEF TpmReads, TpmReadsFormat
  <2>2. t = TpmReadsParameters(c, stream, auths, Sent(c), format)
    BY <2>1, SentSections DEF TpmSections
  <2>3. QED
    BY <2>2, SentParameters DEF TpmReadsParameters
<1>5. /\ t.ok = TpmAccepts(c, stream, auths, Sent(c), format, taken)
      /\ t.handles = [i \in DOMAIN format.handles |-> Read(Skip(stream, HeaderSize + 4 * (i - 1)), 4).value]
      /\ t.parameters = taken.value /\ t.auths = auths
      /\ t = [ok |-> t.ok, handles |-> t.handles, parameters |-> t.parameters, auths |-> t.auths]
  BY <1>4 DEF TpmTakes
<1>6. Took(c, t)
  <2>1. \A i \in DOMAIN format.handles : t.handles[i] = c.in[format.handles[i]]
    BY <1>5, SentHandles
  <2>2. QED
    BY <1>2, <1>5, <2>1 DEF Took
<1>7. TpmAccepts(c, stream, auths, Sent(c), format, taken) <=> Legal(c)
  <2>1. /\ WithAttribute(auths, TPMA_SESSION_DECRYPT) = DecryptSessions(c)
        /\ WithAttribute(auths, TPMA_SESSION_ENCRYPT) = EncryptSessions(c)
    BY OrderedSessions
  <2>2. Len(auths) = Len(c.sessions)
    <3>1. Len(c.sessions) \in Nat /\ DOMAIN c.sessions = 1 .. Len(c.sessions)
      BY CallFacts, SequenceFacts
    <3>2. auths = [i \in 1 .. Len(c.sessions) |-> AuthCommand(i, c.sessions[i])]
      BY <3>1 DEF AuthCommands
    <3>3. QED
      BY <3>1, <3>2
  <2>3. /\ Read(Skip(stream, 2), 4).value = stream.size
        /\ Read(Skip(stream, 6), 4).value = TPM_CC[c.command]
    BY SentSize
  <2>4. \A i \in DecryptSessions(c) \union EncryptSessions(c) : TpmSession(c, auths, i) = c.sessions[i]
    BY SameSession
  <2>5. QED
    BY <1>2, <2>1, <2>2, <2>3, <2>4, LegalMeans DEF TpmAccepts
<1>8. QED
  BY <1>5, <1>6, <1>7

LEMMA TrailerStream == ASSUME NEW fault PROVE IsStream(Trailer(fault))
BY ChunkStream, EmptyStream DEF Trailer

\* The handles and the parameters of the response.
LEMMA OutFacts ==
  ASSUME SessionsInOrder, NEW c, IsCall(c), ReadsBack(c), Legal(c)
  PROVE  /\ IsStream(OutHandles(c)) /\ OutHandles(c).size = 4 * getresponseHandleCount(c.command)
         /\ OutHandles(c).size \in Nat
         /\ IsStream(OutParameters(c)) /\ InTheClear(OutParameters(c))
         /\ EncryptSessions(c) # {} => Tpm2bFirst(OutParameters(c))
         /\ IsStream(Answered(c)) /\ Answered(c).size = OutParameters(c).size
<1>1. /\ IsStream(OutHandles(c)) /\ OutHandles(c).size = 4 * getresponseHandleCount(c.command)
      /\ IsStream(OutParameters(c)) /\ InTheClear(OutParameters(c))
      /\ FirstIsTpm2b(TpmResponse[c.command].parameters.fields)
           => BeginsWithTpm2b(OutParameters(c), SizeAt(OutParameters(c), 0))
  BY ReadsBackParts DEF ResponseReadsBack
<1>2. EncryptSessions(c) # {} => Tpm2bFirst(OutParameters(c))
  BY <1>1, LegalMeans DEF Tpm2bFirst
<1>3. IsStream(Answered(c)) /\ Answered(c).size = OutParameters(c).size
  <2>1. CASE EncryptSessions(c) = {}
    BY <1>1, <2>1 DEF Answered
  <2>2. CASE EncryptSessions(c) # {}
    BY <1>2, <2>2, ResponseKeyFacts, EncipherKeeps DEF Answered, Tpm2bFirst
  <2>3. QED
    BY <2>1, <2>2
<1>4. QED
  BY <1>1, <1>2, <1>3 DEF IsStream

\* The parameters of the response, encrypted by the TPM with the session the TSS looks for.
LEMMA AnsweredParameters ==
  ASSUME SessionsInOrder, NEW c, IsCall(c)
  PROVE  TpmAnswersParameters(c, AuthCommands(c.sessions), OutParameters(c)) = Answered(c)
<1>1. WithAttribute(AuthCommands(c.sessions), TPMA_SESSION_ENCRYPT) = EncryptSessions(c)
  BY OrderedSessions
<1>2. CASE EncryptSessions(c) = {}
  BY <1>1, <1>2 DEF TpmAnswersParameters, Answered
<1>3. CASE EncryptSessions(c) # {}
  <2> DEFINE i == CHOOSE i \in EncryptSessions(c) : TRUE
  <2>1. TpmKey(c, AuthCommands(c.sessions), i, "response") = ResponseKey(c)
    BY <1>3, SameKey DEF ResponseKey
  <2>2. QED
    BY <1>1, <1>3, <2>1 DEF TpmAnswersParameters, Answered, Enciphered
<1>4. QED
  BY <1>2, <1>3

\* The authorizations of the response.
LEMMA AreaFacts ==
  ASSUME NEW c, ReadsBack(c), NEW fault \in c.faults
  PROVE  /\ IsStream(AnswerArea(c, fault))
         /\ c.sessions = <<>> => fault = "none" /\ AnswerArea(c, fault) = Empty
         /\ fault # "untagged" =>
              LET after == AfterAuths(AnswerArea(c, fault) ++ Trailer(fault), Len(c.sessions))
              IN  fault = "none" <=> after.ok /\ after.rest = Empty
BY ReadsBackParts DEF AnswerReadsBack

LEMMA NoAuths ==
  ASSUME NEW c, IsCall(c)
  PROVE  AuthCommands(c.sessions) = <<>> <=> c.sessions = <<>>
<1>1. Len(c.sessions) \in Nat /\ DOMAIN c.sessions = 1 .. Len(c.sessions) /\ c.sessions \in Seq(SessionRecord)
  BY CallFacts, SequenceFacts
<1>2. DOMAIN AuthCommands(c.sessions) = 1 .. Len(c.sessions)
  BY <1>1 DEF AuthCommands
<1>3. AuthCommands(c.sessions) = <<>> => Len(c.sessions) = 0
  <2>1. SUFFICES ASSUME AuthCommands(c.sessions) = <<>> PROVE Len(c.sessions) = 0
    OBVIOUS
  <2>2. DOMAIN AuthCommands(c.sessions) = {}
    BY <2>1
  <2>3. QED
    BY <1>1, <1>2, <2>2
<1>4. c.sessions = <<>> => AuthCommands(c.sessions) = <<>>
  <2>1. SUFFICES ASSUME c.sessions = <<>> PROVE AuthCommands(c.sessions) = <<>>
    OBVIOUS
  <2>2. AuthCommands(<<>>) = <<>>
    BY DEF AuthCommands
  <2>3. QED
    BY <2>1, <2>2
<1>5. QED
  BY <1>1, <1>3, <1>4

\* The response the TPM makes.
LEMMA ResponseMade ==
  ASSUME NEW c, IsCall(c), ReadsBack(c), IsStream(OutHandles(c)), NEW fault \in c.faults,
         NEW p, IsStream(p)
  PROVE  TpmResponds(c, fault, AuthCommands(c.sessions), p) = ResponseStream(c, fault, p)
<1> DEFINE o == OutHandles(c)
           s == Chunk(4, p.size)
           a == AnswerArea(c, fault)
           w == Trailer(fault)
           auths == AuthCommands(c.sessions)
<1>1. IsStream(o) /\ IsStream(s) /\ IsStream(a) /\ IsStream(w)
  BY ChunkStream, AreaFacts, TrailerStream
<1>2. auths # <<>> /\ fault # "untagged" <=> HasArea(c, fault)
  BY NoAuths DEF HasArea
<1>3. CASE HasArea(c, fault)
  <2> DEFINE header == Header(TPM_ST.SESSIONS, 0, 0)
  <2>1. TpmResponds(c, fault, auths, p) = SetSize(((header ++ o) ++ ((s ++ p) ++ a)) ++ w, TPM_ST.SESSIONS)
    BY <1>2, <1>3 DEF TpmResponds, AnswerArea
  <2>2. /\ IsStream(header) /\ IsStream(header ++ o) /\ IsStream(s ++ p) /\ IsStream((s ++ p) ++ a)
        /\ IsStream(a ++ w) /\ IsStream(p ++ (a ++ w)) /\ IsStream(((s ++ p) ++ a) ++ w)
        /\ IsStream(s ++ (p ++ (a ++ w))) /\ IsStream(o ++ (s ++ (p ++ (a ++ w))))
    BY <1>1, HeaderStream, ConcatStream
  <2>3. ((s ++ p) ++ a) ++ w = s ++ (p ++ (a ++ w))
    <3>1. ((s ++ p) ++ a) ++ w = (s ++ p) ++ (a ++ w)
      BY <1>1, <2>2, ConcatAssociates
    <3>2. (s ++ p) ++ (a ++ w) = s ++ (p ++ (a ++ w))
      BY <1>1, <2>2, ConcatAssociates
    <3>3. QED
      BY <3>1, <3>2
  <2>4. ((header ++ o) ++ ((s ++ p) ++ a)) ++ w = header ++ (o ++ (s ++ (p ++ (a ++ w))))
    <3>1. ((header ++ o) ++ ((s ++ p) ++ a)) ++ w = (header ++ o) ++ (((s ++ p) ++ a) ++ w)
      BY <1>1, <2>2, ConcatAssociates
    <3>2. (header ++ o) ++ (s ++ (p ++ (a ++ w))) = header ++ (o ++ (s ++ (p ++ (a ++ w))))
      BY <1>1, <2>2, ConcatAssociates
    <3>3. QED
      BY <2>3, <3>1, <3>2
  <2>5. QED
    BY <1>3, <2>1, <2>2, <2>4, SetSizeFrames DEF ResponseStream
<1>4. CASE ~HasArea(c, fault)
  <2> DEFINE header == Header(TPM_ST.NO_SESSIONS, 0, 0)
  <2>1. TpmResponds(c, fault, auths, p) = SetSize(((header ++ o) ++ p) ++ w, TPM_ST.NO_SESSIONS)
    BY <1>2, <1>4 DEF TpmResponds
  <2>2. IsStream(header) /\ IsStream(header ++ o) /\ IsStream(p ++ w) /\ IsStream(o ++ (p ++ w))
    BY <1>1, HeaderStream, ConcatStream
  <2>3. ((header ++ o) ++ p) ++ w = header ++ (o ++ (p ++ w))
    <3>1. ((header ++ o) ++ p) ++ w = (header ++ o) ++ (p ++ w)
      BY <1>1, <2>2, ConcatAssociates
    <3>2. (header ++ o) ++ (p ++ w) = header ++ (o ++ (p ++ w))
      BY <1>1, <2>2, ConcatAssociates
    <3>3. QED
      BY <3>1, <3>2
  <2>4. QED
    BY <1>4, <2>1, <2>2, <2>3, SetSizeFrames DEF ResponseStream
<1>5. QED
  BY <1>3, <1>4

\* What the TSS finds in a response.
LEMMA ResponseSections ==
  ASSUME SessionsInOrder, IsCall(call), ReadsBack(call), Legal(call), NEW fault \in call.faults,
         NEW p, IsStream(p), responseBuffer = ResponseStream(call, fault, p)
  PROVE  LET behind == AnswerArea(call, fault) ++ Trailer(fault)
         IN  /\ ResponseTag.ok
             /\ HasArea(call, fault) =>
                  /\ ResponseTag.value = TPM_ST.SESSIONS
                  /\ ParameterSize.ok /\ ParameterSize.value = p.size
                  /\ Skip(responseBuffer, RpOffset + 4) = p ++ behind
                  /\ Skip(responseBuffer, RpOffset + 4 + p.size) = behind
                  /\ Skip(responseBuffer, HeaderSize) = OutHandles(call) ++ (Chunk(4, p.size) ++ (p ++ behind))
             /\ ~HasArea(call, fault) =>
                  /\ ResponseTag.value = TPM_ST.NO_SESSIONS
                  /\ Skip(responseBuffer, HeaderSize) = OutHandles(call) ++ (p ++ Trailer(fault))
<1> DEFINE o == OutHandles(call)
           s == Chunk(4, p.size)
           a == AnswerArea(call, fault)
           w == Trailer(fault)
<1>1. /\ IsStream(o) /\ IsStream(s) /\ s.size = 4 /\ IsStream(a) /\ IsStream(w)
      /\ RpOffset = HeaderSize + o.size /\ o.size \in Nat /\ p.size \in Nat
  <2>1. IsStream(o) /\ o.size = 4 * getresponseHandleCount(call.command) /\ o.size \in Nat
    BY OutFacts
  <2>2. RpOffset = HeaderSize + o.size
    BY <2>1 DEF RpOffset
  <2>3. IsStream(s) /\ s.size = 4
    BY ChunkStream
  <2>4. IsStream(a) /\ IsStream(w)
    BY AreaFacts, TrailerStream
  <2>5. p.size \in Nat
    BY DEF IsStream
  <2>6. QED
    BY <2>1, <2>2, <2>3, <2>4, <2>5
<1>2. /\ IsStream(a ++ w) /\ IsStream(p ++ (a ++ w)) /\ IsStream(s ++ (p ++ (a ++ w)))
      /\ IsStream(o ++ (s ++ (p ++ (a ++ w)))) /\ IsStream(p ++ w) /\ IsStream(o ++ (p ++ w))
      /\ IsStream(o ++ s) /\ (o ++ s).size = o.size + 4 /\ IsStream((o ++ s) ++ p)
      /\ ((o ++ s) ++ p).size = o.size + 4 + p.size
  BY <1>1, ConcatStream
<1>3. ASSUME NEW tag \in {TPM_ST.SESSIONS, TPM_ST.NO_SESSIONS}, NEW t, IsStream(t),
             responseBuffer = Framed(tag, 0, t)
      PROVE  ResponseTag.ok /\ ResponseTag.value = tag /\ Skip(responseBuffer, HeaderSize) = t
  <2>1. Read(responseBuffer, 2) = Value(tag, Skip(responseBuffer, 2)) /\ Skip(responseBuffer, HeaderSize) = t
    BY <1>3, FramedReads
  <2>2. TPM_ST_Unmarshal.n = 2 /\ Allowed(TPM_ST_Unmarshal, tag)
    BY <1>3, Tags
  <2>3. ResponseTag = Value(tag, Skip(responseBuffer, 2))
    <3>1. Value(tag, Skip(responseBuffer, 2)).ok /\ Value(tag, Skip(responseBuffer, 2)).value = tag
      BY DEF Value
    <3>2. QED
      BY <2>1, <2>2, <3>1 DEF ResponseTag, ReadNumber
  <2>4. QED
    BY <2>1, <2>3 DEF Value
<1>4. CASE HasArea(call, fault)
  <2>1. responseBuffer = Framed(TPM_ST.SESSIONS, 0, o ++ (s ++ (p ++ (a ++ w))))
    BY <1>4 DEF ResponseStream
  <2>2. /\ ResponseTag.ok /\ ResponseTag.value = TPM_ST.SESSIONS
        /\ Skip(responseBuffer, HeaderSize) = o ++ (s ++ (p ++ (a ++ w)))
    BY <1>2, <1>3, <2>1
  <2>3. Skip(responseBuffer, RpOffset) = s ++ (p ++ (a ++ w))
    BY <1>1, <1>2, <2>1, FramedSkips
  <2>4. ParameterSize = Value(p.size, p ++ (a ++ w))
    BY <1>2, <2>3, ReadChunk DEF ParameterSize
  <2>5. Skip(responseBuffer, RpOffset + 4) = p ++ (a ++ w)
    <3>1. o ++ (s ++ (p ++ (a ++ w))) = (o ++ s) ++ (p ++ (a ++ w))
      BY <1>1, <1>2, ConcatAssociates
    <3>2. RpOffset + 4 = HeaderSize + (o ++ s).size
      BY <1>1, <1>2 DEF HeaderSize
    <3>3. QED
      BY <1>2, <2>1, <3>1, <3>2, FramedSkips
  <2>6. Skip(responseBuffer, RpOffset + 4 + p.size) = a ++ w
    <3>1. o ++ (s ++ (p ++ (a ++ w))) = ((o ++ s) ++ p) ++ (a ++ w)
      BY <1>1, <1>2, ConcatAssociates
    <3>2. RpOffset + 4 + p.size = HeaderSize + ((o ++ s) ++ p).size
      BY <1>1, <1>2 DEF HeaderSize
    <3>3. QED
      BY <1>2, <2>1, <3>1, <3>2, FramedSkips
  <2>7. QED
    BY <1>4, <2>2, <2>4, <2>5, <2>6 DEF Value
<1>5. CASE ~HasArea(call, fault)
  <2>1. responseBuffer = Framed(TPM_ST.NO_SESSIONS, 0, o ++ (p ++ w))
    BY <1>5 DEF ResponseStream
  <2>2. QED
    BY <1>2, <1>3, <1>5, <2>1
<1>6. QED
  BY <1>4, <1>5

LEMMA InitRInv == Init => RInv
BY DEF Init, RInv, TookInv, AnsweredInv, ApplicationReceivesTheResponse

\* The steps up to the TPM.
LEMMA NothingReceived ==
  ASSUME received' = <<>>, pc' \notin {"execute", "auths", "verify", "encrypt"},
         pc' = "done" /\ refusedBy' \in {"TSS_Command_Decrypt", "TSS_SetCmdAuths", "TPM"} => ~Legal(call')
  PROVE  RInv'
BY DEF RInv, TookInv, AnsweredInv, ApplicationReceivesTheResponse

LEMMA MarshalRStep == ASSUME IInv, NEW c, TSS_Marshal(c) PROVE RInv'
<1>1. /\ pc = "idle" /\ received' = received /\ pc' \in {"marshaled", "done"}
      /\ pc' = "done" => refusedBy' = "TSS_Marshal"
  BY DEF TSS_Marshal, Marshaled, Completed, Refuse
<1>2. received = <<>>
  BY <1>1 DEF IInv, ClearedInv
<1>3. QED
  BY <1>1, <1>2, NothingReceived

LEMMA DecryptRStep == ASSUME SessionsInOrder, IInv, TSS_Command_Decrypt PROVE RInv'
<1> DEFINE c == call
<1>1. pc = "marshaled" /\ call' = call /\ received' = received
  BY DEF TSS_Command_Decrypt
<1>2. IsCall(c) /\ ReadsBack(c) /\ received = <<>>
  BY <1>1 DEF IInv, TypeInv, RunningInv, Running, Steps
<1> DEFINE i == CHOOSE i \in DecryptSessions(c) : TRUE
           refused == \/ Cardinality(DecryptSessions(c)) > 1
                      \/ DecryptSessions(c) # {} /\ getDecryptSize(c.command) # 2
                      \/ /\ DecryptSessions(c) # {} /\ SizeAt(commandBuffer, cpBuffer) # 0
                         /\ ~Implemented(c.sessions[i])
<1>3. CASE refused
  <2>1. pc' = "done"
    BY <1>3 DEF TSS_Command_Decrypt, Refuse, DecryptSessions
  <2>2. Cardinality(DecryptSessions(c)) \in Nat
    BY <1>2, SessionsAreFinite DEF DecryptSessions, GetDecryptSession, BeforePassword
  <2>3. ~Legal(c)
    <3>1. CASE Cardinality(DecryptSessions(c)) > 1
      <4>1. ~(Cardinality(DecryptSessions(c)) <= 1)
        BY <2>2, <3>1
      <4>2. QED
        BY <1>2, <4>1, LegalMeans
    <3>2. CASE DecryptSessions(c) # {} /\ getDecryptSize(c.command) # 2
      BY <1>2, <3>2, LegalMeans
    <3>3. CASE DecryptSessions(c) # {} /\ ~Implemented(c.sessions[i])
      <4>1. i \in DecryptSessions(c)
        BY <3>3
      <4>2. QED
        BY <1>2, <3>3, <4>1, LegalMeans
    <3>4. QED
      BY <1>3, <3>1, <3>2, <3>3
  <2>4. QED
    BY <1>1, <1>2, <2>1, <2>3, NothingReceived
<1>4. CASE ~refused
  <2>1. pc' = "decrypt"
    BY <1>4 DEF TSS_Command_Decrypt, Completed, DecryptSessions
  <2>2. QED
    BY <1>1, <1>2, <2>1, NothingReceived
<1>5. QED
  BY <1>3, <1>4

LEMMA HmacRStep == ASSUME IInv, TSS_HmacSession_SetHMAC PROVE RInv'
<1>1. pc = "decrypt" /\ pc' = "hmac" /\ received' = received
  BY DEF TSS_HmacSession_SetHMAC, Completed
<1>2. received = <<>>
  BY <1>1 DEF IInv, RunningInv
<1>3. QED
  BY <1>1, <1>2, NothingReceived

\* There is always room for the authorizations.
LEMMA SetCmdAuthsRStep == ASSUME IInv, TSS_SetCmdAuths PROVE RInv'
<1> DEFINE c == call
           a == Authorizations(c)
           inserted == Prefix(commandBuffer, cpBuffer) ++ Chunk(4, a.size) ++ a ++ Skip(commandBuffer, cpBuffer)
<1>1. pc = "hmac" /\ received' = received
  BY DEF TSS_SetCmdAuths
<1>2. /\ IsCall(c) /\ ReadsBack(c) /\ received = <<>> /\ cpBuffer = HeaderSize + HandlesSize(c) /\ Decryptable(c)
      /\ commandBuffer = CommandStream(c, Sent(c))
  BY <1>1 DEF IInv, TypeInv, RunningInv, UnauthorizedInv, Running, Steps
<1>3. /\ a.size = 0 <=> c.sessions = <<>>
      /\ a.size \in Nat /\ InStream(c).size \in Nat
      /\ HeaderSize + InStream(c).size + 4 + a.size <= MAX_COMMAND_SIZE
  BY <1>2, CommandFacts
<1>4. CASE c.sessions = <<>>
  <2>1. pc' = "send"
    BY <1>3, <1>4 DEF TSS_SetCmdAuths, Completed, Authorizations
  <2>2. QED
    BY <1>1, <1>2, <2>1, NothingReceived
<1>5. CASE c.sessions # <<>>
  <2>1. inserted.size = HeaderSize + InStream(c).size + 4 + a.size
    BY <1>2, <1>5, AuthorizedStream
  <2>2. \A n, m \in Nat : HeaderSize + n + 4 + m <= MAX_COMMAND_SIZE
          => ~(HeaderSize + n + 4 + m > MAX_COMMAND_SIZE)
    BY DEF HeaderSize, MAX_COMMAND_SIZE
  <2>3. ~(inserted.size > MAX_COMMAND_SIZE)
    BY <1>3, <2>1, <2>2
  <2>4. pc' = "send"
    BY <1>3, <1>5, <2>3 DEF TSS_SetCmdAuths, Completed, Authorizations
  <2>5. QED
    BY <1>1, <1>2, <2>4, NothingReceived
<1>6. QED
  BY <1>4, <1>5

\* A record but for one field is as it was.
LEMMA OkReplaced ==
  ASSUME NEW t, NEW b,
         t = [ok |-> t.ok, handles |-> t.handles, parameters |-> t.parameters, auths |-> t.auths]
  PROVE  LET r == [t EXCEPT !.ok = b]
         IN  r.ok = b /\ r.handles = t.handles /\ r.parameters = t.parameters
<1>1. ASSUME NEW o, NEW h, NEW p, NEW a, NEW u, u = [ok |-> o, handles |-> h, parameters |-> p, auths |-> a]
      PROVE  [u EXCEPT !.ok = b] = [ok |-> b, handles |-> h, parameters |-> p, auths |-> a]
  BY <1>1
<1>2. [t EXCEPT !.ok = b] = [ok |-> b, handles |-> t.handles, parameters |-> t.parameters, auths |-> t.auths]
  BY <1>1
<1>3. QED
  BY <1>2

LEMMA ExecuteRStep == ASSUME SessionsInOrder, IInv, NEW fault \in call.faults, TpmExecutes(fault) PROVE RInv'
<1> DEFINE c == call
           t == TpmReads(c, commandBuffer)
<1>1. pc = "send" /\ call' = call /\ authCount' = authCount
  BY DEF TpmExecutes
<1>2. /\ IsCall(c) /\ ReadsBack(c) /\ received = <<>> /\ Decryptable(c)
      /\ commandBuffer = SentStream(c) /\ hmacs = Sent(c) /\ authCount = Len(c.sessions)
  BY <1>1 DEF IInv, TypeInv, RunningInv, UnauthorizedInv, SendInv, Running, Steps
<1>3. /\ t.ok <=> Legal(c)
      /\ t.auths = AuthCommands(c.sessions)
      /\ Took(c, t)
      /\ t = [ok |-> t.ok, handles |-> t.handles, parameters |-> t.parameters, auths |-> t.auths]
  BY <1>2, TpmReadsSent
<1> HIDE DEF t
<1>4. CASE ~Legal(c)
  <2>1. pc' = "done" /\ received' = received
    BY <1>3, <1>4 DEF TpmExecutes, Refuse, t
  <2>2. QED
    BY <1>1, <1>2, <1>4, <2>1, NothingReceived
<1>5. CASE Legal(c)
  <2> DEFINE b == fault = "none"
             r == [t EXCEPT !.ok = b]
  <2>1. TpmAnswers(fault, t, TpmAnswersParameters(c, t.auths, OutParameters(c)))
    BY <1>3, <1>5 DEF TpmExecutes, t
  <2>2. /\ pc' = "execute" /\ received' = <<r>> /\ hmacs' = Answered(c)
        /\ responseBuffer' = TpmResponds(c, fault, AuthCommands(c.sessions), Answered(c))
    <3>1. TpmAnswersParameters(c, t.auths, OutParameters(c)) = Answered(c)
      BY <1>2, <1>3, AnsweredParameters
    <3>2. QED
      BY <1>3, <2>1, <3>1 DEF TpmAnswers, Completed
  <2>3. responseBuffer' = ResponseStream(c, fault, Answered(c))
    BY <1>2, <1>5, <2>2, OutFacts, ResponseMade
  <2> HIDE DEF b
  <2>4. r.ok = b /\ Took(c, r)
    <3>1. r.ok = b /\ r.handles = t.handles /\ r.parameters = t.parameters
      BY <1>3, OkReplaced
    <3>2. QED
      BY <1>3, <3>1 DEF Took
  <2> HIDE DEF r
  <2>5. received' # <<>> /\ received'[1] = r
    BY <2>2
  <2>6. TookInv'
    BY <1>1, <2>2, <2>4, <2>5 DEF TookInv
  <2>7. AnsweredInv'
    <3>1. \E f \in c.faults : received'[1].ok = (f = "none") /\ responseBuffer' = ResponseStream(c, f, Answered(c))
      BY <2>3, <2>4, <2>5 DEF b
    <3>2. QED
      BY <1>1, <1>2, <1>5, <2>2, <2>5, <3>1 DEF AnsweredInv
  <2>8. QED
    BY <2>2, <2>6, <2>7 DEF RInv, ApplicationReceivesTheResponse
<1>6. QED
  BY <1>4, <1>5

LEMMA GetRspAuthsRStep == ASSUME SessionsInOrder, IInv, RInv, TSS_GetRspAuths PROVE RInv'
<1> DEFINE c == call
<1>1. /\ pc = "execute" /\ call' = call /\ received' = received /\ hmacs' = hmacs
      /\ responseBuffer' = responseBuffer
  BY DEF TSS_GetRspAuths, commandVars
<1>2. IsCall(c) /\ ReadsBack(c)
  BY <1>1 DEF IInv, TypeInv, RunningInv, Running, Steps
<1>3. /\ received # <<>> /\ Legal(c) /\ hmacs = Answered(c) /\ authCount = Len(c.sessions) /\ Took(c, received[1])
  BY <1>1 DEF RInv, AnsweredInv, TookInv
<1>4. PICK fault \in c.faults :
        received[1].ok = (fault = "none") /\ responseBuffer = ResponseStream(c, fault, Answered(c))
  BY <1>1 DEF RInv, AnsweredInv
<1>5. IsStream(Answered(c)) /\ Answered(c).size \in Nat
  BY <1>2, <1>3, OutFacts DEF IsStream
<1> DEFINE after == AfterAuths(Skip(responseBuffer, RpOffset + 4 + ParameterSize.value), Len(c.sessions))
           accepted == /\ ResponseTag.ok
                       /\ ResponseTag.value = TPM_ST.SESSIONS => ParameterSize.ok /\ after.ok /\ after.rest = Empty
                       /\ authCount = IF ResponseTag.value = TPM_ST.SESSIONS THEN Len(c.sessions) ELSE 0
<1>6. accepted <=> fault = "none"
  <2>1. CASE HasArea(c, fault)
    <3>1. /\ ResponseTag.ok /\ ResponseTag.value = TPM_ST.SESSIONS /\ ParameterSize.ok
          /\ after = AfterAuths(AnswerArea(c, fault) ++ Trailer(fault), Len(c.sessions))
      BY <1>2, <1>3, <1>4, <1>5, <2>1, ResponseSections
    <3>2. fault = "none" <=> after.ok /\ after.rest = Empty
      BY <1>2, <2>1, <3>1, AreaFacts DEF HasArea
    <3>3. QED
      BY <1>3, <3>1, <3>2
  <2>2. CASE ~HasArea(c, fault)
    <3>1. ResponseTag.ok /\ ResponseTag.value = TPM_ST.NO_SESSIONS /\ TPM_ST.NO_SESSIONS # TPM_ST.SESSIONS
      BY <1>2, <1>3, <1>4, <1>5, <2>2, ResponseSections, Tags
    <3>2. accepted <=> Len(c.sessions) = 0
      BY <1>3, <3>1
    <3>3. Len(c.sessions) = 0 <=> c.sessions = <<>>
      BY <1>2, CallFacts
    <3>4. c.sessions = <<>> <=> fault = "none"
      BY <1>2, <2>2, AreaFacts DEF HasArea
    <3>5. QED
      BY <3>2, <3>3, <3>4
  <2>3. QED
    BY <2>1, <2>2
<1>7. IF accepted THEN Completed("auths") ELSE Refuse("TSS_GetRspAuths")
  BY DEF TSS_GetRspAuths
<1>8. CASE fault = "none"
  <2>1. pc' = "auths"
    BY <1>6, <1>7, <1>8 DEF Completed
  <2>2. TookInv' /\ ApplicationReceivesTheResponse'
    BY <1>1, <1>3, <2>1 DEF TookInv, ApplicationReceivesTheResponse
  <2>3. AnsweredInv'
    BY <1>1, <1>3, <1>4, <1>8, <2>1 DEF AnsweredInv
  <2>4. QED
    BY <2>2, <2>3 DEF RInv
<1>9. CASE fault # "none"
  <2>1. pc' = "done" /\ refusedBy' = "TSS_GetRspAuths"
    BY <1>6, <1>7, <1>9 DEF Refuse
  <2>2. received[1].ok = FALSE
    BY <1>4, <1>9
  <2>3. TookInv' /\ AnsweredInv'
    BY <1>1, <1>3, <2>1 DEF TookInv, AnsweredInv
  <2>4. ApplicationReceivesTheResponse'
    BY <1>1, <2>1, <2>2 DEF ApplicationReceivesTheResponse
  <2>5. QED
    BY <2>3, <2>4 DEF RInv
<1>10. QED
  BY <1>8, <1>9

LEMMA VerifyRStep == ASSUME SessionsInOrder, IInv, RInv, TSS_HmacSession_Verify PROVE RInv'
<1> DEFINE c == call
           behind == AnswerArea(c, "none") ++ Trailer("none")
<1>1. /\ pc = "auths" /\ call' = call /\ received' = received /\ responseBuffer' = responseBuffer
  BY DEF TSS_HmacSession_Verify
<1>2. IsCall(c) /\ ReadsBack(c)
  BY <1>1 DEF IInv, TypeInv, RunningInv, Running, Steps
<1>3. /\ received # <<>> /\ Legal(c) /\ hmacs = Answered(c) /\ Took(c, received[1])
      /\ "none" \in c.faults /\ received[1].ok = TRUE
      /\ responseBuffer = ResponseStream(c, "none", Answered(c))
  BY <1>1 DEF RInv, AnsweredInv, TookInv
<1>4. IsStream(Answered(c)) /\ IsStream(behind)
  <2>1. IsStream(Answered(c))
    BY <1>2, <1>3, OutFacts
  <2>2. IsStream(AnswerArea(c, "none")) /\ IsStream(Trailer("none"))
    BY <1>2, <1>3, AreaFacts, TrailerStream
  <2>3. QED
    BY <2>1, <2>2, ConcatStream
<1>5. ASSUME NEW i \in DOMAIN c.sessions
      PROVE  hmacs = Prefix(Skip(responseBuffer, RpOffset + 4), ParameterSize.value)
  <2>1. c.sessions # <<>>
    OBVIOUS
  <2>2. HasArea(c, "none")
    BY <2>1 DEF HasArea
  <2>3. Skip(responseBuffer, RpOffset + 4) = Answered(c) ++ behind /\ ParameterSize.value = Answered(c).size
    BY <1>2, <1>3, <1>4, <2>2, ResponseSections
  <2>4. Answered(c).size \in Nat
    BY <1>4 DEF IsStream
  <2>5. QED
    BY <1>3, <1>4, <2>3, <2>4, PrefixFirst
<1>6. pc' = "verify"
  BY <1>5 DEF TSS_HmacSession_Verify, Completed
<1>7. TookInv' /\ ApplicationReceivesTheResponse'
  BY <1>1, <1>3, <1>6 DEF TookInv, ApplicationReceivesTheResponse
<1>8. AnsweredInv'
  BY <1>1, <1>3, <1>6 DEF AnsweredInv
<1>9. QED
  BY <1>7, <1>8 DEF RInv

\* The TSS decrypts the parameters the TPM encrypted.
LEMMA AnsweredDecrypted ==
  ASSUME SessionsInOrder, NEW c, c = call, IsCall(c), ReadsBack(c), Legal(c), "none" \in c.faults,
         EncryptSessions(c) # {}, responseBuffer = ResponseStream(c, "none", Answered(c)),
         NEW offset, offset = RpOffset + 4
  PROVE  /\ SizeAt(responseBuffer, offset) = 0 => responseBuffer = ResponseStream(c, "none", OutParameters(c))
         /\ Encipher(responseBuffer, offset + 2, SizeAt(responseBuffer, offset), ResponseKey(c))
              = ResponseStream(c, "none", OutParameters(c))
<1> DEFINE p == OutParameters(c)
           q == Answered(c)
           o == OutHandles(c)
           s == Chunk(4, p.size)
           w == AnswerArea(c, "none") ++ Trailer("none")
<1>1. /\ IsStream(o) /\ IsStream(p) /\ IsStream(q) /\ q.size = p.size /\ Tpm2bFirst(p) /\ InTheClear(p)
      /\ o.size = 4 * getresponseHandleCount(c.command) /\ o.size \in Nat
  BY OutFacts
<1>2. IsStream(s) /\ s.size = 4 /\ IsStream(w)
  <2>1. IsStream(AnswerArea(c, "none")) /\ IsStream(Trailer("none"))
    BY AreaFacts, TrailerStream
  <2>2. QED
    BY <2>1, ChunkStream, ConcatStream
<1>3. ResponseKey(c) \in CipherKeys /\ ResponseKey(c) # Clear
  BY ResponseKeyFacts
<1>4. q = Enciphered(p, ResponseKey(c)) /\ Tpm2bFirst(q) /\ Enciphered(q, ResponseKey(c)) = p
  BY <1>1, <1>3, EncipherKeeps, EncipherTwice DEF Answered
<1>5. HasArea(c, "none")
  <2>1. c.sessions # <<>>
    BY OrderedSessions
  <2>2. QED
    BY <2>1 DEF HasArea
<1>6. /\ IsStream(q ++ w) /\ IsStream(p ++ w) /\ IsStream(s ++ (q ++ w)) /\ IsStream(s ++ (p ++ w))
      /\ IsStream(o ++ s) /\ (o ++ s).size = o.size + 4
      /\ o ++ (s ++ (q ++ w)) = (o ++ s) ++ (q ++ w) /\ o ++ (s ++ (p ++ w)) = (o ++ s) ++ (p ++ w)
  <2>1. /\ IsStream(q ++ w) /\ IsStream(p ++ w) /\ IsStream(s ++ (q ++ w)) /\ IsStream(s ++ (p ++ w))
        /\ IsStream(o ++ s) /\ (o ++ s).size = o.size + 4
    BY <1>1, <1>2, ConcatStream
  <2>2. QED
    BY <1>1, <1>2, <2>1, ConcatAssociates
<1>7. /\ responseBuffer = Framed(TPM_ST.SESSIONS, 0, (o ++ s) ++ (q ++ w))
      /\ ResponseStream(c, "none", p) = Framed(TPM_ST.SESSIONS, 0, (o ++ s) ++ (p ++ w))
  BY <1>1, <1>5, <1>6 DEF ResponseStream
<1>8. offset = HeaderSize + (o ++ s).size
  <2>1. RpOffset = HeaderSize + o.size
    BY <1>1 DEF RpOffset
  <2>2. QED
    BY <1>1, <1>6, <2>1 DEF HeaderSize
<1>9. /\ Encipher(responseBuffer, offset + 2, SizeAt(q, 0), ResponseKey(c)) = ResponseStream(c, "none", p)
      /\ SizeAt(responseBuffer, offset) = SizeAt(q, 0)
  BY <1>2, <1>3, <1>4, <1>6, <1>7, <1>8, EncipherFramed
<1>10. SizeAt(q, 0) = 0 => q = p
  BY <1>3, <1>4, EncipherNothing
<1>11. QED
  BY <1>9, <1>10

LEMMA EncryptRStep == ASSUME SessionsInOrder, IInv, RInv, TSS_Response_Encrypt PROVE RInv'
<1> DEFINE c == call
<1>1. /\ pc = "verify" /\ call' = call /\ received' = received
  BY DEF TSS_Response_Encrypt
<1>2. IsCall(c) /\ ReadsBack(c)
  BY <1>1 DEF IInv, TypeInv, RunningInv, Running, Steps
<1>3. /\ received # <<>> /\ Legal(c) /\ Took(c, received[1])
      /\ "none" \in c.faults /\ received[1].ok = TRUE
      /\ responseBuffer = ResponseStream(c, "none", Answered(c))
  BY <1>1 DEF RInv, AnsweredInv, TookInv
<1> DEFINE rpBuffer == RpOffset + IF ResponseTag.value = TPM_ST.NO_SESSIONS THEN 0 ELSE 4
<1>4. ~(\/ Cardinality(EncryptSessions(c)) > 1
        \/ EncryptSessions(c) # {} /\ getEncryptSize(c.command) = 0
        \/ /\ EncryptSessions(c) # {} /\ SizeAt(responseBuffer, rpBuffer) # 0
           /\ ~Implemented(c.sessions[CHOOSE i \in EncryptSessions(c) : TRUE]))
  <2>1. Cardinality(EncryptSessions(c)) \in Nat
    BY <1>2, SessionsAreFinite DEF EncryptSessions, GetEncryptSession, BeforePassword
  <2>2. /\ Cardinality(EncryptSessions(c)) <= 1 /\ (EncryptSessions(c) # {} => getEncryptSize(c.command) # 0)
        /\ \A i \in EncryptSessions(c) : Implemented(c.sessions[i])
    BY <1>2, <1>3, LegalMeans
  <2>3. QED
    BY <2>1, <2>2
<1>5. /\ pc' = "encrypt"
      /\ responseBuffer' =
           IF EncryptSessions(c) = {} \/ SizeAt(responseBuffer, rpBuffer) = 0 THEN responseBuffer
           ELSE Encipher(responseBuffer, rpBuffer + 2, SizeAt(responseBuffer, rpBuffer), ResponseKey(c))
  BY <1>4 DEF TSS_Response_Encrypt, Completed, EncryptSessions, ResponseKey
<1>6. responseBuffer' = ResponseStream(c, "none", OutParameters(c))
  <2>1. CASE EncryptSessions(c) = {}
    BY <1>3, <1>5, <2>1 DEF Answered
  <2>2. CASE EncryptSessions(c) # {}
    <3>1. c.sessions # <<>>
      BY <1>2, <2>2, OrderedSessions
    <3>2. HasArea(c, "none")
      BY <3>1 DEF HasArea
    <3>3. IsStream(Answered(c))
      BY <1>2, <1>3, OutFacts
    <3>4. ResponseTag.value = TPM_ST.SESSIONS /\ TPM_ST.SESSIONS # TPM_ST.NO_SESSIONS
      BY <1>2, <1>3, <3>2, <3>3, ResponseSections, Tags
    <3>5. rpBuffer = RpOffset + 4
      BY <3>4
    <3>6. QED
      BY <1>2, <1>3, <1>5, <2>2, <3>5, AnsweredDecrypted
  <2>3. QED
    BY <2>1, <2>2
<1>7. TookInv' /\ ApplicationReceivesTheResponse'
  BY <1>1, <1>3, <1>5 DEF TookInv, ApplicationReceivesTheResponse
<1>8. AnsweredInv'
  BY <1>1, <1>3, <1>5, <1>6 DEF AnsweredInv
<1>9. QED
  BY <1>7, <1>8 DEF RInv

\* A sequence without elements.
LEMMA NoElements == ASSUME NEW S, NEW q \in Seq(S), Len(q) = 0 PROVE q = <<>>
  OBVIOUS

\* What is behind the handle of a response does not matter for reading it.
LEMMA HandleBehind ==
  ASSUME NEW names \in Seq(STRING), Len(names) \in {0, 1}, NEW o, IsStream(o), o.size = 4 * Len(names),
         NEW t, IsStream(t)
  PROVE  /\ Handle(names, o ++ t).ok <=> Handle(names, o).ok
         /\ Handle(names, o).ok => Handle(names, o ++ t) = Value(Handle(names, o).value, t)
<1>1. CASE names = <<>>
  <2>1. o.size = 0
    BY <1>1
  <2>2. o = Empty /\ o ++ t = t
    BY <2>1, NoBytes, ConcatEmpty
  <2>3. Handle(names, o) = Value([name \in {} |-> 0], o) /\ Handle(names, o ++ t) = Value([name \in {} |-> 0], t)
    BY <1>1, <2>2 DEF Handle
  <2>4. QED
    BY <2>3 DEF Value
<1>2. CASE names # <<>>
  <2>1. o.size = 4
    <3>1. Len(names) # 0
      BY <1>2, NoElements
    <3>2. Len(names) = 1
      BY <3>1
    <3>3. QED
      BY <3>2
  <2>2. TPM_HANDLE_Unmarshal.n = 4
    BY DEF TPM_HANDLE_Unmarshal, UINT32_Unmarshal, Number
  <2>3. Read(o, 4).ok /\ Read(o ++ t, 4) = Value(Read(o, 4).value, Skip(o, 4) ++ t)
    BY <2>1, ReadBefore
  <2>4. Skip(o, 4) ++ t = t
    <3>1. Skip(o, 4) = Empty
      BY <2>1 DEF Skip
    <3>2. QED
      BY <3>1, ConcatEmpty
  <2>5. /\ Value(Read(o, 4).value, t).ok /\ Value(Read(o, 4).value, t).value = Read(o, 4).value
        /\ Value(Read(o, 4).value, t).rest = t /\ NoValue.ok = FALSE
    BY DEF Value, NoValue
  <2>6. CASE Allowed(TPM_HANDLE_Unmarshal, Read(o, 4).value)
    <3>1. /\ ReadNumber(TPM_HANDLE_Unmarshal, o) = Read(o, 4)
          /\ ReadNumber(TPM_HANDLE_Unmarshal, o ++ t) = Value(Read(o, 4).value, t)
      BY <2>2, <2>3, <2>4, <2>5, <2>6 DEF ReadNumber
    <3> DEFINE v == [name \in {names[1]} |-> Read(o, 4).value]
    <3>2. /\ Handle(names, o) = Value(v, Read(o, 4).rest)
          /\ Handle(names, o ++ t) = Value(v, t)
      BY <1>2, <2>3, <2>5, <3>1 DEF Handle
    <3> HIDE DEF v
    <3>3. QED
      BY <3>2 DEF Value
  <2>7. CASE ~Allowed(TPM_HANDLE_Unmarshal, Read(o, 4).value)
    <3>1. ReadNumber(TPM_HANDLE_Unmarshal, o) = NoValue /\ ReadNumber(TPM_HANDLE_Unmarshal, o ++ t) = NoValue
      BY <2>2, <2>3, <2>4, <2>5, <2>7 DEF ReadNumber
    <3>2. Handle(names, o) = NoValue /\ Handle(names, o ++ t) = NoValue
      BY <1>2, <2>5, <3>1 DEF Handle
    <3>3. QED
      BY <2>5, <3>2
  <2>8. QED
    BY <2>6, <2>7
<1>3. QED
  BY <1>1, <1>2

\* The response the TSS unmarshals is the one the TPM made.
LEMMA ResponseUnmarshaled ==
  ASSUME SessionsInOrder, NEW c, c = call, IsCall(c), ReadsBack(c), Legal(c), "none" \in c.faults,
         responseBuffer = ResponseStream(c, "none", OutParameters(c)),
         NEW format, format = Entry(c).unmarshalOut, format # NULL, c.hasOut
  PROVE  LET handle == Handle(format.handles, OutHandles(c))
             taken == Unmarshal(format.parameters, OutParameters(c) ++ AnswerArea(c, "none"), 0)
             out == ResponseParsed(format)
         IN  /\ out.ok <=> handle.ok /\ taken.ok
             /\ out.ok => out.value = Joined(handle.value, taken.value)
<1> DEFINE o == OutHandles(c)
           p == OutParameters(c)
           s == Chunk(4, p.size)
           a == AnswerArea(c, "none")
           w == Trailer("none")
           handle == Handle(format.handles, o)
           taken == Unmarshal(format.parameters, p ++ a, 0)
           t == IF HasArea(c, "none") THEN s ++ (p ++ (a ++ w)) ELSE p ++ w
           h == Handle(format.handles, o ++ t)
           size == IF ResponseTag.value = TPM_ST.SESSIONS THEN Read(h.rest, 4) ELSE Value(0, h.rest)
<1>1. /\ IsStream(o) /\ IsStream(p) /\ o.size = 4 * getresponseHandleCount(c.command)
  BY OutFacts
<1>2. /\ IsStream(s) /\ s.size = 4 /\ IsStream(a) /\ w = Empty /\ IsStream(w)
      /\ c.sessions = <<>> => a = Empty
  <2>1. p.size \in Nat
    BY <1>1 DEF IsStream
  <2>2. IsStream(s) /\ s.size = 4
    BY ChunkStream
  <2>3. IsStream(a) /\ (c.sessions = <<>> => a = Empty)
    BY AreaFacts
  <2>4. w = Empty /\ IsStream(w)
    <3>1. w = Empty
      BY DEF Trailer
    <3>2. IsStream(w)
      BY TrailerStream
    <3>3. QED
      BY <3>1, <3>2
  <2>5. QED
    BY <2>2, <2>3, <2>4
<1>3. /\ format.handles \in Seq(STRING) /\ Len(format.handles) = getresponseHandleCount(c.command)
      /\ getresponseHandleCount(c.command) \in {0, 1}
  BY ReadsBackParts DEF ResponseReadsBack
<1>4. IsStream(t)
  BY <1>1, <1>2, ConcatStream
<1>5. Skip(responseBuffer, HeaderSize) = o ++ t
  <2>2. CASE HasArea(c, "none")
    <3>1. Skip(responseBuffer, HeaderSize) = o ++ (s ++ (p ++ (a ++ w)))
      BY <1>1, <2>2, ResponseSections
    <3>2. QED
      BY <2>2, <3>1
  <2>3. CASE ~HasArea(c, "none")
    <3>1. Skip(responseBuffer, HeaderSize) = o ++ (p ++ w)
      BY <1>1, <2>3, ResponseSections
    <3>2. QED
      BY <2>3, <3>1
  <2>4. QED
    BY <2>2, <2>3
<1>6. /\ h.ok <=> handle.ok
      /\ handle.ok => h = Value(handle.value, t)
  <2>1. /\ Len(format.handles) \in {0, 1} /\ o.size = 4 * Len(format.handles)
        /\ format.handles \in Seq(STRING) /\ IsStream(o)
    BY <1>1, <1>3
  <2>2. \A names \in Seq(STRING) : Len(names) \in {0, 1} /\ o.size = 4 * Len(names) =>
          /\ Handle(names, o ++ t).ok <=> Handle(names, o).ok
          /\ Handle(names, o).ok => Handle(names, o ++ t) = Value(Handle(names, o).value, t)
    BY <1>1, <1>4, HandleBehind
  <2> HIDE DEF o, t
  <2>3. QED
    BY <2>1, <2>2
<1>7. handle.ok => h = Value(handle.value, t)
  BY <1>6
<1> HIDE DEF handle, h, t
<1>8. ResponseParsed(format) = WithParameters(h, size, Unmarshal(format.parameters, size.rest, 0))
  BY <1>5 DEF ResponseParsed, AfterHandle, AfterSize, h
<1>9. CASE ~handle.ok
  <2>1. ResponseParsed(format) = NoValue
    BY <1>6, <1>8, <1>9 DEF WithParameters
  <2>2. QED
    BY <1>9, <2>1 DEF NoValue, handle
<1>10. CASE handle.ok
  <2>1. h.ok /\ h.value = handle.value /\ h.rest = t
    BY <1>6, <1>7, <1>10 DEF Value
  <2>2. size.ok /\ size.rest = p ++ a
    <3>1. CASE HasArea(c, "none")
      <4>1. ResponseTag.value = TPM_ST.SESSIONS
        BY <1>1, <3>1, ResponseSections
      <4>2. a ++ w = a /\ IsStream(p ++ a)
        BY <1>1, <1>2, ConcatEmpty, ConcatStream
      <4>3. t = s ++ (p ++ a)
        BY <3>1, <4>2 DEF t
      <4>4. Read(t, 4) = Value(p.size, p ++ a)
        BY <4>2, <4>3, ReadChunk
      <4>5. QED
        BY <2>1, <4>1, <4>4 DEF Value
    <3>2. CASE ~HasArea(c, "none")
      <4>1. ResponseTag.value = TPM_ST.NO_SESSIONS /\ TPM_ST.NO_SESSIONS # TPM_ST.SESSIONS
        BY <1>1, <3>2, ResponseSections, Tags
      <4>2. c.sessions = <<>>
        BY <3>2 DEF HasArea
      <4>3. t = p ++ a
        BY <1>2, <3>2, <4>2 DEF t
      <4>4. QED
        BY <2>1, <4>1, <4>3 DEF Value
    <3>3. QED
      BY <3>1, <3>2
  <2> HIDE DEF size
  <2>3. ResponseParsed(format) = WithParameters(h, size, taken)
    BY <1>8, <2>2
  <2> HIDE DEF taken
  <2>4. CASE taken.ok
    <3>1. ResponseParsed(format) = Value(Joined(handle.value, taken.value), taken.rest)
      BY <2>1, <2>2, <2>3, <2>4 DEF WithParameters
    <3>2. ResponseParsed(format).ok /\ ResponseParsed(format).value = Joined(handle.value, taken.value)
      BY <3>1 DEF Value
    <3>3. QED
      BY <1>10, <2>4, <3>2 DEF handle, taken
  <2>5. CASE ~taken.ok
    <3>1. ResponseParsed(format) = NoValue
      BY <2>3, <2>5 DEF WithParameters
    <3>2. QED
      BY <2>5, <3>1 DEF NoValue, taken
  <2>6. QED
    BY <2>4, <2>5
<1>11. QED
  BY <1>9, <1>10

LEMMA UnmarshalRStep == ASSUME SessionsInOrder, IInv, RInv, TSS_Unmarshal PROVE RInv'
<1> DEFINE c == call
           format == Entry(c).unmarshalOut
           out == ResponseParsed(format)
           handle == Handle(format.handles, OutHandles(c))
           taken == Unmarshal(format.parameters, OutParameters(c) ++ AnswerArea(c, "none"), 0)
<1>1. /\ pc = "encrypt" /\ pc' = "done" /\ call' = call /\ received' = received
  BY DEF TSS_Unmarshal, Unmarshaled, Done, Refuse
<1>2. IsCall(c) /\ ReadsBack(c) /\ refusedBy = "none"
  BY <1>1 DEF IInv, TypeInv, RunningInv, Running, Steps
<1>3. /\ received # <<>> /\ Legal(c) /\ Took(c, received[1])
      /\ "none" \in c.faults /\ received[1].ok = TRUE
      /\ responseBuffer = ResponseStream(c, "none", OutParameters(c))
  BY <1>1 DEF RInv, AnsweredInv, TookInv
<1>4. Unmarshaled(format, out)
  BY DEF TSS_Unmarshal, Entry
<1>5. c.hasOut \in BOOLEAN /\ c.outGood \in BOOLEAN
  BY <1>2, CallFacts
<1>6. /\ c.outGood <=> ((format # NULL <=> c.hasOut) /\ (c.hasOut => taken.ok))
      /\ c.outGood /\ c.hasOut => handle.ok /\ Joined(handle.value, taken.value) = c.out
  BY <1>2, ReadsBackParts DEF ResponseReadsBack
<1>7. /\ refusedBy' \in {"none", "TSS_Unmarshal"}
      /\ refusedBy' = "none" <=> c.outGood
      /\ c.outGood /\ c.hasOut => given' = <<c.out>>
  <2>1. CASE (format # NULL) # c.hasOut
    BY <1>4, <1>5, <1>6, <2>1 DEF Unmarshaled, Refuse
  <2>2. CASE (format # NULL) = c.hasOut /\ ~c.hasOut
    BY <1>2, <1>4, <1>5, <1>6, <2>2 DEF Unmarshaled, Done
  <2>3. CASE (format # NULL) = c.hasOut /\ c.hasOut
    <3>1. format # NULL
      BY <2>3
    <3>2. /\ out.ok <=> handle.ok /\ taken.ok
          /\ out.ok => out.value = Joined(handle.value, taken.value)
      BY <1>2, <1>3, <2>3, <3>1, ResponseUnmarshaled
    <3>3. c.outGood <=> taken.ok
      BY <1>5, <1>6, <2>3, <3>1
    <3> HIDE DEF format, out, handle, taken
    <3>4. CASE out.ok
      BY <1>2, <1>4, <1>6, <2>3, <3>2, <3>3, <3>4 DEF Unmarshaled, Done
    <3>5. CASE ~out.ok
      BY <1>4, <1>6, <2>3, <3>2, <3>3, <3>5 DEF Unmarshaled, Refuse
    <3>6. QED
      BY <3>4, <3>5
  <2>4. QED
    BY <2>1, <2>2, <2>3
<1>8. TookInv' /\ AnsweredInv'
  BY <1>1, <1>3, <1>7 DEF TookInv, AnsweredInv
<1>9. ApplicationReceivesTheResponse'
  BY <1>1, <1>3, <1>5, <1>7 DEF ApplicationReceivesTheResponse
<1>10. QED
  BY <1>8, <1>9 DEF RInv

LEMMA WriteRStep == ASSUME IInv, NEW f, TSS_File_WriteStructure(f) PROVE RInv'
<1>1. /\ pc = "idle" /\ received' = received /\ pc' \in {"written", "file"}
  BY DEF TSS_File_WriteStructure, Completed
<1>2. received = <<>>
  BY <1>1 DEF IInv, ClearedInv
<1>3. QED
  BY <1>1, <1>2, NothingReceived

LEMMA ReadRStep == ASSUME IInv, TSS_File_ReadStructure PROVE RInv'
<1>1. /\ pc = "written" /\ received' = received /\ pc' = "file"
  BY DEF TSS_File_ReadStructure
<1>2. received = <<>>
  BY <1>1 DEF IInv, ClearedInv
<1>3. QED
  BY <1>1, <1>2, NothingReceived

LEMMA InitAuthContextRStep == ASSUME TSS_InitAuthContext PROVE RInv'
<1>1. received' = <<>> /\ pc' = "idle"
  BY DEF TSS_InitAuthContext
<1>2. QED
  BY <1>1, NothingReceived

\* Every step keeps the invariant of the response.
LEMMA NextRInv == ASSUME SessionsInOrder, IInv, RInv, [Next]_vars PROVE RInv'
<1>1. ASSUME UNCHANGED vars PROVE RInv'
  <2>1. /\ call' = call /\ pc' = pc /\ refusedBy' = refusedBy /\ authCount' = authCount /\ hmacs' = hmacs
        /\ received' = received /\ responseBuffer' = responseBuffer /\ given' = given
    BY <1>1 DEF vars
  <2>2. TookInv' /\ ApplicationReceivesTheResponse'
    BY <2>1 DEF RInv, TookInv, ApplicationReceivesTheResponse
  <2>3. AnsweredInv'
    BY <2>1 DEF RInv, AnsweredInv
  <2>4. QED
    BY <2>2, <2>3 DEF RInv
<1>2. QED
  BY <1>1, MarshalRStep, DecryptRStep, HmacRStep, SetCmdAuthsRStep, ExecuteRStep, GetRspAuthsRStep,
     VerifyRStep, EncryptRStep, UnmarshalRStep, WriteRStep, ReadRStep, InitAuthContextRStep DEF Next

\* What the two invariants come to.
LEMMA RInvReceives == ASSUME IInv, RInv PROVE TpmReceivesTheCommand
<1>1. pc \in Steps /\ refusedBy # "none" => pc = "done"
  BY DEF IInv, RunningInv, Running
<1>2. pc \in Steps /\ refusedBy \in {"TSS_Command_Decrypt", "TSS_SetCmdAuths", "TPM"} => ~Legal(call)
  BY <1>1 DEF RInv, TookInv
<1>3. received # <<>> => Took(call, received[1])
  BY DEF RInv, TookInv
<1>4. QED
  BY <1>2, <1>3 DEF TpmReceivesTheCommand, Took

-----------------------------------------------------------------------------
(* Theorems                                                                *)

LEMMA IInvTypeOK == ASSUME IInv PROVE TypeOK
<1>1. IInv
  OBVIOUS
<1>2. pc \in Steps => call.command \in DOMAIN TPM_CC
  BY <1>1, CallFacts DEF IInv, TypeInv
<1>3. commandBuffer.size <= MAX_COMMAND_SIZE
  <2>1. commandBuffer.size \in 0 .. MAX_COMMAND_SIZE
    BY <1>1 DEF IInv, TypeInv
  <2>2. \A n \in 0 .. MAX_COMMAND_SIZE : n <= MAX_COMMAND_SIZE
    BY DEF MAX_COMMAND_SIZE
  <2>3. QED
    BY <2>1, <2>2
<1>4. authCount \in IF pc = "idle" THEN {0} ELSE 0 .. 3
  BY <1>1 DEF IInv, TypeInv, ClearedInv, MAX_SESSION_NUM
<1>5. Len(received) <= 1 /\ Len(given) <= 1
  <2>1. ASSUME NEW s, s = <<>> \/ s = <<s[1]>> PROVE Len(s) <= 1
    <3>1. CASE s = <<>>
      BY <3>1
    <3>2. CASE s = <<s[1]>>
      <4>1. ASSUME NEW e PROVE Len(<<e>>) = 1
        OBVIOUS
      <4>2. Len(s) = 1
        BY <3>2, <4>1
      <4>3. QED
        BY <4>2
    <3>3. QED
      BY <2>1, <3>1, <3>2
  <2>2. QED
    BY <1>1, <2>1 DEF IInv, TypeInv
<1>6. QED
  BY <1>1, <1>2, <1>3, <1>4, <1>5 DEF IInv, TypeInv, TypeOK

LEMMA IInvEncrypts == ASSUME IInv PROVE DecryptSessionEncrypts
<1> DEFINE c == call
<1>1. SUFFICES ASSUME pc = "send", NEW i \in DOMAIN c.sessions, IsDecrypt(c.sessions[i]),
                      \A j \in 1 .. i : c.sessions[j].kind # "pw"
               PROVE  Encrypted(FirstParameter)
  BY DEF DecryptSessionEncrypts
<1>2. i \in DecryptSessions(c)
  BY <1>1 DEF DecryptSessions, GetDecryptSession, Indices, BeforePassword
<1>3. /\ IsCall(c) /\ ReadsBack(c) /\ Decryptable(c) /\ commandBuffer = SentStream(c) /\ cpBuffer = SentOffset(c)
  BY <1>1 DEF IInv, TypeInv, RunningInv, UnauthorizedInv, SendInv, Running, Steps
<1> DEFINE p == InParameters(c)
           q == Enciphered(p, CommandKey(c))
           a == Authorizations(c)
           s == Chunk(4, a.size)
           h == (InHandles(c) ++ s) ++ a
<1>4. /\ IsStream(InHandles(c)) /\ InHandles(c).size = HandlesSize(c) /\ HandlesSize(c) \in Nat
      /\ Tpm2bFirst(p) /\ InTheClear(p) /\ IsStream(a) /\ a.size \in Nat /\ IsStream(s) /\ s.size = 4
      /\ CommandKey(c) \in CipherKeys /\ CommandKey(c) # Clear
  <2>1. DecryptSessions(c) # {} /\ getDecryptSize(c.command) = 2
    BY <1>2, <1>3 DEF Decryptable
  <2>2. CommandKey(c) \in CipherKeys /\ CommandKey(c) # Clear
    BY <1>3, <2>1, CommandKeyFacts
  <2>3. QED
    BY <1>3, <2>1, <2>2, CommandFacts, ChunkStream
<1>5. Sent(c) = q /\ IsStream(q)
  BY <1>2, <1>4, EncipherKeeps DEF Sent, Tpm2bFirst
<1>6. c.sessions # <<>>
  BY <1>1
<1>7. IsStream(h) /\ h.size = HandlesSize(c) + 4 + a.size /\ IsStream(a ++ q)
  BY <1>4, <1>5, ConcatStream
<1>8. InHandles(c) ++ (s ++ (a ++ q)) = h ++ q
  BY <1>4, <1>5, <1>7, ConcatStream, ConcatAssociates
<1>9. commandBuffer = Framed(TPM_ST.SESSIONS, TPM_CC[c.command], h ++ q)
  BY <1>3, <1>5, <1>6, <1>8 DEF SentStream
<1>10. cpBuffer = HeaderSize + h.size
  <2>1. \A n, m \in Nat : HeaderSize + n + (4 + m) = HeaderSize + (n + 4 + m)
    BY DEF HeaderSize
  <2>2. QED
    BY <1>3, <1>4, <1>6, <1>7, <2>1 DEF SentOffset
<1>11. QED
  BY <1>4, <1>7, <1>9, <1>10, EncipherFramedEncrypts DEF FirstParameter

\* The steps keep the streams in their places, if the functions of the structures agree.
THEOREM Invariant == Spec /\ []StructureReadsBack => []IInv
<1>1. Init => IInv
  BY InitIInv
<1>2. IInv /\ StructureReadsBack' /\ [Next]_vars => IInv'
  BY NextIInv
<1>3. QED
  BY <1>1, <1>2, PTL DEF Spec

\* Every step keeps the types: a command of the table, at most MAX_COMMAND_SIZE bytes, three
\* authorizations, one response and one answer (TSS_AuthExecute's buffers and counters).
THEOREM TypeCorrect == Spec /\ []StructureReadsBack => []TypeOK
<1>1. IInv => TypeOK
  BY IInvTypeOK
<1>2. QED
  BY <1>1, Invariant, PTL

\* TSS_Command_Decrypt: a decrypt session before any password session means that the first
\* parameter of the command that TSS_Execute sends is encrypted.
THEOREM DecryptSessionEncryptsCorrect == Spec /\ []StructureReadsBack => []DecryptSessionEncrypts
<1>1. IInv => DecryptSessionEncrypts
  BY IInvEncrypts
<1>2. QED
  BY <1>1, Invariant, PTL

\* Where the sessions are in order, the TPM takes what was sent, its response stays in its place, and
\* every step of the TSS takes its part of it.
THEOREM ResponseInvariant == ASSUME SessionsInOrder PROVE Spec /\ []StructureReadsBack => []RInv
<1>1. Init => RInv
  BY InitRInv
<1>2. IInv /\ RInv /\ [Next]_vars => RInv'
  BY NextRInv
<1>3. QED
  BY <1>1, <1>2, Invariant, PTL DEF Spec

\* TSS_Command_Decrypt, TSS_SetCmdAuths and TSS_Marshal: the TPM takes the handles and the parameters
\* that the application filled in, and refuses no command that may have these sessions.
THEOREM TpmReceivesTheCommandCorrect ==
  ASSUME SessionsInOrder PROVE Spec /\ []StructureReadsBack => []TpmReceivesTheCommand
<1>1. IInv /\ RInv => TpmReceivesTheCommand
  BY RInvReceives
<1>2. QED
  BY <1>1, Invariant, ResponseInvariant, PTL

\* TSS_GetRspAuths to TSS_Unmarshal: the application gets the response as the TPM made it, decrypted,
\* and a response that is not proper is an error.
THEOREM ApplicationReceivesTheResponseCorrect ==
  ASSUME SessionsInOrder PROVE Spec /\ []StructureReadsBack => []ApplicationReceivesTheResponse
<1>1. RInv => ApplicationReceivesTheResponse
  BY DEF RInv
<1>2. QED
  BY <1>1, ResponseInvariant, PTL
=============================================================================
