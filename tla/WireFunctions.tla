---------------------------- MODULE WireFunctions ----------------------------
(***************************************************************************)
(* What a marshaling or an unmarshaling function of the TSS makes of a     *)
(* structure.                                                              *)
(*                                                                         *)
(* Written turns a value into a stream and Parsed a stream into a value    *)
(* and the rest of the stream.  Good and Bad list the values of a format   *)
(* that its limits allow and refuse, the boundaries of every limit among   *)
(* them.                                                                   *)
(***************************************************************************)
EXTENDS Wire

-----------------------------------------------------------------------------
(* Marshaling                                                              *)

Both(first, second) ==
  IF first.ok /\ second.ok THEN Stream(first.stream ++ second.stream) ELSE Refused

\* RECURSIVE operators, here and below, where a fold would do: TLC evaluates a constant
\* once only if it is defined without the folds.

\* marshaling looks at no limit: only a union refuses a selector it has no case for
RECURSIVE Written(_, _, _)

RECURSIVE WrittenElements(_, _)
WrittenElements(format, elements) ==
  IF elements = <<>> THEN Stream(Empty)
  ELSE Both(Written(format, Head(elements), 0), WrittenElements(format, Tail(elements)))

RECURSIVE WrittenFields(_, _)
WrittenFields(fields, record) ==
  IF fields = <<>> THEN Stream(Empty)
  ELSE LET field == Head(fields)
       IN  Both(Written(field[2], record[field[1]], Selector(field, record)), WrittenFields(Tail(fields), record))

Written(format, value, selector) ==
  CASE format.kind = "int" -> Stream(Chunk(format.n, value))
    [] format.kind = "buffer" -> Stream(Chunk(2, value.size) ++ Bytes(value.size, value.buffer))
    [] format.kind = "sized" ->
         LET inner == Written(format.format, value, 0)
         IN  Both(Stream(Chunk(2, inner.stream.size)), inner)
    [] format.kind = "optional" ->
         IF value = <<>> THEN Stream(Chunk(2, 0)) ELSE Written(format.format, value[1], 0)
    [] format.kind = "list" ->
         Both(Stream(Chunk(4, Len(value))), WrittenElements(format.format, value))
    [] format.kind = "array" -> Stream(Chunk(format.n, value))
    [] format.kind = "struct" -> WrittenFields(format.fields, value)
    [] format.kind = "union" ->
         IF selector \in DOMAIN format.cases THEN Written(format.cases[selector], value, 0)
         ELSE IF format.default = "nothing" THEN Stream(Empty)
         ELSE Refused
    [] format.kind = "nothing" -> Stream(Empty)

-----------------------------------------------------------------------------
(* Unmarshaling                                                            *)

RECURSIVE Parsed(_, _, _)

\* n more elements, or the fields that are left, after what r has.
RECURSIVE ParsedElements(_, _, _)
ParsedElements(format, n, r) ==
  IF n = 0 \/ ~r.ok THEN r
  ELSE LET e == Parsed(format, r.rest, 0)
       IN  ParsedElements(format, n - 1, IF e.ok THEN Value(Append(r.value, e.value), e.rest) ELSE NoValue)

RECURSIVE ParsedFields(_, _)
ParsedFields(fields, r) ==
  IF fields = <<>> \/ ~r.ok THEN r
  ELSE LET field == Head(fields)
           f == Parsed(field[2], r.rest, Selector(field, r.value))
       IN  ParsedFields(Tail(fields),
                        IF f.ok THEN Value(r.value @@ (field[1] :> f.value), f.rest) ELSE NoValue)

Parsed(format, stream, selector) ==
  CASE format.kind = "int" -> ReadNumber(format, stream)
    [] format.kind = "buffer" ->
         LET size == Read(stream, 2)
             r == Read(size.rest, size.value)
         IN  IF size.ok /\ size.value \in 0 .. format.max /\ r.ok
               THEN Value([size |-> size.value, buffer |-> r.value], r.rest)
               ELSE NoValue
    [] format.kind = "sized" ->
         LET size == Read(stream, 2)
             r == Parsed(format.format, size.rest, 0)
         IN  IF size.ok /\ size.value # 0 /\ r.ok /\ size.rest.size - r.rest.size = size.value
               THEN r
               ELSE NoValue
    [] format.kind = "optional" ->
         LET size == Read(stream, 2)
             r == Parsed(format.format, stream, 0)
         IN  IF ~size.ok THEN NoValue
             ELSE IF size.value = 0 THEN Value(<<>>, size.rest)
             ELSE [r EXCEPT !.value = <<@>>]
    [] format.kind = "list" ->
         LET count == Read(stream, 4)
         IN  IF count.ok /\ count.value \in format.min .. format.max
               THEN ParsedElements(format.format, count.value, Value(<<>>, count.rest))
               ELSE NoValue
    [] format.kind = "array" -> Read(stream, format.n)
    [] format.kind = "arrayOf" -> Read(stream, selector)
    [] format.kind = "struct" -> ParsedFields(format.fields, Value(<<>>, stream))
    [] format.kind = "union" ->
         IF selector \in DOMAIN format.cases THEN Parsed(format.cases[selector], stream, 0)
         ELSE IF format.default = "nothing" THEN Value(0, stream)
         ELSE NoValue
    [] format.kind = "nothing" -> Value(0, stream)

-----------------------------------------------------------------------------
(* The values of a format                                                  *)

\* The ends of the ranges, and the numbers next to them.
Candidates(format) ==
  LET ends == {range[1] : range \in UNION Range(format.limits)} \union
              {range[2] : range \in UNION Range(format.limits)}
      bits == {2 ^ bit : bit \in (0 .. 8 * format.n - 1) \intersect (0 .. 30)}
      least == -2147483647 - 1
  IN  IF format.limits # <<>>
        THEN ends \union {v - 1 : v \in ends \ {least}} \union {v + 1 : v \in ends}
        ELSE IF format.reserved # {} THEN {0} \union bits
        ELSE CASE format.n = 1 -> {0, 1, 255} [] format.n = 2 -> {0, 1, 65535} [] OTHER -> {0, 1, -1}

RECURSIVE Ascending(_)
Ascending(numbers) ==
  IF numbers = {} THEN <<>> ELSE <<Min(numbers)>> \o Ascending(numbers \ {Min(numbers)})

\* How many elements a list is tried with at its limit.
MaxList == 16

\* The value the others vary: of a union that has no case for the selector, nothing.
RECURSIVE Default(_, _)

RECURSIVE DefaultFields(_, _)
DefaultFields(fields, r) ==
  IF fields = <<>> THEN r
  ELSE LET field == Head(fields)
       IN  DefaultFields(Tail(fields), r @@ (field[1] :> Default(field[2], Selector(field, r))))

Default(format, selector) ==
  CASE format.kind = "int" -> Min({v \in Candidates(format) : Allowed(format, v)})
    [] format.kind = "buffer" -> [size |-> 1, buffer |-> 7]
    [] format.kind = "sized" -> Default(format.format, 0)
    [] format.kind = "optional" -> <<>>
    [] format.kind = "list" -> [i \in 1 .. format.min |-> Default(format.format, 0)]
    [] format.kind \in {"array", "arrayOf"} -> 7
    [] format.kind = "struct" -> DefaultFields(format.fields, <<>>)
    [] format.kind = "union" ->
         IF selector \in DOMAIN format.cases THEN Default(format.cases[selector], 0) ELSE 0
    [] format.kind = "nothing" -> 0

HasCase(format, selector) ==
  format.kind = "union" /\ format.default = "refused" => selector \in DOMAIN format.cases

With(record, field, value) ==
  [value |-> record.value @@ (field[1] :> value),
   varied |-> record.varied \union
                IF value = Default(field[2], Selector(field, record.value)) THEN {} ELSE {field[1]}]

\* Only the selector of the field, if anything, is not the default.
Unvaried(record, field) ==
  record.varied \subseteq IF Len(field) = 3 THEN {field[3]} ELSE {}

\* The records with one field more: each with the default of the field, the unvaried
\* ones with every value in values[selector] too.
Extended(r, field, values) ==
  LET selector == Selector(field, r.value)
      all == IF Len(field) = 3 THEN values[selector] ELSE values[0]
  IN  IF ~HasCase(field[2], selector) THEN <<>>
      ELSE IF Unvaried(r, field) THEN [j \in DOMAIN all |-> With(r, field, all[j])]
      ELSE <<With(r, field, Default(field[2], selector))>>

RECURSIVE Extend(_, _, _)
Extend(records, field, values) ==
  IF records = <<>> THEN <<>>
  ELSE Extended(Head(records), field, values) \o Extend(Tail(records), field, values)

\* The selectors of a field in the records.
Selectors(records, field) ==
  IF Len(field) = 3 THEN {Selector(field, records[i].value) : i \in DOMAIN records} ELSE {0}

NoFields == <<[value |-> <<>>, varied |-> {}]>>

Values(records) == [i \in DOMAIN records |-> records[i].value]

\* The values the limits allow, the default first; of a structure those that vary one
\* field, and one field of a union together with its selector.
RECURSIVE Good(_, _)

RECURSIVE GoodRecords(_, _)
GoodRecords(fields, records) ==
  IF fields = <<>> THEN records
  ELSE LET field == Head(fields)
           values == [selector \in Selectors(records, field) |-> Good(field[2], selector)]
       IN  GoodRecords(Tail(fields), Extend(records, field, values))

Good(format, selector) ==
  CASE format.kind = "int" -> Ascending({v \in Candidates(format) : Allowed(format, v)})
    [] format.kind = "buffer" ->
         <<[size |-> 1, buffer |-> 7], [size |-> 0, buffer |-> 0], [size |-> format.max, buffer |-> 7]>>
    [] format.kind = "sized" -> Good(format.format, 0)
    [] format.kind = "optional" ->
         LET inner == Good(format.format, 0) IN <<<<>>>> \o [i \in DOMAIN inner |-> <<inner[i]>>]
    [] format.kind = "list" ->
         LET inner == Good(format.format, 0)
             Copies(n) == [i \in 1 .. n |-> inner[1]]
         IN  <<Copies(format.min)>> \o [i \in DOMAIN inner |-> <<inner[i]>> \o Copies(format.min)]
               \o IF format.max <= MaxList THEN <<Copies(format.max)>> ELSE <<>>
    [] format.kind \in {"array", "arrayOf"} -> <<7>>
    [] format.kind = "struct" -> Values(GoodRecords(format.fields, NoFields))
    [] format.kind = "union" ->
         IF selector \in DOMAIN format.cases THEN Good(format.cases[selector], 0) ELSE <<0>>
    [] format.kind = "nothing" -> <<0>>

\* The values a limit refuses: next to the ends of a range, over a size, or with a
\* selector the union does not have.
RECURSIVE Bad(_, _)

\* Each record with a refused value of the field.
RECURSIVE Refusing(_, _)
Refusing(records, field) ==
  IF records = <<>> THEN <<>>
  ELSE LET r == Head(records)
           bad == Bad(field[2], Selector(field, r.value))
       IN  (IF Unvaried(r, field)
              THEN [j \in DOMAIN bad |-> [value |-> r.value @@ (field[1] :> bad[j]), varied |-> {"bad"}]]
              ELSE <<>>)
           \o Refusing(Tail(records), field)

RECURSIVE BadRecords(_, _, _)
BadRecords(fields, good, bad) ==
  IF fields = <<>> THEN bad
  ELSE LET field == Head(fields)
           values == [selector \in Selectors(good, field) |->
                        IF Len(field) = 3 THEN <<Default(field[2], selector)>> ELSE Good(field[2], selector)]
           defaults == [i \in DOMAIN bad |->
                          With(bad[i], field, Default(field[2], Selector(field, bad[i].value)))]
       IN  BadRecords(Tail(fields), Extend(good, field, values), defaults \o Refusing(good, field))

Bad(format, selector) ==
  CASE format.kind = "int" -> Ascending({v \in Candidates(format) : ~Allowed(format, v)})
    [] format.kind = "buffer" -> <<[size |-> format.max + 1, buffer |-> 7]>>
    [] format.kind \in {"sized"} -> Bad(format.format, 0)
    [] format.kind = "optional" ->
         LET inner == Bad(format.format, 0) IN [i \in DOMAIN inner |-> <<inner[i]>>]
    [] format.kind = "list" ->
         LET inner == Bad(format.format, 0)
             Copies(n) == [i \in 1 .. n |-> Default(format.format, 0)]
         IN  [i \in DOMAIN inner |-> <<inner[i]>> \o Copies(format.min)]
               \o IF format.min > 0 THEN <<Copies(format.min - 1)>> ELSE <<>>
               \o IF format.max <= MaxList THEN <<Copies(format.max + 1)>> ELSE <<>>
    [] format.kind = "struct" -> Values(BadRecords(format.fields, NoFields, <<>>))
    [] format.kind = "union" ->
         IF selector \in DOMAIN format.cases THEN Bad(format.cases[selector], 0)
         ELSE IF format.default = "refused" THEN <<0>> ELSE <<>>
    [] format.kind \in {"array", "arrayOf", "nothing"} -> <<>>

=============================================================================
