---------------------------- MODULE HandleStore ----------------------------
(***************************************************************************)
(* What the TSS promises about the state it retains for handles: a partial *)
(* map from handles to values, with room for so many handles of each kind. *)
(* A store replaces the value of a handle it knows, and is refused only    *)
(* when all the room for handles of that kind is taken.                    *)
(***************************************************************************)
EXTENDS Naturals, FiniteSets

CONSTANTS
  Handles,  \* handles of sessions, objects and NV indexes
  Kind,     \* the kind of each handle
  Values,   \* session contexts and Names
  Capacity  \* how many handles of one kind can be retained

VARIABLES
  store,    \* the retained values
  refused   \* the handle whose store was refused just now, if any

OfKind(h) == {x \in DOMAIN store : Kind[x] = Kind[h]}

Init ==
  /\ store = [h \in {} |-> {}]
  /\ refused = {}

Put(h, v) ==
  /\ h \in DOMAIN store \/ Cardinality(OfKind(h)) < Capacity
  /\ store' = [x \in DOMAIN store \union {h} |-> IF x = h THEN v ELSE store[x]]
  /\ refused' = {}

Refuse(h) ==
  /\ h \notin DOMAIN store
  /\ Cardinality(OfKind(h)) = Capacity
  /\ refused' = {h}
  /\ UNCHANGED store

Remove(h) ==
  /\ store' = [x \in DOMAIN store \ {h} |-> store[x]]
  /\ refused' = {}

Next ==
  \E h \in Handles :
    \/ \E v \in Values : Put(h, v)
    \/ Refuse(h)
    \/ Remove(h)

Spec == Init /\ [][Next]_<<store, refused>>
=============================================================================
