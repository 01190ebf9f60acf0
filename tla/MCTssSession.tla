---------------------------- MODULE MCTssSession ----------------------------
(* TssSession on two handles and one entity, for TLC.                      *)
EXTENDS TssSession, TLC

Template(type, isKeyed, entity) ==
  [ sessionType |-> type, keyed |-> isKeyed, bind |-> entity, nonceTPM |-> 0,
    isPasswordNeeded |-> FALSE, isAuthValueNeeded |-> FALSE ]

\* Bound HMAC sessions, which an audit turns into unbound ones, and policy sessions, salted or not.
MCTemplates ==
  { Template("HMAC", TRUE, e) : e \in Entities }
    \union { Template("POLICY", isKeyed, NoEntity) : isKeyed \in BOOLEAN }

Symmetry == Permutations(Handles)
=============================================================================
