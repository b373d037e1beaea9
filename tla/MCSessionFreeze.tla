--------------------------- MODULE MCSessionFreeze ---------------------------
(* Instances of SessionFreeze for TLC: a student with two conversations and *)
(* an anonymous conversation.                                               *)
EXTENDS SessionFreeze, FiniteSets, TLC

CONSTANTS s1, s2, s3, u1

VARIABLE cast   (* the conversations that take place *)

MixedOwners == [s \in Sessions |-> IF s = s3 THEN NoUser ELSE u1]

(* Either both conversations of the student take place, with one turn at a  *)
(* time, two PINs and time that passes; or one of them and the anonymous    *)
(* one, with two turns at a time, and one PIN that they and the event loop  *)
(* may validate at once.                                                    *)
MCInit == Init /\ cast \in {{s1, s2}, {s1, s3}}

Serving == {p \in Procs : req[p].pc # "idle"}

Limits ==
  /\ open' \subseteq cast
  /\ \A p \in Serving' : req'[p].sess \in cast
  /\ IF s3 \in cast THEN issued' <= 1 /\ stalePins' = {} /\ staleUsers' = {}
     ELSE Cardinality(Serving' \ {Loop}) <= 1

MCNext == Next /\ UNCHANGED cast /\ Limits

MCSpec == MCInit /\ [][MCNext]_<<vars, cast>>

(* The worker threads are interchangeable.                                  *)
ThreadSymmetry == Permutations(Threads)
=============================================================================
