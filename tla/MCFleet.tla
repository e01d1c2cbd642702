------------------------------ MODULE MCFleet ------------------------------
(* Small fleets for TLC. *)
EXTENDS Fleet, TLC

CONSTANTS a1, a2, u1, t1, t2, c1, c2, c3

\* Two agents that copied a uuid but generated their own tokens.
RivalsUuid  == a1 :> u1 @@ a2 :> u1
RivalsToken == a1 :> t1 @@ a2 :> t2

\* One machine.
SoloUuid == a1 :> u1
SoloToken == a1 :> t1

\* Connection slots are interchangeable.
ConnSymmetry == Permutations(Conn)
=============================================================================
