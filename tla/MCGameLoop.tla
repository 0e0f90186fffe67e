----------------------------- MODULE MCGameLoop -----------------------------
(* Small tables for GameLoop. *)
EXTENDS GameInvariant, TLC

MCCards == 0 .. N - 1

(* Every way to lay the faces out in pairs. *)
MCDeals == {d \in [MCCards -> Faces] :
               \A f \in Faces : Cardinality({c \in MCCards : d[c] = f}) \in {0, 2}}

(* One of them. *)
NeighbourDeal == {[c \in MCCards |-> c \div 2]}

(* Any card, or none. *)
CardSpots == [button : {"none"}, card : MCCards \cup {NoCard}]

(* The boxes; as on the screen, they lie over cards in whole or in part. *)
ButtonSpots == {Nowhere,
                [button |-> "play", card |-> 1],
                [button |-> "instructions", card |-> 2],
                [button |-> "exit", card |-> 0],
                [button |-> "none", card |-> 3]}

FaceSymmetry == Permutations(Faces)
=============================================================================
