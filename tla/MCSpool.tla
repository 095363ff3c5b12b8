------------------------------ MODULE MCSpool ------------------------------
(***************************************************************************)
(* Spool on two landings and one holding disk of 3 bytes: d1 and d2 are    *)
(* staged, not both at once.                                               *)
(***************************************************************************)
EXTENDS Spool, TLC

CONSTANTS d1, d2

MCCapacity == <<3>>
MCWriters == <<0>>
MCLanes == 1..2
MCPermits == <<1, 1>>

Staged2 == {d1, d2}
StagedEst == d1 :> 2 @@ d2 :> 2
StagedSize == d1 :> 1 @@ d2 :> 2
StagedRoute == d1 :> <<1, 2>> @@ d2 :> <<1, 2>>
=============================================================================
