---------------------------- MODULE MCVaulting ----------------------------
(* Vaulting on two landings and a bounded vault.                            *)
EXTENDS Vaulting

MCRoutes == [d \in DLEs |-> IF d = 1 THEN {"disk"} ELSE {"disk", "nas"}]
MCOrder == <<"disk", "nas", "vault">>
MCRules == {[from |-> AutoSource, to |-> "nas", last |-> 0],
            [from |-> AutoSource, to |-> "vault", last |-> 0]}
MCCapacity == [m \in Media |-> IF m = "vault" THEN 3 ELSE 4]
MCMinAge == [m \in Media |-> IF m = "vault" THEN 1 ELSE 0]
=============================================================================
