------------------------------ MODULE MCCeremonies ------------------------------
(* Ceremonies for TLC: small caps, and ceremonies that expire apart. *)
EXTENDS Ceremonies

SmallCap == [kind \in Kinds |-> IF kind = "reg" THEN 2 ELSE 1]
SmallTtl == [kind \in Kinds |-> IF kind = "auth" THEN 1 ELSE 2]

================================================================================
