------------------------------ MODULE MCConfig ------------------------------
(***************************************************************************)
(* Instances of ConfigLife.  Odd and even versions differ in a field read  *)
(* only at boot; the second and the third ask for another image.           *)
(***************************************************************************)
EXTENDS ConfigLife

AlternatingFields == [v \in Versions |-> v % 2]
OtherImage == [v \in Versions |-> IF v \in {2, 3} THEN 2 ELSE 0]

=============================================================================
