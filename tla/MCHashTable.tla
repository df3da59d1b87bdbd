------------------------------ MODULE MCHashTable ------------------------------
(* Four keys: two collide at every capacity, two more only at small ones. *)
EXTENDS HashTable

MCKeys == 1 .. 4
MCHash == [k \in MCKeys |-> <<1, 1, 3, 6>>[k]]
=============================================================================
