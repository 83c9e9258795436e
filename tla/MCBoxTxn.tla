------------------------------ MODULE MCBoxTxn ------------------------------
(* Small instances of BoxTxn: two apps; commit 1 has an env file for app 1,  *)
(* commit 2 changes the Caddyfile and trades it for one for app 2, commit 3  *)
(* changes an env file alone.                                                *)
EXTENDS BoxTxn

CONSTANTS x, y, e

Commits ==
    << [f \in Files |-> CASE f = 0 -> x [] f = 1 -> x [] f = 2 -> None],
       [f \in Files |-> CASE f = 0 -> y [] f = 1 -> None [] f = 2 -> x],
       [f \in Files |-> CASE f = 0 -> y [] f = 1 -> None [] f = 2 -> y] >>

CommitsHead == [p \in Pushes |-> Commits[p]]
CommitsUses == [b \in Bytes |-> CASE b = x -> {1} [] b = y -> {2} [] b = e -> {}]
=============================================================================
