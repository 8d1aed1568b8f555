----------------------------- MODULE MCAccounts -----------------------------
(* Instances of Accounts for TLC.                                          *)
EXTENDS Accounts, TLC

CONSTANTS bob, Bob, alice

(* Bob and bob are one name to COLLATE NOCASE.                             *)
MCNoCase == [n \in Name |-> IF n = Bob THEN bob ELSE n]

Interchangeable ==
    Permutations(Uid) \cup Permutations(Sid) \cup Permutations(Req)
        \cup Permutations(Password) \cup Permutations(Secret)
=============================================================================
