----------------------------- MODULE MCAccounts -----------------------------
(* Accounts for TLC: the configuration gives the constants their values. *)
EXTENDS Accounts
=============================================================================
