----------------------------- MODULE MCAccounts -----------------------------
(***************************************************************************)
(* Small instances of Accounts for TLC: two people, two browsers.          *)
(***************************************************************************)
EXTENDS Accounts, TLC

CONSTANTS ann, bob, c1, c2, pw1, pw2

\* Browsers are interchangeable, and so are passwords and people.
Symmetry ==
  Permutations(Clients) \cup Permutations(Passwords) \cup Permutations(Users)

=============================================================================
