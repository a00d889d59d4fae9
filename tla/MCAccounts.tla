----------------------------- MODULE MCAccounts -----------------------------
(***************************************************************************)
(* Small instances of the accounts of the console.  Each behaviour has the *)
(* kinds of requests of one agenda: guessing, sessions and those who end   *)
(* them, the second factor, the administrators, the directory.             *)
(***************************************************************************)
EXTENDS Accounts, TLC

SmallAgendas ==
  {[kinds |-> {"login", "mfa", "reset"}, starts |-> 4, staff |-> 1],
   [kinds |-> {"login", "logout", "password", "reset", "resetMfa"}, starts |-> 3, staff |-> 2],
   [kinds |-> {"update", "logout", "reset"}, starts |-> 3, staff |-> 2],
   [kinds |-> {"setup", "enable", "resetMfa"}, starts |-> 4, staff |-> 2],
   [kinds |-> {"mfa", "login", "disable"}, starts |-> 3, staff |-> 1],
   [kinds |-> {"mfa", "login", "codes"}, starts |-> 3, staff |-> 1],
   [kinds |-> {"update", "create"}, starts |-> 3, staff |-> 1],
   [kinds |-> {"update", "enforce", "unlink"}, starts |-> 3, staff |-> 2],
   [kinds |-> {"sso", "unlink"}, starts |-> 1, staff |-> 2],
   [kinds |-> {"sso", "link"}, starts |-> 0, staff |-> 2],
   [kinds |-> {"badge", "unlink"}, starts |-> 1, staff |-> 2]}

Interchangeable == Permutations(Requests) \cup Permutations(Browsers) \cup Permutations(Attempts) \cup Permutations(Users)
=============================================================================
