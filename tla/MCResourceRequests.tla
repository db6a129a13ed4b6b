-------------------------- MODULE MCResourceRequests --------------------------
(* Two clients, of whom one may act on one account and one on both, and a      *)
(* package that leaves the account with the addon domain room for one more     *)
(* resource of each kind.                                                      *)
EXTENDS ResourceRequests, TLC

CONSTANTS c1, c2, a1, a2, n1, n2

\* a name is only compared with others
MCNames == {n1, n2}
MCSymmetry == Permutations(MCNames)
MCAccess == c1 :> {a1} @@ c2 :> {a1, a2}
MCPackage == [domain |-> 3, subdomain |-> 1, alias_domain |-> 1, website |-> 3, app |-> 2,
              db |-> 1, dbuser |-> 1, mailbox |-> 2, cron |-> 2, ftp |-> 2, disk |-> 1]
=============================================================================
