------------------------------ MODULE MCHosting ------------------------------
(* Two mail domains and two FTP logins of two accounts, and two connections of *)
(* Postfix.                                                                    *)
EXTENDS Hosting, TLC

CONSTANTS d1, d2,   \* domains, of two accounts
          l1, l2,   \* FTP logins, of two accounts
          a1, a2    \* accounts

MCDomainOwner == d1 :> a1 @@ d2 :> a2
MCLoginOwner == l1 :> a1 @@ l2 :> a2

\* The domains of the mail part may change places, since each has an account
\* of its own and owners are only compared; so may the connections.
MCSymmetry == Permutations(MailDomains) \cup Permutations(Handlers)
=============================================================================
