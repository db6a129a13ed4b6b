-------------------------- MODULE MCDomainServices --------------------------
(***************************************************************************)
(* The instance of the zone and the certificate of a domain.  Their models *)
(* share no state, so a behaviour is one of a single service and the other *)
(* rests in its initial state: the states are the sum of the two and not   *)
(* their product.                                                          *)
(***************************************************************************)
EXTENDS ZonePublish, CertificateRenewal, TLC

VARIABLE service  \* the service this behaviour is about

ServiceInit == Init /\ CertInit /\ service \in {"zone", "certificate"}

ZoneStep ==
    service = "zone" /\ Next /\ UNCHANGED <<service, certVars>>
CertificateStep ==
    service = "certificate" /\ CertNext /\ UNCHANGED <<service, vars>>

ServiceNext == ZoneStep \/ CertificateStep

ServiceSpec == ServiceInit /\ [][ServiceNext]_<<service, certVars, vars>>

\* The DNSSEC requests may change places.
Symmetry == Permutations(Toggles)
=============================================================================
