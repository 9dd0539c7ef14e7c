---------------------------- MODULE MCSitePosture ----------------------------
(* A small instance of SitePosture for TLC: a site and a subdomain of it.     *)
EXTENDS SitePosture, TLC

CONSTANTS u1, admin, ldap, NoHost

Site == <<"com", "site">>
Www  == <<"com", "site", "www">>

SomeHosts == {Site, Www}

\* The host_name's own RP ID, bare, with an origin or with an app; the wider RP
\* ID with a listed origin; the narrower one, which the site's own origin and a
\* listed one may be outside of.
SomeAddresses ==
    {Blank, [Blank EXCEPT !.app = TRUE], [Blank EXCEPT !.origins = {Www}],
     [Blank EXCEPT !.rpId = Site, !.origins = {Www}],
     [Blank EXCEPT !.rpId = Www], [Blank EXCEPT !.rpId = Www, !.origins = {Site}],
     [Blank EXCEPT !.rpId = Www, !.app = TRUE]}

\* Administrator has the password of the installation; the other account may
\* have none (what core leaves without any way is the one whose LDAP is off).
SomeMeans ==
    [u \in Users |-> IF u = admin THEN {{"password"}} ELSE (SUBSET CoreMethods) \ {{}}]
===============================================================================
