----------------------------- MODULE MCIdentity -----------------------------
(* One phone and one address, two challenges, three verifications at once. *)
EXTENDS Identity, TLC

CONSTANTS phone, ip, c1, c2, v1, v2, v3, w1

MCPhone     == {phone}
MCIp        == {ip}
MCChallenge == {c1, c2}
MCVerifier  == {v1, v2, v3}
MCRevoker   == {w1}

Symmetry == Permutations(MCChallenge) \cup Permutations(MCVerifier)
=============================================================================
