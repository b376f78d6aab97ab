----------------------------- MODULE MCSessions -----------------------------
(* Constants for SessionCacheUse: five sessions for four places, under a   *)
(* mask that puts the first ones in the middle of the tree.  Sessions have *)
(* different parameters, one of them has two; two may be forgotten.        *)
EXTENDS Sessions

CONSTANTS p, q

MCIds == 1 .. 5
MCMasks == {[id \in MCIds |-> <<4, 2, 5, 3, 1>>[id]]}
MCSessions == {<<1, p>>, <<2, q>>, <<3, p>>, <<4, p>>, <<4, q>>, <<5, q>>}

(* Clients with other versions and suites than the server's, a smaller     *)
(* fragment length, or that refuse to renegotiate.                         *)
Config(min, max, suites, frag, noReneg) ==
  [min |-> min, max |-> max, suites |-> suites, frag |-> frag, noReneg |-> noReneg]
MCClients ==
  {Config(1, 3, {"cbc", "gcm"}, 14, FALSE), Config(1, 2, {"cbc", "gcm"}, 13, FALSE),
   Config(3, 3, {"gcm"}, 12, TRUE), Config(1, 1, {"cbc"}, 14, FALSE), Config(2, 2, {"gcm"}, 14, FALSE)}
MCServers == {Config(2, 3, {"cbc", "gcm"}, 14, FALSE), Config(1, 3, {"cbc"}, 13, TRUE)}
=============================================================================
