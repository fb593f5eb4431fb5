---------------------------- MODULE MCRedundancy ----------------------------
(* Instances of Redundancy for TLC: machines a and b of the README example. *)
EXTENDS Redundancy, TLC

CONSTANTS a, b

MCPeer == (a :> b) @@ (b :> a)

\* priority=200 against 100, as in the manual.
MCPriority == (a :> 200) @@ (b :> 100)

\* local_name sorts after an IP address ("station_a").
MCNoTie == (a :> FALSE) @@ (b :> FALSE)

\* Machine a runs Windows, b Linux.
MCMixed   == (a :> "timeout") @@ (b :> "would_block")
MCWindows == (a :> "timeout") @@ (b :> "timeout")
=============================================================================
