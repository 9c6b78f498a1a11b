-------------------------------- MODULE Logins --------------------------------
(***************************************************************************)
(* Who logs in where: what HostKeys and KeyboardInteractive, two phases of *)
(* the same connection attempt, have in common.                            *)
(***************************************************************************)
EXTENDS Naturals, Sequences

CONSTANTS
    Attempts,  \* tabs, panels and tunnels that connect
    Hosts,     \* host:port pairs
    Chains     \* the profiles: each a sequence of hosts, jump hosts first

ASSUME ChainsAssumption == Chains \subseteq Seq(Hosts) \ {<<>>}
=============================================================================
