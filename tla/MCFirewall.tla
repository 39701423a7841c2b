----------------------------- MODULE MCFirewall -----------------------------
(***************************************************************************)
(* An instance of Firewall for TLC: the Traefik network moves between two  *)
(* subnets, and ufw starts empty or with a rule of its own for SSH.        *)
(***************************************************************************)
EXTENDS Firewall

CONSTANTS c1, c2

FreshOrSSH == {<<>>, <<Allow("ssh", "any")>>, <<Deny("ssh")>>}
=============================================================================
