--------------------------- MODULE MCAgentBinary ---------------------------
(***************************************************************************)
(* An instance of AgentBinary for TLC: three releases, so that what is     *)
(* installed, what is kept and what is asked for can all differ; one asks  *)
(* for a newer installer and one for no version x.y.z.                     *)
(***************************************************************************)
EXTENDS AgentBinary

CONSTANTS v1, v2, v3

Installers == {<<1, 2, 0>>, <<1, 1, 9>>, None}

Minima == [v \in Version |-> CASE v = v1 -> <<1, 2, 0>>
                              [] v = v2 -> <<1, 10, 0>>
                              [] OTHER  -> None]
=============================================================================
