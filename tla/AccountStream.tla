---------------------------- MODULE AccountStream ----------------------------
(***************************************************************************)
(* What the private stream of an account promises to the gateway's         *)
(* clients, without saying how: it is DISCONNECTED, DOWNLOADING or READY;  *)
(* a snapshot is requested only once the topic that keeps it up to date is *)
(* live; READY comes after all topics are live and all mandatory snapshots *)
(* have been requested; and nothing survives a disconnect.                 *)
(***************************************************************************)
EXTENDS Naturals

VARIABLES
  status,     \* ConnectionStatus of the stream
  live,       \* topics the exchange answered for on this connection
  requested   \* snapshots requested on this connection

vars == <<status, live, requested>>

Topic     == {"account", "position", "order", "fill"}
Mandatory == {"account", "balances", "positions", "open_orders"}
Snapshot  == Mandatory \cup {"trades"}

\* The topics that must be live before snapshot k is requested.
Needs(k) == CASE k = "balances"    -> {"account"}
              [] k = "positions"   -> {"position"}
              [] k = "open_orders" -> {"order"}
              [] k = "trades"      -> {"fill"}
              [] OTHER             -> {}

Init == status = "DISCONNECTED" /\ live = {} /\ requested = {}

Begin ==
  /\ status = "DISCONNECTED"
  /\ status' = "DOWNLOADING"
  /\ live' = {}
  /\ requested' = {"account"}

Progress ==
  /\ status = "DOWNLOADING"
  /\ status' \in {"DOWNLOADING", "READY"}
  /\ live \subseteq live' /\ live' \subseteq Topic
  /\ requested \subseteq requested' /\ requested' \subseteq Snapshot
  /\ \A k \in requested' \ requested : Needs(k) \subseteq live'
  /\ status' = "READY" => live' = Topic /\ Mandatory \subseteq requested'

Disconnect ==
  /\ status' = "DISCONNECTED"
  /\ live' = {}
  /\ requested' = {}

Next == Begin \/ Progress \/ Disconnect

Spec == Init /\ [][Next]_vars
=============================================================================
