----------------------------- MODULE MCWalletOps -----------------------------
(* Small instances of WalletOps for TLC. *)
EXTENDS WalletOps, TLC

CONSTANTS k1, k2, k3, k4, a

\* two replacements, of which the second may spend what the first results in,
\* a unique mint and a fungible one
Mixed == [k \in Requests |-> CASE k = k3 -> "item" [] k = k4 -> "mint" [] OTHER -> "replace"]

With(requests, loss, close, lock, age, restore, manual) ==
  [requests |-> requests, loss |-> loss, close |-> close, lock |-> lock, age |-> age,
   restore |-> restore, manual |-> manual]
Troubles == {With({k1, k2, k3}, 1, 1, 0, 0, 0, 0), With({k1, k3}, 1, 0, 0, 1, 0, 2),
             With({k3, k4}, 1, 0, 0, 1, 0, 1),
             With({k1, k2}, 1, 0, 1, 1, 0, 1), With({k1, k2}, 1, 0, 0, 0, 1, 1)}

==============================================================================
