--------------------------- MODULE MCReplacement ---------------------------
(* Small instances of Replacement for TLC. *)
EXTENDS Replacement, TLC

CONSTANTS a1, a2, a3, b1, b2, b3, k1, k2, k3, o1

\* a1, a2: the same split of credential 1 sent twice under requestId k1
\* a3:     a request that consolidates 1 and 2 under requestId k2
\* b1, b2: the same issue to o1 sent twice under k1
\*         (a1 uses their requestId again, for a split)
\* b3:     an issue to o1 without a requestId
Of(f) == [a \in Attempts |-> f[a]]
KeyOf == Of((a1 :> k1) @@ (a2 :> k1) @@ (a3 :> k2) @@ (b1 :> k1) @@ (b2 :> k1) @@ (b3 :> k3))
PredsOf == Of((a1 :> {1}) @@ (a2 :> {1}) @@ (a3 :> {1, 2}) @@ [a \in Attempts |-> {}])
ParamsOf ==
  Of((a1 :> "split") @@ (a2 :> "split") @@ (a3 :> "consolidate") @@
     (b1 :> "one") @@ (b2 :> "one") @@ (b3 :> "two"))
OwnerOf == [a \in Attempts |-> o1]

============================================================================
