------------------------------ MODULE MCTrade ------------------------------
(* A small instance of Trade for TLC. *)
EXTENDS Trade, TLC

CONSTANTS c1, c2, c3, i1, i2, a, b1, b2

\* c2 repeats c1; c3 is the claim of somebody else
ClaimId      == [c \in Claims |-> IF c = c3 THEN i2 ELSE i1]
ClaimBalance == [c \in Claims |-> IF c = c3 THEN b2 ELSE b1]

\* every combination of issuers for the balances posted and claimed with; the
\* rival pays with one of the station's own
EitherIssuer == {f \in [{a, b1, b2} -> {"here", "there"}] : f[b2] = "here"}

=============================================================================
