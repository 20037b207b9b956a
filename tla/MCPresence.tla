------------------------------ MODULE MCPresence ------------------------------
(* Small instances of Presence for TLC. *)
EXTENDS Presence, TLC

CONSTANTS w, p, q, v1, h1, h2, h3, r1, r2

\* a visitor with two polling tokens, as one in presence and chat has, and the
\* WebSocket of a wallet without visit ids
OneVisit == (w :> None) @@ (p :> v1) @@ (q :> v1)
\* r1 is sent twice
Repeated == (h1 :> r1) @@ (h2 :> r1) @@ (h3 :> r2)

With(calls, joins, sends, lapses, vanish, slow, disk) ==
  [calls |-> calls, joins |-> joins, sends |-> sends, lapses |-> lapses, vanish |-> vanish,
   slow |-> slow, disk |-> disk]
\* a moderator and sessions that come back; two requests; one request sent
\* twice while the log may fail; sessions that fall silent; chat
Cases == {With({h1}, 4, 1, 1, 0, 0, 0), With({h1, h3}, 2, 1, 0, 0, 0, 0),
          With({h1, h2}, 2, 0, 0, 0, 0, 1), With({h1}, 2, 0, 1, 1, 1, 0),
          With({}, 3, 3, 1, 0, 0, 0)}

===============================================================================
