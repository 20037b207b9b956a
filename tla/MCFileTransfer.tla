---------------------------- MODULE MCFileTransfer ----------------------------
(* Small instances of FileTransfer for TLC. *)
EXTENDS FileTransfer, TLC

CONSTANTS x, y, c1, c2, c3, ka, kb, s, h1, h2

\* c1 and c2 are the same claim sent twice, c3 is somebody else's
KeyOf == [c \in Claims |-> IF c = c3 THEN kb ELSE ka]
\* requests that differ in nothing but their name
Alike == Permutations({x, y}) \cup Permutations({c1, c2}) \cup Permutations({h1, h2})

===============================================================================
