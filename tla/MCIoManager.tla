---------------------------- MODULE MCIoManager ----------------------------
(* Small instances of IoManager. *)
EXTENDS IoManager, TLC

CONSTANTS c1, c2, c3, k1, k2

\* A single connection.
OneKey == c1 :> k1

\* The target picks the IDs and gives c2 the one of c1.
SameKey == c1 :> k1 @@ c2 :> k1

\* Each connection has an ID of its own.
OwnKey == c1 :> k1 @@ c2 :> k2

\* Three connections, two of them with the same ID, one after the other or
\* at once.
ReusedKey == c1 :> k1 @@ c2 :> k1 @@ c3 :> k2

\* The connections with one ID are interchangeable.
SameId == Permutations({c1, c2})

=============================================================================
