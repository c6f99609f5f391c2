---------------------------- MODULE OrderedKeys ----------------------------
(***************************************************************************)
(* The key order that server/internal/Map.go keeps in a SafeOrderedMap: a  *)
(* slice without duplicates, in order of first insertion.  The operators   *)
(* are the two ways the Go code changes it.  SafeOrderedMap.tla uses them  *)
(* for the map itself, the models of the server's stores (advertisements,  *)
(* peers, chat members) for the maps the server is built from.             *)
(***************************************************************************)
EXTENDS Integers, Sequences, SequencesExt

\* The 1-based place of a key that occurs in s.
Position(s, k) == CHOOSE i \in DOMAIN s : s[i] = k

\* store of a key: a new key goes to the end, a known key keeps its place.
WithKey(s, k) == IF k \in Range(s) THEN s ELSE Append(s, k)

\* Delete of a key: slices.Delete at the key's place, the others keep their order.
WithoutKey(s, k) == IF k \in Range(s) THEN RemoveAt(s, Position(s, k)) ELSE s

=============================================================================
