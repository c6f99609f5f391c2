----------------------------- MODULE OrderedMap -----------------------------
(***************************************************************************)
(* What a SafeOrderedMap promises to the goroutines that read it: they see *)
(* one version of a list of <<key, value>> entries with distinct keys, and *)
(* each write moves it, at once, from one version to the next.             *)
(***************************************************************************)
EXTENDS Integers, Sequences, SequencesExt

CONSTANTS Keys, Values

VARIABLE entries

KeysOf(es) == {es[i][1] : i \in DOMAIN es}

Init == entries = <<>>

\* A key that is not in the map is added after all the others.
AddEntry(k, v) ==
  /\ k \notin KeysOf(entries)
  /\ entries' = Append(entries, <<k, v>>)

\* The value of the i-th key is replaced; the key keeps its place.
ReplaceEntry(i, v) == entries' = [entries EXCEPT ![i] = <<@[1], v>>]

\* The i-th entry is removed; the others keep their order.
RemoveEntry(i) == entries' = RemoveAt(entries, i)

Next ==
  \/ \E k \in Keys, v \in Values : AddEntry(k, v)
  \/ \E i \in DOMAIN entries, v \in Values : ReplaceEntry(i, v)
  \/ \E i \in DOMAIN entries : RemoveEntry(i)

Spec == Init /\ [][Next]_entries
=============================================================================
