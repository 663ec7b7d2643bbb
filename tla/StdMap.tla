------------------------------- MODULE StdMap -------------------------------
(***************************************************************************)
(* std::map<K, V>, the container every service of the trading system keeps *)
(* its data in: a function whose domain is the set of keys present.        *)
(***************************************************************************)

\* map<K, V>(): the empty map every service constructor starts from.
EmptyMap == [key \in {} |-> key]

\* map[key] = value: inserts the key if it is absent, overwrites it otherwise.
Put(map, key, value) ==
  [k \in DOMAIN map \cup {key} |-> IF k = key THEN value ELSE map[k]]

\* map[key] read: an absent key yields the value-initialised V.
At(map, key, default) == IF key \in DOMAIN map THEN map[key] ELSE default

\* A map with keys in K and values in V.
IsMap(map, K, V) == DOMAIN map \subseteq K /\ map \in [DOMAIN map -> V]
=============================================================================
