-------------------------------- MODULE Maps --------------------------------
(***************************************************************************)
(* The maps of the program (std::map, std::unordered_map, bytes by their    *)
(* offset) as functions with a domain that grows.  These are the operators  *)
(* @@ and :> of module TLC, which the provers do not know.                  *)
(***************************************************************************)

(* The map with the entry of key replaced, or added.                        *)
Put(map, key, value) ==
    [k \in DOMAIN map \cup {key} |-> IF k = key THEN value ELSE map[k]]

(* The map with all entries of another replaced, or added.                  *)
PutAll(map, entries) ==
    [k \in DOMAIN map \cup DOMAIN entries |->
        IF k \in DOMAIN entries THEN entries[k] ELSE map[k]]
=============================================================================
