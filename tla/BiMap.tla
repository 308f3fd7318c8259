------------------------------- MODULE BiMap --------------------------------
(***************************************************************************)
(* What MultiMap promises (src/src/multi_map.rs, the comment of line 9): a *)
(* set of items, each found and removed by either of its two keys, and the *)
(* last call with the key or item it was given and its result.             *)
(***************************************************************************)
CONSTANTS K1, K2, V,
    Ok, Refused, Missing    \* results that are no value

VARIABLES
    items,    \* the items in the map
    last,     \* the last call, its argument and its result
    alive     \* the map was not dropped

vars == <<items, last, alive>>

Item == [k1 : K1, k2 : K2, v : V]

Found1(k) == {x \in items : x.k1 = k}
Found2(k) == {x \in items : x.k2 = k}

\* The call returns a value of what it found, or that nothing was found.
Returns(name, k, found) ==
    \E r \in V \cup {Missing} :
        /\ IF found = {} THEN r = Missing ELSE \E x \in found : r = x.v
        /\ last' = [call |-> name, arg |-> k, result |-> r]

\* Refused if either key is taken.
Insert(x) ==
    /\ alive
    /\ LET taken == Found1(x.k1) \cup Found2(x.k2) # {}
       IN  /\ items' = IF taken THEN items ELSE items \cup {x}
           /\ last' = [call |-> "insert", arg |-> x, result |-> IF taken THEN Refused ELSE Ok]
    /\ UNCHANGED alive

Get1(k) ==
    /\ alive
    /\ Returns("get1", k, Found1(k))
    /\ UNCHANGED <<items, alive>>

Get2(k) ==
    /\ alive
    /\ Returns("get2", k, Found2(k))
    /\ UNCHANGED <<items, alive>>

Remove1(k) ==
    /\ alive
    /\ Returns("remove1", k, Found1(k))
    /\ items' = items \ Found1(k)
    /\ UNCHANGED alive

Remove2(k) ==
    /\ alive
    /\ Returns("remove2", k, Found2(k))
    /\ items' = items \ Found2(k)
    /\ UNCHANGED alive

\* Drop.
Clear ==
    /\ alive
    /\ items' = {}
    /\ alive' = FALSE
    /\ UNCHANGED last

Init ==
    /\ items = {}
    /\ last = [call |-> "new", arg |-> Ok, result |-> Ok]
    /\ alive = TRUE

Next ==
    \/ \E x \in Item : Insert(x)
    \/ \E k \in K1 : Get1(k) \/ Remove1(k)
    \/ \E k \in K2 : Get2(k) \/ Remove2(k)
    \/ Clear

Spec == Init /\ [][Next]_vars
=============================================================================
