------------------------------ MODULE MultiMap ------------------------------
(***************************************************************************)
(* The map with two keys that holds the server's control channels          *)
(* (src/src/multi_map.rs), down to its memory.  An item is a box on the    *)
(* heap; both indexes are hash maps from a pointer to the item's key to a  *)
(* pointer to the item.  A hash map may follow the pointer of any of its   *)
(* keys in any operation (collisions, growth), so an index must not hold a *)
(* pointer into a box that was freed.                                      *)
(*                                                                         *)
(* A call excludes every other call (&mut self; the server keeps the map   *)
(* in a RwLock) but takes several steps: one per change of an index or of  *)
(* the heap, in the order of the source.                                   *)
(***************************************************************************)
CONSTANTS
    K1, K2, V,              \* keys and values
    Ok, Refused, Missing,   \* results that are no value
    Boxes,                  \* addresses the allocator may hand out, and reuse
    Free                    \* contents of a box that is not allocated

ASSUME FreeAssumption == Free \notin [k1 : K1, k2 : K2, v : V]

VARIABLES
    heap,       \* contents of each box
    map1, map2, \* entries: the box the key points into, the box of the item
    op,         \* step the current call will take next, "idle" between calls
    box,        \* the box of the current call
    call,       \* the current or else the last call and its argument
    answer      \* what the last call returned

vars == <<heap, map1, map2, op, box, call, answer>>

Item == [k1 : K1, k2 : K2, v : V]
Entry == [key : Boxes, item : Boxes]
EntryOf(b) == [key |-> b, item |-> b]

\* The entries of an index under a key: Key's Borrow, Hash and Eq go through
\* the pointer.
Find1(k) == {e \in map1 : heap[e.key].k1 = k}
Find2(k) == {e \in map2 : heap[e.key].k2 = k}

\* HashMap::insert: an equal key keeps its old pointer and gets the new item.
Put(m, old, b) == (m \ old) \cup
    IF old = {} THEN {EntryOf(b)} ELSE {[key |-> e.key, item |-> b] : e \in old}

Calls == {"new", "insert", "get1", "get2", "remove1", "remove2"}
Call(name, arg) == call' = [name |-> name, arg |-> arg]

InsertRefused(x) ==
    /\ op = "idle" /\ Call("insert", x)
    /\ (Find1(x.k1) # {} \/ Find2(x.k2) # {})
    /\ answer' = Refused
    /\ UNCHANGED <<heap, map1, map2, op, box>>

\* Mutant: only the second index is asked.
InsertCheckingOne(x) ==
    /\ op = "idle" /\ Call("insert", x)
    /\ Find2(x.k2) = {}
    /\ \E b \in Boxes :
          /\ heap[b] = Free
          /\ heap' = [heap EXCEPT ![b] = x]
          /\ box' = b
    /\ op' = "insert1"
    /\ UNCHANGED <<map1, map2, answer>>

\* Neither key is taken: Box::new, into_raw.
Insert(x) ==
    /\ op = "idle" /\ Call("insert", x)
    /\ Find1(x.k1) = {} /\ Find2(x.k2) = {}
    /\ \E b \in Boxes :
          /\ heap[b] = Free
          /\ heap' = [heap EXCEPT ![b] = x]
          /\ box' = b
    /\ op' = "insert1"
    /\ UNCHANGED <<map1, map2, answer>>

InsertIndex1 ==
    /\ op = "insert1"
    /\ map1' = Put(map1, Find1(heap[box].k1), box)
    /\ op' = "insert2"
    /\ UNCHANGED <<heap, map2, box, call, answer>>

InsertIndex2 ==
    /\ op = "insert2"
    /\ map2' = Put(map2, Find2(heap[box].k2), box)
    /\ op' = "idle"
    /\ answer' = Ok
    /\ UNCHANGED <<heap, map1, box, call>>

Get1(k) ==
    /\ op = "idle" /\ Call("get1", k)
    /\ \E e \in Find1(k) : answer' = heap[e.item].v
    /\ UNCHANGED <<heap, map1, map2, op, box>>

Get2(k) ==
    /\ op = "idle" /\ Call("get2", k)
    /\ \E e \in Find2(k) : answer' = heap[e.item].v
    /\ UNCHANGED <<heap, map1, map2, op, box>>

\* `?` on an index that has no such key.
NotFound1(k) ==
    /\ op = "idle" /\ (Call("get1", k) \/ Call("remove1", k))
    /\ Find1(k) = {}
    /\ answer' = Missing
    /\ UNCHANGED <<heap, map1, map2, op, box>>

NotFound2(k) ==
    /\ op = "idle" /\ (Call("get2", k) \/ Call("remove2", k))
    /\ Find2(k) = {}
    /\ answer' = Missing
    /\ UNCHANGED <<heap, map1, map2, op, box>>

\* Out of the first index, and the box is the call's own.
Remove1(k) ==
    /\ op = "idle" /\ Call("remove1", k)
    /\ \E e \in Find1(k) : map1' = map1 \ {e} /\ box' = e.item
    /\ op' = "remove1"
    /\ UNCHANGED <<heap, map2, answer>>

Remove2(k) ==
    /\ op = "idle" /\ Call("remove2", k)
    /\ \E e \in Find2(k) : map2' = map2 \ {e} /\ box' = e.item
    /\ op' = "remove2"
    /\ UNCHANGED <<heap, map1, answer>>

\* Mutant: the item is dropped without a look at the other index.
RemoveOneIndex ==
    /\ op \in {"remove1", "remove2"}
    /\ op' = "free"
    /\ UNCHANGED <<heap, map1, map2, box, call, answer>>

\* Out of the other index, by the key in the box.
RemoveOther ==
    /\ \/ op = "remove1" /\ map2' = map2 \ Find2(heap[box].k2) /\ UNCHANGED map1
       \/ op = "remove2" /\ map1' = map1 \ Find1(heap[box].k1) /\ UNCHANGED map2
    /\ op' = "free"
    /\ UNCHANGED <<heap, box, call, answer>>

\* The value moves out and the box is freed at the end of the call.
FreeBox ==
    /\ op = "free"
    /\ answer' = heap[box].v
    /\ heap' = [heap EXCEPT ![box] = Free]
    /\ op' = "idle"
    /\ UNCHANGED <<map1, map2, box, call>>

\* Drop: clear() follows no pointer.
DropClear ==
    /\ op = "idle"
    /\ map1' = {}
    /\ op' = "drop"
    /\ UNCHANGED <<heap, map2, box, call, answer>>

\* Drop: drain the second index and free each box.
DropItem(e) ==
    /\ op = "drop" /\ e \in map2
    /\ map2' = map2 \ {e}
    /\ heap' = [heap EXCEPT ![e.item] = Free]
    /\ UNCHANGED <<map1, op, box, call, answer>>

Init ==
    /\ heap = [b \in Boxes |-> Free]
    /\ map1 = {} /\ map2 = {}
    /\ op = "idle" /\ box \in Boxes
    /\ call = [name |-> "new", arg |-> Ok] /\ answer = Ok

Next ==
    \/ \E x \in Item : InsertRefused(x) \/ Insert(x)
    \/ InsertIndex1 \/ InsertIndex2
    \/ \E k \in K1 : Get1(k) \/ Remove1(k) \/ NotFound1(k)
    \/ \E k \in K2 : Get2(k) \/ Remove2(k) \/ NotFound2(k)
    \/ RemoveOther \/ FreeBox
    \/ DropClear \/ \E e \in Entry : DropItem(e)

Spec == Init /\ [][Next]_vars

-----------------------------------------------------------------------------
(* Properties *)

\* Types: indexes hold pointers, boxes hold items.
TypeOK ==
    /\ heap \in [Boxes -> Item \cup {Free}]
    /\ map1 \subseteq Entry /\ map2 \subseteq Entry
    /\ op \in {"idle", "insert1", "insert2", "remove1", "remove2", "free", "drop"}
    /\ box \in Boxes
    /\ call \in [name : Calls, arg : K1 \cup K2 \cup Item \cup {Ok}]
    /\ answer \in V \cup {Ok, Refused, Missing}

Live == {b \in Boxes : heap[b] # Free}

\* Memory safety of the unsafe blocks (multi_map.rs:24, 73, 97, 104, 115): no
\* index ever points into a freed box, in the middle of a call either, so no
\* lookup reads one and no box is freed twice; and between calls, and when Drop
\* has drained the second index, every box that is allocated is in it: nothing
\* leaks.
MemorySafe ==
    /\ \A e \in map1 \cup map2 : e.key \in Live /\ e.item \in Live
    /\ op \notin {"idle", "drop"} => box \in Live
    /\ op \in {"idle", "drop"} => Live = {e.item : e \in map2}

\* "after an item with key (a, b) is insert, `map.get1(a)` and `map.get2(b)`
\* both returns the item. Likewise the `remove1` and `remove2`"
\* (multi_map.rs:10-11): the two indexes together behave as one map with two
\* keys, a call takes effect at its first step, and its result is that map's for
\* the key it was given.
Bi == INSTANCE BiMap WITH
    items <- {heap[e.item] : e \in map1 \cap map2} \cup
             (IF op \in {"insert1", "insert2"} THEN {heap[box]} ELSE {}),
    last <- [call |-> call.name, arg |-> call.arg,
             result |-> IF op \in {"insert1", "insert2"} THEN Ok
                        ELSE IF op \in {"remove1", "remove2", "free"} THEN heap[box].v
                        ELSE answer],
    alive <- op # "drop"
TwoKeyMap == Bi!Spec
=============================================================================
