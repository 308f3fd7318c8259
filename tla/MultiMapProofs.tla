--------------------------- MODULE MultiMapProofs ---------------------------
(***************************************************************************)
(* MultiMap is memory safe and implements BiMap, for all sets of keys,     *)
(* values and addresses.                                                   *)
(***************************************************************************)
EXTENDS MultiMap, TLAPS

\* Every entry points to one allocated box with both its pointers, and no two
\* entries of an index have the same key.
EntryInv ==
    /\ \A e \in map1 \cup map2 : e = EntryOf(e.item) /\ heap[e.item] # Free
    /\ \A e, f \in map1 : heap[e.item].k1 = heap[f.item].k1 => e = f
    /\ \A e, f \in map2 : heap[e.item].k2 = heap[f.item].k2 => e = f

\* An allocated box is in the second index or in the hands of the call.
HeapInv ==
    /\ op \notin {"idle", "drop"} => heap[box] # Free
    /\ \A b \in Boxes : heap[b] # Free =>
          EntryOf(b) \in map2 \/ (op \notin {"idle", "drop"} /\ b = box)

\* How the indexes differ in the middle of a call.
CallInv ==
    /\ op = "idle" => map1 = map2
    /\ op = "insert1" =>
          /\ map1 = map2
          /\ \A e \in map1 : heap[e.item].k1 # heap[box].k1 /\ heap[e.item].k2 # heap[box].k2
    /\ op = "insert2" =>
          /\ map1 = map2 \cup {EntryOf(box)}
          /\ \A e \in map2 : heap[e.item].k2 # heap[box].k2
    /\ op = "remove1" => map2 = map1 \cup {EntryOf(box)} /\ EntryOf(box) \notin map1
    /\ op = "remove2" => map1 = map2 \cup {EntryOf(box)} /\ EntryOf(box) \notin map2
    /\ op = "free" => map1 = map2 /\ EntryOf(box) \notin map1
    /\ op = "drop" => map1 = {}

IndInv == TypeOK /\ EntryInv /\ HeapInv /\ CallInv

-----------------------------------------------------------------------------
\* An entry is determined by its box.
LEMMA EntryOfBox ==
    /\ \A b \in Boxes : EntryOf(b) \in Entry /\ EntryOf(b).key = b /\ EntryOf(b).item = b
    /\ \A b, c \in Boxes : EntryOf(b) = EntryOf(c) => b = c
<1>1. \A b \in Boxes : EntryOf(b) \in Entry /\ EntryOf(b).key = b /\ EntryOf(b).item = b
  BY DEF EntryOf, Entry
<1>2. QED
  BY <1>1

\* Under the invariant every allocated box holds an item.
LEMMA LiveItem ==
    ASSUME TypeOK, NEW b \in Boxes, heap[b] # Free
    PROVE  heap[b] \in Item
BY DEF TypeOK

-----------------------------------------------------------------------------
LEMMA InitInv == Init => IndInv
BY DEF Init, IndInv, TypeOK, Calls, EntryInv, HeapInv, CallInv

\* Each step of a call keeps both indexes and the heap in step.
LEMMA NextInv == IndInv /\ [Next]_vars => IndInv'
<1> SUFFICES ASSUME IndInv, [Next]_vars PROVE IndInv'
  OBVIOUS
<1> USE DEF IndInv
<1>0. EntryOf(box) \in Entry /\ EntryOf(box).key = box /\ EntryOf(box).item = box
  BY EntryOfBox DEF TypeOK
<1>e. \A e \in map1 \cup map2 : e \in Entry /\ e.item \in Boxes /\ e.key = e.item
  BY EntryOfBox DEF TypeOK, EntryInv, Entry
<1>1. ASSUME NEW x \in Item, InsertRefused(x) PROVE IndInv'
  BY <1>1 DEF InsertRefused, Call, Calls, TypeOK, EntryInv, HeapInv, CallInv
<1>2. ASSUME NEW x \in Item, Insert(x) PROVE IndInv'
  <2> PICK b \in Boxes : heap[b] = Free /\ heap' = [heap EXCEPT ![b] = x] /\ box' = b
    BY <1>2 DEF Insert
  <2>1. op = "idle" /\ op' = "insert1" /\ map1' = map1 /\ map2' = map2 /\ answer' = answer /\ map1 = map2
    BY <1>2 DEF Insert, CallInv
  <2>2. heap'[b] = x /\ x # Free /\ \A c \in Boxes \ {b} : heap'[c] = heap[c]
    BY FreeAssumption DEF TypeOK, Item
  <2>3. \A e \in map1 \cup map2 : e.item # b /\ heap'[e.item] = heap[e.item]
    BY <1>e, <2>2 DEF EntryInv
  <2>4. \A e \in map1 : heap[e.item].k1 # x.k1 /\ heap[e.item].k2 # x.k2
    BY <1>2, <1>e, <2>1 DEF Insert, Find1, Find2
  <2>5. TypeOK'
    BY <1>2, <2>1 DEF TypeOK, Insert, Call, Calls
  <2>6. EntryInv'
    BY <2>1, <2>3 DEF EntryInv
  <2>7. HeapInv'
    BY <2>1, <2>2 DEF HeapInv
  <2>8. CallInv'
    BY <2>1, <2>2, <2>3, <2>4 DEF CallInv
  <2> QED BY <2>5, <2>6, <2>7, <2>8
<1>3. ASSUME InsertIndex1 PROVE IndInv'
  <2>1. Find1(heap[box].k1) = {}
    BY <1>3, <1>e DEF InsertIndex1, Find1, CallInv
  <2>2. map1' = map1 \cup {EntryOf(box)}
    BY <1>3, <2>1 DEF InsertIndex1, Put
  <2>3. TypeOK'
    BY <1>3, <1>0, <2>2 DEF InsertIndex1, TypeOK
  <2>4. EntryInv'
    BY <1>3, <1>0, <2>2 DEF InsertIndex1, EntryInv, HeapInv, CallInv
  <2>5. HeapInv'
    BY <1>3 DEF InsertIndex1, HeapInv
  <2>6. CallInv'
    BY <1>3, <2>2 DEF InsertIndex1, CallInv
  <2> QED BY <2>3, <2>4, <2>5, <2>6
<1>4. ASSUME InsertIndex2 PROVE IndInv'
  <2>1. Find2(heap[box].k2) = {}
    BY <1>4, <1>e DEF InsertIndex2, Find2, CallInv
  <2>2. map2' = map2 \cup {EntryOf(box)}
    BY <1>4, <2>1 DEF InsertIndex2, Put
  <2>3. TypeOK'
    BY <1>4, <1>0, <2>2 DEF InsertIndex2, TypeOK
  <2>4. EntryInv'
    BY <1>4, <1>0, <2>2 DEF InsertIndex2, EntryInv, HeapInv, CallInv
  <2>5. HeapInv'
    BY <1>4, <2>2 DEF InsertIndex2, HeapInv
  <2>6. CallInv'
    BY <1>4, <2>2 DEF InsertIndex2, CallInv
  <2> QED BY <2>3, <2>4, <2>5, <2>6
<1>5. ASSUME NEW k \in K1, Get1(k) PROVE IndInv'
  <2>1. PICK e \in map1 : answer' = heap[e.item].v
    BY <1>5 DEF Get1, Find1
  <2>2. answer' \in V
    BY <1>e, <2>1, LiveItem DEF EntryInv, Item
  <2> QED BY <1>5, <2>2 DEF Get1, Call, Calls, TypeOK, EntryInv, HeapInv, CallInv
<1>6. ASSUME NEW k \in K2, Get2(k) PROVE IndInv'
  <2>1. PICK e \in map2 : answer' = heap[e.item].v
    BY <1>6 DEF Get2, Find2
  <2>2. answer' \in V
    BY <1>e, <2>1, LiveItem DEF EntryInv, Item
  <2> QED BY <1>6, <2>2 DEF Get2, Call, Calls, TypeOK, EntryInv, HeapInv, CallInv
<1>7. ASSUME NEW k \in K1 \cup K2, (k \in K1 /\ NotFound1(k)) \/ (k \in K2 /\ NotFound2(k))
      PROVE  IndInv'
  BY <1>7 DEF NotFound1, NotFound2, Call, Calls, TypeOK, EntryInv, HeapInv, CallInv
<1>8. ASSUME NEW k \in K1, Remove1(k) PROVE IndInv'
  <2> PICK e \in map1 : map1' = map1 \ {e} /\ box' = e.item
    BY <1>8 DEF Remove1, Find1
  <2>1. op = "idle" /\ op' = "remove1" /\ map1 = map2 /\ UNCHANGED <<heap, map2, answer>>
    BY <1>8 DEF Remove1, CallInv
  <2>2. e = EntryOf(e.item) /\ e.item \in Boxes /\ heap[e.item] # Free
    BY <1>e DEF EntryInv
  <2>3. TypeOK'
    BY <1>8, <2>1, <2>2 DEF TypeOK, Remove1, Call, Calls
  <2>4. EntryInv' /\ HeapInv' /\ CallInv'
    BY <2>1, <2>2 DEF EntryInv, HeapInv, CallInv
  <2> QED BY <2>3, <2>4
<1>9. ASSUME NEW k \in K2, Remove2(k) PROVE IndInv'
  <2> PICK e \in map2 : map2' = map2 \ {e} /\ box' = e.item
    BY <1>9 DEF Remove2, Find2
  <2>1. op = "idle" /\ op' = "remove2" /\ map1 = map2 /\ UNCHANGED <<heap, map1, answer>>
    BY <1>9 DEF Remove2, CallInv
  <2>2. e = EntryOf(e.item) /\ e.item \in Boxes /\ heap[e.item] # Free
    BY <1>e DEF EntryInv
  <2>3. TypeOK'
    BY <1>9, <2>1, <2>2 DEF TypeOK, Remove2, Call, Calls
  <2>4. EntryInv' /\ CallInv'
    BY <2>1, <2>2 DEF EntryInv, CallInv
  <2>5. HeapInv'
    BY <2>1, <2>2, EntryOfBox DEF HeapInv
  <2> QED BY <2>3, <2>4, <2>5
<1>10. ASSUME RemoveOther PROVE IndInv'
  <2>1. op \in {"remove1", "remove2"} /\ op' = "free" /\ UNCHANGED <<heap, box, call, answer>>
    BY <1>10 DEF RemoveOther
  <2>2. EntryOf(box) \in map1 \cup map2 /\ map1' = map1 \ {EntryOf(box)} /\ map2' = map2 \ {EntryOf(box)}
    <3>1. CASE op = "remove1"
      <4>1. EntryOf(box) \in map2 /\ EntryOf(box) \notin map1
        BY <3>1 DEF CallInv
      <4>2. Find2(heap[box].k2) = {EntryOf(box)}
        BY <1>0, <1>e, <4>1 DEF Find2, EntryInv
      <4> QED BY <1>10, <3>1, <4>1, <4>2 DEF RemoveOther
    <3>2. CASE op = "remove2"
      <4>1. EntryOf(box) \in map1 /\ EntryOf(box) \notin map2
        BY <3>2 DEF CallInv
      <4>2. Find1(heap[box].k1) = {EntryOf(box)}
        BY <1>0, <1>e, <4>1 DEF Find1, EntryInv
      <4> QED BY <1>10, <3>2, <4>1, <4>2 DEF RemoveOther
    <3> QED BY <2>1, <3>1, <3>2
  <2>3. TypeOK'
    BY <2>1, <2>2 DEF TypeOK
  <2>4. EntryInv'
    BY <2>1, <2>2 DEF EntryInv
  <2>5. HeapInv'
    BY <1>0, <2>1, <2>2, EntryOfBox DEF HeapInv, TypeOK
  <2>6. CallInv'
    BY <2>1, <2>2 DEF CallInv
  <2> QED BY <2>3, <2>4, <2>5, <2>6
<1>11. ASSUME FreeBox PROVE IndInv'
  <2>1. /\ op = "free" /\ op' = "idle" /\ UNCHANGED <<map1, map2, box, call>>
        /\ heap' = [heap EXCEPT ![box] = Free] /\ answer' = heap[box].v
        /\ map1 = map2 /\ EntryOf(box) \notin map1 /\ box \in Boxes
    BY <1>11 DEF FreeBox, CallInv, TypeOK
  <2>2. \A e \in map1 \cup map2 : e.item # box /\ heap'[e.item] = heap[e.item]
    BY <1>e, <2>1 DEF EntryInv, TypeOK
  <2>3. answer' \in V
    BY <2>1, LiveItem DEF HeapInv, Item
  <2>4. TypeOK'
    BY <2>1, <2>3 DEF TypeOK
  <2>5. EntryInv'
    BY <2>1, <2>2 DEF EntryInv
  <2>6. HeapInv' /\ CallInv'
    BY <2>1 DEF HeapInv, CallInv, TypeOK
  <2> QED BY <2>4, <2>5, <2>6
<1>12. ASSUME DropClear PROVE IndInv'
  BY <1>12 DEF DropClear, TypeOK, EntryInv, HeapInv, CallInv
<1>13. ASSUME NEW d \in Entry, DropItem(d) PROVE IndInv'
  <2>1. /\ op = "drop" /\ d \in map2 /\ map2' = map2 \ {d}
        /\ heap' = [heap EXCEPT ![d.item] = Free] /\ UNCHANGED <<map1, op, box, call, answer>>
        /\ map1 = {} /\ d.item \in Boxes /\ d = EntryOf(d.item)
    BY <1>13, <1>e DEF DropItem, CallInv, EntryInv
  <2>2. \A e \in map2' : e.item # d.item /\ heap'[e.item] = heap[e.item]
    BY <1>e, <2>1 DEF EntryInv, TypeOK
  <2>3. TypeOK'
    BY <2>1 DEF TypeOK
  <2>4. EntryInv'
    BY <2>1, <2>2 DEF EntryInv
  <2>5. HeapInv' /\ CallInv'
    BY <2>1, EntryOfBox DEF HeapInv, CallInv, TypeOK
  <2> QED BY <2>3, <2>4, <2>5
<1>14. CASE UNCHANGED vars
  BY <1>14 DEF vars, TypeOK, EntryInv, HeapInv, CallInv
<1>15. QED
  BY <1>1, <1>2, <1>3, <1>4, <1>5, <1>6, <1>7, <1>8, <1>9, <1>10, <1>11, <1>12,
     <1>13, <1>14 DEF Next

LEMMA Invariance == Spec => []IndInv
BY InitInv, NextInv, PTL DEF Spec

\* Memory safety of MultiMap (multi_map.rs:24, 73, 97, 104, 115): no index ever
\* points into a freed box and no box leaks.
THEOREM Safe == Spec => []MemorySafe
<1>1. IndInv => MemorySafe
  <2> SUFFICES ASSUME IndInv PROVE MemorySafe
    OBVIOUS
  <2>1. \A e \in map1 \cup map2 : e.item \in Boxes /\ e.key = e.item
    BY EntryOfBox DEF IndInv, TypeOK, EntryInv, Entry
  <2>2. \A e \in map1 \cup map2 : e.key \in Live /\ e.item \in Live
    BY <2>1 DEF IndInv, EntryInv, Live
  <2>3. op \notin {"idle", "drop"} => box \in Live
    BY DEF IndInv, HeapInv, Live, TypeOK
  <2>4. op \in {"idle", "drop"} => Live = {e.item : e \in map2}
    BY <2>2, EntryOfBox DEF IndInv, HeapInv, Live
  <2> QED BY <2>2, <2>3, <2>4 DEF MemorySafe
<1>2. QED
  BY <1>1, Invariance, PTL

-----------------------------------------------------------------------------
(* Refinement *)

\* The items and the last call of the abstract map.
ItemsBar == {heap[e.item] : e \in map1 \cap map2} \cup
            (IF op \in {"insert1", "insert2"} THEN {heap[box]} ELSE {})
ResultBar == IF op \in {"insert1", "insert2"} THEN Ok
             ELSE IF op \in {"remove1", "remove2", "free"} THEN heap[box].v
             ELSE answer
LastBar == [call |-> call.name, arg |-> call.arg, result |-> ResultBar]
AliveBar == op # "drop"

\* Between calls the abstract map finds under a key what the index finds.
LEMMA IdleFinds ==
    ASSUME IndInv, op = "idle"
    PROVE  /\ map1 = map2 /\ ItemsBar = {heap[e.item] : e \in map1} /\ ItemsBar \subseteq Item
           /\ \A k : Bi!Found1(k) = {heap[e.item] : e \in Find1(k)}
           /\ \A k : Bi!Found2(k) = {heap[e.item] : e \in Find2(k)}
<1>1. map1 = map2
  BY DEF IndInv, CallInv
<1>2. \A e \in map1 : e.item \in Boxes /\ e.key = e.item /\ heap[e.item] \in Item
  BY EntryOfBox DEF IndInv, TypeOK, EntryInv, Entry
<1>3. ItemsBar = {heap[e.item] : e \in map1}
  BY <1>1 DEF ItemsBar
<1>4. \A k : {x \in ItemsBar : x.k1 = k} = {heap[e.item] : e \in Find1(k)}
  BY <1>2, <1>3 DEF Find1
<1>5. \A k : {x \in ItemsBar : x.k2 = k} = {heap[e.item] : e \in Find2(k)}
  BY <1>1, <1>2, <1>3 DEF Find2
<1> QED BY <1>1, <1>2, <1>3, <1>4, <1>5 DEF Bi!Found1, Bi!Found2, ItemsBar

\* A call's later steps are no steps of the abstract map.
LEMMA Stutters ==
    ASSUME ItemsBar' = ItemsBar, call' = call, ResultBar' = ResultBar, AliveBar' = AliveBar
    PROVE  UNCHANGED Bi!vars
BY DEF Bi!vars, ItemsBar, ResultBar, AliveBar

\* The first step of a call is the abstract map's call with the same argument and
\* result; the others leave it alone.
LEMMA Simulation == IndInv /\ IndInv' /\ [Next]_vars => [Bi!Next]_(Bi!vars)
<1> SUFFICES ASSUME IndInv, IndInv', [Next]_vars PROVE [Bi!Next]_(Bi!vars)
  OBVIOUS
<1>b. Bi!Item = Item
  BY DEF Bi!Item, Item
<1>e. \A e \in map1 \cup map2 : /\ e.item \in Boxes /\ e.key = e.item /\ e = EntryOf(e.item)
                               /\ heap[e.item] \in Item
  BY EntryOfBox DEF IndInv, TypeOK, EntryInv, Entry
<1>1. ASSUME NEW x \in Item, InsertRefused(x) PROVE Bi!Insert(x)
  <2>1. /\ op = "idle" /\ UNCHANGED <<heap, map1, map2, op, box>> /\ answer' = Refused
        /\ call' = [name |-> "insert", arg |-> x] /\ (Find1(x.k1) # {} \/ Find2(x.k2) # {})
    BY <1>1 DEF InsertRefused, Call
  <2>2. Bi!Found1(x.k1) \cup Bi!Found2(x.k2) # {}
    <3>1. /\ Bi!Found1(x.k1) = {heap[e.item] : e \in Find1(x.k1)}
          /\ Bi!Found2(x.k2) = {heap[e.item] : e \in Find2(x.k2)}
      BY <2>1, IdleFinds
    <3>2. CASE Find1(x.k1) # {}
      <4> PICK e : e \in Find1(x.k1)
        BY <3>2
      <4>1. heap[e.item] \in Bi!Found1(x.k1)
        BY <3>1
      <4> QED BY <4>1
    <3>3. CASE Find2(x.k2) # {}
      <4> PICK e : e \in Find2(x.k2)
        BY <3>3
      <4>1. heap[e.item] \in Bi!Found2(x.k2)
        BY <3>1
      <4> QED BY <4>1
    <3> QED BY <2>1, <3>2, <3>3
  <2>3. ItemsBar' = ItemsBar
    BY <2>1 DEF ItemsBar
  <2>4. LastBar' = [call |-> "insert", arg |-> x, result |-> Refused]
    BY <2>1 DEF LastBar, ResultBar
  <2> QED BY <2>1, <2>2, <2>3, <2>4 DEF Bi!Insert, ItemsBar, LastBar, ResultBar
<1>2. ASSUME NEW x \in Item, Insert(x) PROVE Bi!Insert(x)
  <2> PICK b \in Boxes : heap[b] = Free /\ heap' = [heap EXCEPT ![b] = x] /\ box' = b
    BY <1>2 DEF Insert
  <2>1. /\ op = "idle" /\ op' = "insert1" /\ map1' = map1 /\ map2' = map2 /\ answer' = answer
        /\ call' = [name |-> "insert", arg |-> x] /\ Find1(x.k1) = {} /\ Find2(x.k2) = {}
    BY <1>2 DEF Insert, Call
  <2>2. Bi!Found1(x.k1) \cup Bi!Found2(x.k2) = {}
    BY <2>1, IdleFinds
  <2>3. \A e \in map1 \cup map2 : heap'[e.item] = heap[e.item]
    BY <1>e DEF IndInv, EntryInv, TypeOK
  <2>4. heap'[box'] = x
    BY DEF IndInv, TypeOK
  <2>5. ItemsBar' = ItemsBar \cup {x}
    BY <2>1, <2>3, <2>4 DEF ItemsBar
  <2>6. LastBar' = [call |-> "insert", arg |-> x, result |-> Ok]
    BY <2>1 DEF LastBar, ResultBar
  <2> QED BY <2>1, <2>2, <2>5, <2>6 DEF Bi!Insert, ItemsBar, LastBar, ResultBar
<1>3. ASSUME InsertIndex1 PROVE UNCHANGED Bi!vars
  <2>1. /\ map1 = map2 /\ map1' = map2 \cup {EntryOf(box)} /\ map2' = map2
        /\ op = "insert1" /\ op' = "insert2" /\ UNCHANGED <<heap, box, call, answer>>
    BY <1>3 DEF InsertIndex1, IndInv, CallInv
  <2>2. ItemsBar' = ItemsBar
    BY <2>1 DEF ItemsBar
  <2> QED BY <2>1, <2>2, Stutters DEF ResultBar, AliveBar
<1>4. ASSUME InsertIndex2 PROVE UNCHANGED Bi!vars
  <2>1. /\ map1 = map2 \cup {EntryOf(box)} /\ map1' = map1 /\ map2' = map1
        /\ op = "insert2" /\ op' = "idle" /\ UNCHANGED <<heap, box, call>> /\ answer' = Ok
    BY <1>4 DEF InsertIndex2, IndInv, CallInv
  <2>2. EntryOf(box).item = box
    BY EntryOfBox DEF IndInv, TypeOK
  <2>3. ItemsBar = {heap[e.item] : e \in map2} \cup {heap[box]}
    BY <2>1 DEF ItemsBar
  <2>4. ItemsBar' = {heap[e.item] : e \in map2 \cup {EntryOf(box)}}
    BY <2>1 DEF ItemsBar
  <2>5. ItemsBar' = ItemsBar
    BY <2>2, <2>3, <2>4
  <2> QED BY <2>1, <2>5, Stutters DEF ResultBar, AliveBar
<1>5. ASSUME NEW k \in K1, Get1(k) PROVE Bi!Get1(k)
  <2> PICK e \in Find1(k) : answer' = heap[e.item].v
    BY <1>5 DEF Get1
  <2>1. /\ op = "idle" /\ UNCHANGED <<heap, map1, map2, op, box>>
        /\ call' = [name |-> "get1", arg |-> k]
    BY <1>5 DEF Get1, Call
  <2>2. heap[e.item] \in Bi!Found1(k) /\ heap[e.item].v \in V
    BY <1>e, <2>1, IdleFinds DEF Find1, Item
  <2>3. ItemsBar' = ItemsBar /\ LastBar' = [call |-> "get1", arg |-> k, result |-> heap[e.item].v]
    BY <2>1 DEF ItemsBar, LastBar, ResultBar
  <2> QED BY <2>1, <2>2, <2>3 DEF Bi!Get1, Bi!Returns, ItemsBar, LastBar, ResultBar
<1>6. ASSUME NEW k \in K2, Get2(k) PROVE Bi!Get2(k)
  <2> PICK e \in Find2(k) : answer' = heap[e.item].v
    BY <1>6 DEF Get2
  <2>1. /\ op = "idle" /\ UNCHANGED <<heap, map1, map2, op, box>>
        /\ call' = [name |-> "get2", arg |-> k]
    BY <1>6 DEF Get2, Call
  <2>2. heap[e.item] \in Bi!Found2(k) /\ heap[e.item].v \in V
    BY <1>e, <2>1, IdleFinds DEF Find2, Item
  <2>3. ItemsBar' = ItemsBar /\ LastBar' = [call |-> "get2", arg |-> k, result |-> heap[e.item].v]
    BY <2>1 DEF ItemsBar, LastBar, ResultBar
  <2> QED BY <2>1, <2>2, <2>3 DEF Bi!Get2, Bi!Returns, ItemsBar, LastBar, ResultBar
<1>7. ASSUME NEW k \in K1, NotFound1(k) PROVE Bi!Get1(k) \/ Bi!Remove1(k)
  <2>1. op = "idle" /\ UNCHANGED <<heap, map1, map2, op, box>> /\ answer' = Missing
    BY <1>7 DEF NotFound1
  <2>2. Bi!Found1(k) = {}
    BY <1>7, <2>1, IdleFinds DEF NotFound1
  <2>3. ItemsBar' = ItemsBar /\ ItemsBar' = ItemsBar \ Bi!Found1(k)
    BY <2>1, <2>2 DEF ItemsBar
  <2>4. \E n \in {"get1", "remove1"} : LastBar' = [call |-> n, arg |-> k, result |-> Missing]
    BY <1>7, <2>1 DEF NotFound1, Call, LastBar, ResultBar
  <2> QED BY <2>1, <2>2, <2>3, <2>4 DEF Bi!Get1, Bi!Remove1, Bi!Returns, ItemsBar, LastBar, ResultBar
<1>8. ASSUME NEW k \in K2, NotFound2(k) PROVE Bi!Get2(k) \/ Bi!Remove2(k)
  <2>1. op = "idle" /\ UNCHANGED <<heap, map1, map2, op, box>> /\ answer' = Missing
    BY <1>8 DEF NotFound2
  <2>2. Bi!Found2(k) = {}
    BY <1>8, <2>1, IdleFinds DEF NotFound2
  <2>3. ItemsBar' = ItemsBar /\ ItemsBar' = ItemsBar \ Bi!Found2(k)
    BY <2>1, <2>2 DEF ItemsBar
  <2>4. \E n \in {"get2", "remove2"} : LastBar' = [call |-> n, arg |-> k, result |-> Missing]
    BY <1>8, <2>1 DEF NotFound2, Call, LastBar, ResultBar
  <2> QED BY <2>1, <2>2, <2>3, <2>4 DEF Bi!Get2, Bi!Remove2, Bi!Returns, ItemsBar, LastBar, ResultBar
<1>9. ASSUME NEW k \in K1, Remove1(k) PROVE Bi!Remove1(k)
  <2> PICK e \in Find1(k) : map1' = map1 \ {e} /\ box' = e.item
    BY <1>9 DEF Remove1
  <2>1. /\ op = "idle" /\ op' = "remove1" /\ UNCHANGED <<heap, map2, answer>> /\ map1 = map2
        /\ call' = [name |-> "remove1", arg |-> k] /\ e \in map1
    BY <1>9 DEF Remove1, Call, IndInv, CallInv, Find1
  <2>2. Find1(k) = {e}
    BY <1>e, <2>1 DEF Find1, IndInv, EntryInv
  <2>3. Bi!Found1(k) = {heap[e.item]} /\ heap[e.item].v \in V
    BY <1>e, <2>1, <2>2, IdleFinds DEF Item
  <2>4. ItemsBar = {heap[f.item] : f \in map1} /\ ItemsBar' = {heap[f.item] : f \in map1 \ {e}}
    BY <2>1 DEF ItemsBar
  <2>5. \A f \in map1 \ {e} : heap[f.item] # heap[e.item]
    BY <2>1 DEF IndInv, EntryInv
  <2>6. ItemsBar' = ItemsBar \ Bi!Found1(k)
    BY <2>1, <2>3, <2>4, <2>5
  <2>7. LastBar' = [call |-> "remove1", arg |-> k, result |-> heap[e.item].v]
    BY <2>1 DEF LastBar, ResultBar
  <2> QED BY <2>1, <2>3, <2>6, <2>7 DEF Bi!Remove1, Bi!Returns, ItemsBar, LastBar, ResultBar
<1>10. ASSUME NEW k \in K2, Remove2(k) PROVE Bi!Remove2(k)
  <2> PICK e \in Find2(k) : map2' = map2 \ {e} /\ box' = e.item
    BY <1>10 DEF Remove2
  <2>1. /\ op = "idle" /\ op' = "remove2" /\ UNCHANGED <<heap, map1, answer>> /\ map1 = map2
        /\ call' = [name |-> "remove2", arg |-> k] /\ e \in map2
    BY <1>10 DEF Remove2, Call, IndInv, CallInv, Find2
  <2>2. Find2(k) = {e}
    BY <1>e, <2>1 DEF Find2, IndInv, EntryInv
  <2>3. Bi!Found2(k) = {heap[e.item]} /\ heap[e.item].v \in V
    BY <1>e, <2>1, <2>2, IdleFinds DEF Item
  <2>4. ItemsBar = {heap[f.item] : f \in map2} /\ ItemsBar' = {heap[f.item] : f \in map2 \ {e}}
    BY <2>1 DEF ItemsBar
  <2>5. \A f \in map2 \ {e} : heap[f.item] # heap[e.item]
    BY <2>1 DEF IndInv, EntryInv
  <2>6. ItemsBar' = ItemsBar \ Bi!Found2(k)
    BY <2>1, <2>3, <2>4, <2>5
  <2>7. LastBar' = [call |-> "remove2", arg |-> k, result |-> heap[e.item].v]
    BY <2>1 DEF LastBar, ResultBar
  <2> QED BY <2>1, <2>3, <2>6, <2>7 DEF Bi!Remove2, Bi!Returns, ItemsBar, LastBar, ResultBar
<1>11. ASSUME RemoveOther PROVE UNCHANGED Bi!vars
  <2>1. /\ op \in {"remove1", "remove2"} /\ op' = "free" /\ UNCHANGED <<heap, box, call, answer>>
        /\ map1' = map2'
    BY <1>11 DEF RemoveOther, IndInv, CallInv
  <2>2. map1' \cap map2' = map1 \cap map2
    <3>1. CASE op = "remove1"
      BY <1>11, <2>1, <3>1 DEF RemoveOther, IndInv, CallInv
    <3>2. CASE op = "remove2"
      BY <1>11, <2>1, <3>2 DEF RemoveOther, IndInv, CallInv
    <3> QED BY <2>1, <3>1, <3>2
  <2>3. ItemsBar' = ItemsBar
    BY <2>1, <2>2 DEF ItemsBar
  <2> QED BY <2>1, <2>3, Stutters DEF ResultBar, AliveBar
<1>12. ASSUME FreeBox PROVE UNCHANGED Bi!vars
  <2>1. /\ op = "free" /\ op' = "idle" /\ UNCHANGED <<map1, map2, box, call>>
        /\ answer' = heap[box].v /\ heap' = [heap EXCEPT ![box] = Free]
        /\ map1 = map2 /\ EntryOf(box) \notin map1
    BY <1>12 DEF FreeBox, IndInv, CallInv
  <2>2. \A e \in map1 : heap'[e.item] = heap[e.item]
    BY <1>e, <2>1 DEF IndInv, TypeOK
  <2>3. ItemsBar' = ItemsBar
    BY <2>1, <2>2 DEF ItemsBar
  <2> QED BY <2>1, <2>3, Stutters DEF ResultBar, AliveBar
<1>13. ASSUME DropClear PROVE Bi!Clear
  <2>1. /\ op = "idle" /\ op' = "drop" /\ map1' = {} /\ UNCHANGED <<heap, map2, box, call, answer>>
    BY <1>13 DEF DropClear
  <2>2. ItemsBar' = {} /\ LastBar' = LastBar
    BY <2>1 DEF ItemsBar, LastBar, ResultBar
  <2> QED BY <2>1, <2>2 DEF Bi!Clear, ItemsBar, LastBar, ResultBar
<1>14. ASSUME NEW d \in Entry, DropItem(d) PROVE UNCHANGED Bi!vars
  <2>1. op = "drop" /\ map1 = {} /\ UNCHANGED <<map1, op, box, call, answer>>
    BY <1>14 DEF DropItem, IndInv, CallInv
  <2>2. ItemsBar' = ItemsBar
    BY <2>1 DEF ItemsBar
  <2> QED BY <2>1, <2>2, Stutters DEF ResultBar, AliveBar
<1>15. CASE UNCHANGED vars
  <2>1. ItemsBar' = ItemsBar /\ ResultBar' = ResultBar /\ AliveBar' = AliveBar /\ call' = call
    BY <1>15 DEF vars, ItemsBar, ResultBar, AliveBar
  <2> QED BY <2>1, Stutters
<1>16. QED
  BY <1>b, <1>1, <1>2, <1>3, <1>4, <1>5, <1>6, <1>7, <1>8, <1>9, <1>10, <1>11, <1>12,
     <1>13, <1>14, <1>15 DEF Next, Bi!Next

\* MultiMap implements a map with two keys (multi_map.rs:9-11): whatever the
\* sequence of calls, each call returns what one set of items has under the very
\* key it was given, and refuses an item only if one of its keys is taken.
THEOREM Implements == Spec => TwoKeyMap
<1>1. Init => Bi!Init
  BY DEF Init, Bi!Init
<1>2. QED
  BY <1>1, Invariance, Simulation, PTL DEF Spec, TwoKeyMap, Bi!Spec
=============================================================================
