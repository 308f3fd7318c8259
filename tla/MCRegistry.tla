----------------------------- MODULE MCRegistry -----------------------------
(* TLC instances of Registry: two users, five ports, eight user tables.    *)
EXTENDS Registry

Raw(lo, hi, tcp, udp) ==
    [block |-> <<lo, hi>>, tcp |-> {<<p, p>> : p \in tcp}, udp |-> {<<p, p>> : p \in udp}]

\* Blocks that are moved and shrunk between restarts, ports that are dropped
\* from the config, a number shared by tcp and udp, and a user who leaves.
\* Then tables to refuse: blocks that touch, contain each other or are equal, a
\* port 0, a block that is too small.
MCTables ==
    { [alice |-> Raw(1, 3, {2}, {2}), bob |-> Raw(4, 5, {4}, {})],
      [alice |-> Raw(4, 5, {4}, {}), bob |-> Raw(1, 2, {4}, {})],
      [alice |-> Raw(1, 2, {4}, {})],
      [alice |-> Raw(3, 5, {4}, {}), bob |-> Raw(1, 3, {2}, {})],
      [alice |-> Raw(1, 5, {2}, {}), bob |-> Raw(2, 3, {2}, {})],
      [alice |-> Raw(2, 3, {2}, {}), bob |-> Raw(2, 3, {2}, {})],
      [alice |-> Raw(0, 3, {2}, {})],
      [bob |-> Raw(4, 4, {2, 4}, {})] }

\* A write cut off after the first entry of alice, or after those of bob.
MCParts ==
    { {<<"alice", <<"tcp", 2>>>>},
      {"bob"} \X Keys }
=============================================================================
