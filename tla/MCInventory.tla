---------------------------- MODULE MCInventory ----------------------------
(* A small instance of Inventory.  One device is made a favourite, the      *)
(* other is put into the group; either may be activated or deactivated.     *)
EXTENDS Inventory

CONSTANT g1

MCRequests ==
  [op : {"patch"}, ain : {1}, field : {"is_favorite"}, val : BOOLEAN]
    \cup {[op |-> "patch", ain |-> 1, field |-> "is_active", val |-> FALSE],
          [op |-> "patch", ain |-> 2, field |-> "is_active", val |-> TRUE],
          [op |-> "join", group |-> g1, ain |-> 2],
          [op |-> "leave", group |-> g1, ain |-> 2],
          [op |-> "delete", group |-> g1]}

=============================================================================
