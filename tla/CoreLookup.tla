----------------------------- MODULE CoreLookup -----------------------------
(***************************************************************************)
(* The list of cores the host software builds by probing the address space *)
(* and its searches by name, src/core/platform/novena/sw/capability.c, and *)
(* the search hash.c makes with them.  The list is a sequence of records   *)
(* [name, version, base]; a name is the sequence of its parts, so that     *)
(* strncmp over the length of the name sought is the prefix relation.      *)
(***************************************************************************)
EXTENDS Naturals, SequencesExt

\* Absence of a node: the NULL pointer.
NULL == 0

\* The node after one of the list, NULL after the last.
NextNode(found, node) == IF node < Len(found) THEN node + 1 ELSE NULL

\* The first node after one of the list whose name begins with the name
\* sought.  (The node itself is not looked at.)
tc_core_find(found, node, name) ==
    LET matches == {n \in node + 1 .. Len(found) : IsPrefix(name, found[n].name)}
    IN  IF matches = {} THEN NULL ELSE Min(matches)

\* The first core of that name, the head of the list being the board's own.
tc_core_first(found, name) ==
    IF found = <<>> THEN NULL ELSE tc_core_find(found, 1, name)

\* The search goes on from the node AFTER the neighbour of the one given.  A
\* node with no neighbour is no place to go on from: the program crashes.
NoNeighbour(found, node) == NextNode(found, node) = NULL
tc_core_next(found, node, name) == tc_core_find(found, NextNode(found, node), name)

\* The base of the first core of that name, 0 when there is none.
tc_core_base(found, name) ==
    IF tc_core_first(found, name) = NULL THEN 0
    ELSE found[tc_core_first(found, name)].base

-----------------------------------------------------------------------------
(* init of hash.c goes through the cores whose names begin with "sha".     *)

\* The nodes visited; the last one is NULL, or a node the program crashes on.
HashScan(found) ==
    LET scan[node \in NULL .. Len(found)] ==
            IF node = NULL \/ NoNeighbour(found, node) THEN <<node>>
            ELSE <<node>> \o scan[tc_core_next(found, node, <<"sha">>)]
    IN  scan[tc_core_first(found, <<"sha">>)]

ScanCrashes(found) == Last(HashScan(found)) # NULL

\* patch: the last node visited that has the name gives the base.
ScannedBase(found, name) ==
    LET hits == {k \in 1 .. Len(HashScan(found)) :
                    /\ HashScan(found)[k] # NULL
                    /\ found[HashScan(found)[k]].name = name}
    IN  IF hits = {} THEN 0 ELSE found[HashScan(found)[Max(hits)]].base
=============================================================================
