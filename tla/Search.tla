-------------------------------- MODULE Search --------------------------------
(***************************************************************************)
(* What the search for a guide path works on: the nodes of                 *)
(* src/default_planner/search_node.h, of which there is one for each cell  *)
(* (Memory.h), and the binary heap of open nodes (heap.h) with the order   *)
(* of astar, which tosses a coin between equal nodes.  Heap operations are *)
(* sets: the heaps that they may leave.                                    *)
(***************************************************************************)
EXTENDS Heuristics

(* The depth of a node is its g: both count steps.                         *)
Node(g, h, op_flow, all_vertex_flow, parent, tie_breaker) ==
  [g |-> g, h |-> h, op_flow |-> op_flow, all_vertex_flow |-> all_vertex_flow,
   closed |-> FALSE, parent |-> parent, tie_breaker |-> tie_breaker]

get_f(n) == n.g + n.h
get_all(n) == n.op_flow + n.all_vertex_flow + get_f(n)

(* re_of, the rule for a node found anew.                                  *)
re(lhs, rhs) == get_all(lhs) < get_all(rhs)

(* cmp_less_of                                                             *)
Key(n) == <<get_all(n), get_f(n), -n.g, n.tie_breaker>>
Before(x, y) == \E k \in 1..4 : /\ Key(x)[k] < Key(y)[k]
                                /\ \A j \in 1..k-1 : Key(x)[j] = Key(y)[j]
MayPrecede(x, y) == ~Before(y, x)
MayNotPrecede(x, y) == ~Before(x, y)

-----------------------------------------------------------------------------
(* The heap, a sequence of cells: the children of the i-th are the 2i-th   *)
(* and the next.                                                           *)

(* i, its parent, and so on up to the root.                                *)
Lineage(i) ==
  LET up[k \in 0..i] == IF k = 0 THEN i ELSE up[k-1] \div 2
  IN  {up[k] : k \in 0..i} \ {0}

(* The last one goes up to j, and those on its way down.                   *)
Raised(heap, i, j) ==
  [k \in DOMAIN heap |-> IF k = j THEN heap[i]
                         ELSE IF k \in Lineage(i) /\ k > j THEN heap[k \div 2]
                         ELSE heap[k]]

heapify_up(mem, heap, i) ==
  {Raised(heap, i, j) : j \in
     {j \in Lineage(i) :
        /\ \A k \in Lineage(i) :
             k > j => MayPrecede(mem[heap[i]], mem[heap[k \div 2]])
        /\ j > 1 => MayNotPrecede(mem[heap[i]], mem[heap[j \div 2]])}}

(* The first one goes down to j, and those on its way up.                  *)
Sunk(heap, j) ==
  [k \in DOMAIN heap |->
     IF k = j THEN heap[1]
     ELSE IF k \in Lineage(j)
       THEN heap[CHOOSE c \in Lineage(j) : c > 1 /\ c \div 2 = k]
     ELSE heap[k]]

heapify_down(mem, heap) ==
  LET Sibling(k) == IF k % 2 = 0 THEN k + 1 ELSE k - 1
      \* the code may choose the child k rather than its sibling
      Chosen(k) == \/ Sibling(k) \notin DOMAIN heap
                   \/ MayPrecede(mem[heap[k]], mem[heap[Sibling(k)]])
      Children(j) == {2*j, 2*j + 1} \cap DOMAIN heap
  IN  {Sunk(heap, j) : j \in
        {j \in DOMAIN heap :
           /\ \A k \in Lineage(j) \ {1} :
                Chosen(k) /\ MayPrecede(mem[heap[k]], mem[heap[1]])
           /\ \/ Children(j) = {}
              \/ \E k \in Children(j) :
                   Chosen(k) /\ MayNotPrecede(mem[heap[k]], mem[heap[1]])}}

(* Slip: the node stays last. *)
pushLast(mem, heap, id) == {Append(heap, id)}

push(mem, heap, id) == heapify_up(mem, Append(heap, id), Len(heap) + 1)

(* Slip: the node is put in once more. *)
decrease_keyAgain(mem, heap, id) == push(mem, heap, id)

decrease_key(mem, heap, id) ==
  heapify_up(mem, heap, CHOOSE i \in DOMAIN heap : heap[i] = id)

(* The heap without its first node.                                        *)
pop(mem, heap) ==
  IF Len(heap) = 1 THEN {<<>>}
  ELSE heapify_down(mem, [Front(heap) EXCEPT ![1] = Last(heap)])
===============================================================================
