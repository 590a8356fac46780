------------------------------ MODULE IvyLists ------------------------------
(***************************************************************************)
(* The nodes of a client's list srcRegList under the macros of list.h, and *)
(* the two nested walks of ivy.c over it: delOneClient walks the list with *)
(* the next node saved, and for each node calls delRegexpForOneClient,     *)
(* which walks the same list and removes every node of that id.            *)
(***************************************************************************)
EXTENDS Naturals, Sequences, Sublists

CONSTANTS
  Nodes,       \* the addresses malloc can return
  Ids,         \* the ids of bindings
  Change       \* an id may be announced again with another text (IvyChangeMsg)

VARIABLES
  head, next, id,  \* the list
  alloc,           \* the nodes that are allocated
  cur, nxt,        \* delOneClient's walk: the node, and the saved next
  walking

listVars == <<head, next, id, alloc>>
vars == <<listVars, cur, nxt, walking>>

NULL == "null"

(* The nodes that IVY_LIST_EACH visits from p on: it reads allocated ones. *)
Chain[p \in alloc \union {NULL}] ==
  IF p = NULL THEN <<>> ELSE <<p>> \o Chain[next[p]]
AsIds == LET s == Chain[head] IN [k \in DOMAIN s |-> id[s[k]]]
InList == {Chain[head][k] : k \in DOMAIN Chain[head]}

(* Mutant: the new node does not point to the old head. *)
ListAddLost(p, i) ==
  /\ head' = p /\ next' = [next EXCEPT ![p] = NULL] /\ id' = [id EXCEPT ![p] = i]
  /\ alloc' = alloc \union {p}

(* IVY_LIST_ADD_START, IVY_LIST_ADD_END.                                   *)
ListAdd(p, i) ==
  /\ head' = p /\ next' = [next EXCEPT ![p] = head] /\ id' = [id EXCEPT ![p] = i]
  /\ alloc' = alloc \union {p}

(* IVY_LIST_REMOVE of each node of R in turn: the predecessor is relinked  *)
(* and the node freed.  The next node that stays is skipped to.            *)
Unlinked(R) ==
  LET s == Chain[head]
      keeps == Sublist(s, {k \in DOMAIN s : s[k] \notin R})
      after(k) == IF k = Len(keeps) THEN NULL ELSE keeps[k + 1]
  IN  [hd |-> IF keeps = <<>> THEN NULL ELSE keeps[1],
       nx |-> [p \in Nodes |-> IF \E k \in DOMAIN keeps : keeps[k] = p
                               THEN after(CHOOSE k \in DOMAIN keeps : keeps[k] = p)
                               ELSE next[p]],
       freed |-> R]

(* delRegexpForOneClient(client, i).                                       *)
delRegexpForOneClient(i) ==
  LET u == Unlinked({p \in InList : id[p] = i})
  IN  /\ head' = u.hd /\ next' = u.nx
      /\ alloc' = alloc \ u.freed
      /\ UNCHANGED id

-----------------------------------------------------------------------------
(* addRegexp: the client announces a binding.                              *)
addRegexp(i) ==
  /\ ~walking
  /\ Change \/ \A p \in InList : id[p] # i
  /\ \E p \in Nodes \ alloc : ListAdd(p, i)
  /\ UNCHANGED <<cur, nxt, walking>>

(* DelRegexp: the client removes one.                                      *)
DelRegexp(i) ==
  /\ ~walking /\ \E p \in InList : id[p] = i
  /\ delRegexpForOneClient(i)
  /\ UNCHANGED <<cur, nxt, walking>>

(* Mutant: the node itself is saved, not its next. *)
delOneClientUnsaved ==
  /\ ~walking /\ walking' = TRUE
  /\ cur' = head /\ nxt' = head
  /\ UNCHANGED listVars

(* delOneClient: p = list, and nxt = p->next before the body.              *)
delOneClient ==
  /\ ~walking /\ walking' = TRUE
  /\ cur' = head /\ nxt' = IF head = NULL THEN NULL ELSE next[head]
  /\ UNCHANGED listVars

(* The body of the loop, p = nxt, and the new nxt is read from p.  A node  *)
(* that was freed has what its memory last held.                           *)
Walk ==
  /\ walking /\ cur # NULL
  /\ delRegexpForOneClient(id[cur])
  /\ cur' = nxt /\ nxt' = IF nxt = NULL THEN NULL ELSE next'[nxt]
  /\ UNCHANGED walking

(* IVY_LIST_EMPTY: what is left is freed, and the client's record too.     *)
WalkEnd ==
  /\ walking /\ cur = NULL
  /\ alloc' = alloc \ InList /\ head' = NULL
  /\ walking' = FALSE
  /\ UNCHANGED <<next, id, cur, nxt>>

Init ==
  /\ head = NULL /\ next = [p \in Nodes |-> NULL]
  /\ id \in {[p \in Nodes |-> i] : i \in Ids}
  /\ alloc = {} /\ cur = NULL /\ nxt = NULL /\ walking = FALSE

Next == \/ \E i \in Ids : addRegexp(i) \/ DelRegexp(i)
        \/ delOneClient \/ Walk \/ WalkEnd

Spec == Init /\ [][Next]_vars

-----------------------------------------------------------------------------
(* The allocated nodes are those of the list.                              *)
TypeOK ==
  /\ head \in Nodes \union {NULL} /\ cur \in Nodes \union {NULL}
  /\ alloc = InList /\ walking \in BOOLEAN

(* Whatever the nested walk removes, the node the outer one stands on and  *)
(* the next one it saved are not freed ones.                               *)
WalkLive == walking => {cur, nxt} \subseteq alloc \union {NULL}

List == INSTANCE RegListSpec WITH ids <- AsIds

(* The linked nodes are the sequence of ids that IvyRegistry takes the     *)
(* list for.                                                               *)
ImplementsList == List!Spec
=============================================================================
