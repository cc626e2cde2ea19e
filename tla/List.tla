--------------------------------- MODULE List ---------------------------------
(***************************************************************************)
(* list_t (src/helpers/list/list.c): a doubly linked list with a cursor of *)
(* its own.  The operators take and return the struct, whose nodes are in  *)
(* node, by address; the actions are the calls of one thread.              *)
(*                                                                         *)
(* Values are never NULL: a NULL in a list ends every loop over it.  The   *)
(* callbacks are equal_fn, as the pairs that it accepts, and a copy_fn and *)
(* a destroy_fn that do nothing.                                           *)
(***************************************************************************)
EXTENDS Containers

CONSTANTS
    Addresses,   \* what malloc returns for a node; bounds the length
    Equal        \* the pairs that equal_fn accepts

ASSUME ListAssumption == Addresses \subseteq Nat /\ NULL \notin Addresses

VARIABLES
    list,         \* the struct and its nodes
    list_result,  \* of the last call: one value, or those of a copy
    walk,         \* of the loop "list_first, then list_next until NULL"
    due           \* the nodes that the loop has still to come to

list_vars == <<list, list_result, walk, due>>

make_list ==
    [node |-> <<>>, first |-> NULL, last |-> NULL, cursor |-> NULL, length |-> 0]

-----------------------------------------------------------------------------
(* Nodes *)

malloc(self) ==
    CHOOSE a \in Addresses \ DOMAIN self.node :
      \A b \in Addresses \ DOMAIN self.node : a <= b

\* The nodes with a new one at address a.
with_node(node, a, prev, next, value) ==
    [b \in DOMAIN node \cup {a} |->
       IF b = a THEN [prev |-> prev, next |-> next, value |-> value]
       ELSE node[b]]

without_node(node, a) == [b \in DOMAIN node \ {a} |-> node[b]]

\* The nodes after node[a]->field = b, which the code skips for a NULL a.
linked(node, a, field, b) ==
    IF a = NULL THEN node ELSE [node EXCEPT ![a][field] = b]

\* The addresses that a loop from first along next comes to.
chain(self) ==
    LET size == Cardinality(DOMAIN self.node)
        upto[i \in 0 .. size] ==
          IF i = 0 THEN <<>>
          ELSE LET nodes == upto[i - 1]
                   next == IF nodes = <<>> THEN self.first
                           ELSE self.node[nodes[Len(nodes)]].next
               IN IF next \in DOMAIN self.node THEN Append(nodes, next) ELSE nodes
    IN upto[size]

values(self) ==
    LET nodes == chain(self)
    IN [i \in DOMAIN nodes |-> self.node[nodes[i]].value]

value_at(self, a) == IF a = NULL THEN NULL ELSE self.node[a].value

\* The first node whose value is v or which equal_fn accepts, or NULL.
matching(self, v) ==
    LET nodes == chain(self)
        found == {i \in DOMAIN nodes :
                    LET w == self.node[nodes[i]].value
                    IN w = v \/ <<w, v>> \in Equal}
    IN IF found = {} THEN NULL
       ELSE nodes[CHOOSE i \in found : \A j \in found : i <= j]

-----------------------------------------------------------------------------
(* The functions of list.c *)

list_push(self, value) ==
    LET a == malloc(self)
    IN [self EXCEPT
          !.node = linked(with_node(@, a, self.last, NULL, value),
                          self.last, "next", a),
          !.first = IF self.last = NULL THEN a ELSE @,
          !.last = a,
          !.length = @ + 1]

list_unshift(self, value) ==
    LET a == malloc(self)
    IN [self EXCEPT
          !.node = linked(with_node(@, a, NULL, self.first, value),
                          self.first, "prev", a),
          !.last = IF self.first = NULL THEN a ELSE @,
          !.first = a,
          !.length = @ + 1]

\* A slip: the cursor stays at the node that is freed.
list_pop_at_cursor(self) ==
    LET a == self.last
    IN IF a = NULL THEN self
       ELSE [self EXCEPT
               !.node = linked(without_node(@, a), @[a].prev, "next", NULL),
               !.first = IF @ = a THEN NULL ELSE @,
               !.last = self.node[a].prev,
               !.length = @ - 1]

list_pop(self) ==
    LET a == self.last
        left == [self EXCEPT !.cursor = IF @ = a THEN NULL ELSE @]
    IN IF a = NULL THEN left
       ELSE [left EXCEPT
               !.node = linked(without_node(@, a), @[a].prev, "next", NULL),
               !.first = IF @ = a THEN NULL ELSE @,
               !.last = self.node[a].prev,
               !.length = @ - 1]

list_shift(self) ==
    LET a == self.first
        left == [self EXCEPT !.cursor = IF @ = a THEN NULL ELSE @]
    IN IF a = NULL THEN left
       ELSE [left EXCEPT
               !.node = linked(without_node(@, a), @[a].next, "prev", NULL),
               !.last = IF @ = a THEN NULL ELSE @,
               !.first = self.node[a].next,
               !.length = @ - 1]

\* A slip: the cursor moves on instead of becoming NULL.
list_remove_moving_on(self, a) ==
    LET n == self.node[a]
        node == linked(linked(self.node, n.next, "prev", n.prev),
                       n.prev, "next", n.next)
    IN [self EXCEPT
          !.node = without_node(node, a),
          !.cursor = IF @ = a THEN n.next ELSE @,
          !.first = IF @ = a THEN n.next ELSE @,
          !.last = IF @ = a THEN n.prev ELSE @,
          !.length = @ - 1]

\* list_remove once it has found node a
list_remove(self, a) ==
    LET n == self.node[a]
        node == linked(linked(self.node, n.next, "prev", n.prev),
                       n.prev, "next", n.next)
    IN [self EXCEPT
          !.node = without_node(node, a),
          !.cursor = IF @ = a THEN NULL ELSE @,
          !.first = IF @ = a THEN n.next ELSE @,
          !.last = IF @ = a THEN n.prev ELSE @,
          !.length = @ - 1]

list_find(self, value) ==
    LET a == matching(self, value)
    IN [self EXCEPT !.cursor = IF a = NULL THEN self.first ELSE a]

list_next(self) ==
    [self EXCEPT !.cursor = IF @ = NULL THEN self.first ELSE self.node[@].next]

list_prev(self) ==
    [self EXCEPT !.cursor = IF @ = NULL THEN self.last ELSE self.node[@].prev]

\* The copies are lists that nothing else refers to: their values are enough.
list_copy(self) == values(self)

list_copy_reversed(self) ==
    [i \in DOMAIN values(self) |-> values(self)[self.length + 1 - i]]

-----------------------------------------------------------------------------
(* The program *)

ListInit ==
    /\ list = make_list
    /\ list_result = <<>>
    /\ walk = "no" /\ due = {}

Becomes(self, r) == list' = self /\ list_result' = <<r>>

NoWalk == walk' = "no" /\ due' = {}

\* What the loop has still to come to when the nodes change: those that were
\* there, and a new one at the end.
StillDue(added) ==
    /\ due' = IF walk = "going" THEN (due \cap DOMAIN list'.node) \cup added
              ELSE {}
    /\ walk' = IF walk = "going" THEN walk ELSE "no"

Push(v) ==
    /\ DOMAIN list.node # Addresses
    /\ Becomes(list_push(list, v), NULL)
    /\ StillDue({list'.last})

Unshift(v) ==
    /\ DOMAIN list.node # Addresses
    /\ Becomes(list_unshift(list, v), NULL)
    /\ StillDue({})

Pop == Becomes(list_pop(list), value_at(list, list.last)) /\ StillDue({})

Shift == Becomes(list_shift(list), value_at(list, list.first)) /\ StillDue({})

Remove(v) ==
    LET a == matching(list, v)
    IN /\ IF a = NULL THEN Becomes(list, FALSE)
          ELSE Becomes(list_remove(list, a), TRUE)
       /\ StillDue({})

\* The functions that leave the list as it is.
Ask ==
    /\ \/ \E v \in Values : Becomes(list, matching(list, v) # NULL)  \* list_has
       \/ \E i \in 0 .. list.length :                                \* list_get
            Becomes(list, IF i < list.length THEN values(list)[i + 1] ELSE NULL)
       \/ Becomes(list, list.cursor = list.last)           \* list_cursor_is_end
    /\ StillDue({})

Moved(self) == Becomes(self, value_at(self, self.cursor))

First ==
    /\ Moved([list EXCEPT !.cursor = list.first])
    /\ walk' = IF list.first = NULL THEN "ended" ELSE "going"
    /\ due' = DOMAIN list.node \ {list.first}

Forward ==
    /\ Moved(list_next(list))
    /\ IF walk = "going"
       THEN /\ walk' = IF list'.cursor = NULL THEN "ended" ELSE walk
            /\ due' = due \ {list'.cursor}
       ELSE NoWalk

Backward == Moved(list_prev(list)) /\ NoWalk

Final == Moved([list EXCEPT !.cursor = list.last]) /\ NoWalk

Find(v) ==
    /\ Becomes(list_find(list, v), value_at(list, matching(list, v)))
    /\ NoWalk

Copy ==
    /\ \E copy \in {list_copy(list), list_copy_reversed(list)} :
         list' = [list EXCEPT !.cursor = NULL] /\ list_result' = copy
    /\ NoWalk

Purge == Becomes(make_list, NULL) /\ NoWalk

ListNext ==
    \/ \E v \in Values : Push(v) \/ Unshift(v) \/ Remove(v) \/ Find(v)
    \/ Pop \/ Shift \/ Ask
    \/ First \/ Forward \/ Backward \/ Final
    \/ Copy \/ Purge

ListSpec == ListInit /\ [][ListNext]_list_vars

-----------------------------------------------------------------------------

PositionOfCursor ==
    LET nodes == chain(list)
    IN IF list.cursor = NULL THEN 0
       ELSE IF \E i \in DOMAIN nodes : nodes[i] = list.cursor
       THEN CHOOSE i \in DOMAIN nodes : nodes[i] = list.cursor
       ELSE -1

Sequence == INSTANCE CursorList
              WITH items <- values(list), at <- PositionOfCursor,
                   result <- list_result

\* The links in both directions, the two ends, the length and the cursor agree
\* with each other after any calls: list_t is a sequence with a cursor that
\* never points to a freed node (list.c:142-332).
ListIsSequence == Sequence!Spec

\* A loop of list_first and list_next may remove, pop, shift and push in its
\* body: list_next then starts again from the front when the node of the cursor
\* has left (list.c:156, 218), so values may come twice, but when the loop ends
\* none that is in the list has been missed, save those unshifted meanwhile.
NoneMissed == walk = "ended" => due = {}
=============================================================================
