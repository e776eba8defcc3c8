------------------------------ MODULE SrvList -------------------------------
(***************************************************************************)
(* The circular doubly linked list of ofproto/srv_list.h.  Its macros are  *)
(* several assignments through pointers that they are changing: each is an *)
(* operator that makes those assignments on the heap, one after the other. *)
(***************************************************************************)
EXTENDS Naturals, FiniteSets, Sequences, SequencesExt

CONSTANTS Nodes, Root, NULL

VARIABLE heap  \* pNext and pPrev of the root and of every node

Cells == Nodes \cup {Root}

-----------------------------------------------------------------------------

SetNext(h, e, x) == [h EXCEPT ![e].pNext = x]

SetPrev(h, e, x) == [h EXCEPT ![e].pPrev = x]

SRV_LIST_INIT_ROOT == [pNext |-> Root, pPrev |-> Root]

SRV_LIST_INIT_NODE == [pNext |-> NULL, pPrev |-> NULL]

\* The last two assignments of both insertions.
Link(h, e) == SetPrev(SetNext(h, h[e].pPrev, e), h[e].pNext, e)

\* Mutant of SRV_LIST_INSERT_AFTER: p's pointer is overwritten before it is
\* read.
InsertAfterLate(h, p, e) ==
  LET h1 == SetNext(h, p, e)
  IN  Link(SetPrev(SetNext(h1, e, h1[p].pNext), e, p), e)

SRV_LIST_INSERT_AFTER(h, p, e) ==
  LET h1 == SetNext(h, e, h[p].pNext)
  IN  Link(SetPrev(h1, e, p), e)

SRV_LIST_INSERT_BEFORE(h, n, e) ==
  LET h1 == SetNext(h, e, n)
  IN  Link(SetPrev(h1, e, h1[n].pPrev), e)

SRV_LIST_REMOVE(h, e) ==
  LET h1 == SetNext(h, h[e].pPrev, h[e].pNext)
      h2 == SetPrev(h1, h1[e].pNext, h1[e].pPrev)
  IN  SetNext(SetPrev(h2, e, NULL), e, NULL)

\* SRV_LIST_FOR_EACH: the nodes met from the root on, in either direction.
\* A walk that meets NULL or more nodes than there are goes wrong; it is cut
\* off there.
Visit(h, dir) ==
  LET Step(e) == IF dir = "next" THEN h[e].pNext ELSE h[e].pPrev
      Nth[k \in 0 .. Cardinality(Nodes) + 1] ==
        IF k = 0 THEN Root
        ELSE IF Nth[k - 1] = NULL THEN NULL ELSE Step(Nth[k - 1])
      Stops == {k \in 1 .. Cardinality(Nodes) + 1 : Nth[k] = Root}
      n == IF Stops = {} THEN Cardinality(Nodes) + 1
           ELSE (CHOOSE k \in Stops : \A l \in Stops : k <= l) - 1
  IN  [k \in 1 .. n |-> Nth[k]]

Linked(e) == heap[e].pNext # NULL

-----------------------------------------------------------------------------

Init == heap = [c \in Cells |-> IF c = Root THEN SRV_LIST_INIT_ROOT
                                ELSE SRV_LIST_INIT_NODE]

InsertAfter(p, e) ==
  /\ Linked(p)
  /\ ~Linked(e)
  /\ heap' = SRV_LIST_INSERT_AFTER(heap, p, e)

InsertBefore(n, e) ==
  /\ Linked(n)
  /\ ~Linked(e)
  /\ heap' = SRV_LIST_INSERT_BEFORE(heap, n, e)

RemoveNode(e) ==
  /\ Linked(e)
  /\ heap' = SRV_LIST_REMOVE(heap, e)

Next ==
  \E e \in Nodes :
    \/ \E c \in Cells : InsertAfter(c, e) \/ InsertBefore(c, e)
    \/ RemoveNode(e)

Spec == Init /\ [][Next]_heap

-----------------------------------------------------------------------------

Forward == Visit(heap, "next")

L == INSTANCE NodeList WITH list <- Forward

\* The macros implement a list of distinct nodes.
ImplementsList == L!Spec
=============================================================================
