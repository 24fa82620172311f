------------------------------- MODULE Batch --------------------------------
(***************************************************************************)
(* POST /$batch (internal/batch/batch.go): the checks on the envelope, the *)
(* depth-first sort of the sub-requests by dependsOn (executionOrder) and  *)
(* the dispatch of each one in that order.                                 *)
(*                                                                         *)
(* The recursion of visit is an explicit stack of activations, each with   *)
(* the dependencies it has still to look at.  dependsOn is a list; it is   *)
(* taken in any order, so every list with these members is covered.        *)
(*                                                                         *)
(* Wrong... definitions are mistaken variants, see ConnPool.               *)
(***************************************************************************)
EXTENDS Integers, Sequences

CONSTANTS
  RequestIds,        \* the ids of sub-requests, and those dependsOn may name
  NoId,              \* a missing id
  Bodies,            \* the lists of sub-requests that a client may send
  maxBatchRequests   \* the bound on their number

\* parses: the method and the URL make up a request line that http can parse.
Request == [id : RequestIds \cup {NoId}, dependsOn : SUBSET RequestIds, parses : BOOLEAN]

ASSUME BatchConstants ==
  /\ NoId \notin RequestIds
  /\ Bodies \subseteq Seq(Request)
  /\ maxBatchRequests \in Nat

VARIABLES
  decodes, \* the body is JSON and not too long
  reqs,    \* env.Requests
  pc,      \* decode, index, sort, run, done, rejected, panicked
  next,    \* the loop variable of executionOrder's outer loop
  state,   \* unvisited, visiting, done
  stack,   \* the activations of visit, innermost last
  order,   \* the indices in the order found so far
  served   \* the indices dispatched so far, in order

batchVars == <<decodes, reqs, pc, next, state, stack, order, served>>

BatchInit ==
  /\ decodes \in BOOLEAN
  /\ reqs \in IF decodes THEN Bodies ELSE {<<>>}
  /\ pc = "decode"
  /\ next = 1
  /\ state = [i \in DOMAIN reqs |-> "unvisited"]
  /\ stack = <<>>
  /\ order = <<>>
  /\ served = <<>>

\* 400: nothing is dispatched.
Reject == pc' = "rejected" /\ UNCHANGED <<decodes, reqs, next, state, stack, order, served>>

DecodeBody ==
  /\ pc = "decode"
  /\ IF ~ decodes \/ Len(reqs) > maxBatchRequests
     THEN Reject
     ELSE pc' = "index" /\ UNCHANGED <<decodes, reqs, next, state, stack, order, served>>

\* Every sub-request has an id of its own.
Indexed ==
  /\ \A i \in DOMAIN reqs : reqs[i].id # NoId
  /\ \A i, j \in DOMAIN reqs : reqs[i].id = reqs[j].id => i = j

Index ==
  /\ pc = "index"
  /\ IF Indexed
     THEN pc' = "sort" /\ UNCHANGED <<decodes, reqs, next, state, stack, order, served>>
     ELSE Reject

-----------------------------------------------------------------------------
(* executionOrder.                                                         *)

Activation(i) == [node |-> i, left |-> reqs[i].dependsOn]

\* visit(i), called with rest as the stack below it: nothing for a sub-request
\* that is done, an error for one that is being visited, else a new activation.
WrongVisitCycle(i, rest) ==
  CASE state[i] # "unvisited" -> stack' = rest /\ UNCHANGED <<state, pc>>
    [] OTHER -> /\ state' = [state EXCEPT ![i] = "visiting"]
                /\ stack' = Append(rest, Activation(i))
                /\ UNCHANGED pc

Visit(i, rest) ==
  CASE state[i] = "done" -> stack' = rest /\ UNCHANGED <<state, pc>>
    [] state[i] = "visiting" -> pc' = "rejected" /\ stack' = rest /\ UNCHANGED state
    [] OTHER -> /\ state' = [state EXCEPT ![i] = "visiting"]
                /\ stack' = Append(rest, Activation(i))
                /\ UNCHANGED pc

\* The outer loop.
VisitNext ==
  /\ pc = "sort"
  /\ stack = <<>>
  /\ next <= Len(reqs)
  /\ next' = next + 1
  /\ Visit(next, stack)
  /\ UNCHANGED <<decodes, reqs, order, served>>

Top == stack[Len(stack)]

Below == SubSeq(stack, 1, Len(stack) - 1)

WrongVisitDep(d) ==
  /\ pc = "sort"
  /\ stack # <<>>
  /\ d \in Top.left
  /\ \E i \in DOMAIN reqs : reqs[i].id = d /\ Visit(i, stack)
  /\ UNCHANGED <<decodes, reqs, next, order, served>>

\* The innermost activation looks at one of its dependencies.
VisitDep(d) ==
  /\ pc = "sort"
  /\ stack # <<>>
  /\ d \in Top.left
  /\ \E i \in DOMAIN reqs :
       reqs[i].id = d /\ Visit(i, Append(Below, [Top EXCEPT !.left = @ \ {d}]))
  /\ UNCHANGED <<decodes, reqs, next, order, served>>

UnknownDep ==
  /\ pc = "sort"
  /\ stack # <<>>
  /\ \E d \in Top.left : \A i \in DOMAIN reqs : reqs[i].id # d
  /\ Reject

WrongLeave ==
  /\ pc = "sort"
  /\ stack # <<>>
  /\ Top.left = {}
  /\ state' = [state EXCEPT ![Top.node] = "done"]
  /\ order' = <<Top.node>> \o order
  /\ stack' = Below
  /\ UNCHANGED <<decodes, reqs, pc, next, served>>

Leave ==
  /\ pc = "sort"
  /\ stack # <<>>
  /\ Top.left = {}
  /\ state' = [state EXCEPT ![Top.node] = "done"]
  /\ order' = Append(order, Top.node)
  /\ stack' = Below
  /\ UNCHANGED <<decodes, reqs, pc, next, served>>

Sorted ==
  /\ pc = "sort"
  /\ stack = <<>>
  /\ next > Len(reqs)
  /\ pc' = "run"
  /\ UNCHANGED <<decodes, reqs, next, state, stack, order, served>>

-----------------------------------------------------------------------------

\* The sub-request whose turn it is.
Current == order[Len(served) + 1]

\* It is served by the inner handler, whatever its status, and its response
\* appended.
Dispatch ==
  /\ pc = "run"
  /\ Len(served) < Len(order)
  /\ reqs[Current].parses
  /\ served' = Append(served, Current)
  /\ UNCHANGED <<decodes, reqs, pc, next, state, stack, order>>

\* httptest.NewRequest panics on a method or URL it cannot parse.  Nothing in
\* the program recovers: net/http drops the connection without an answer, and
\* what the sub-requests before it did stays done.
Panic ==
  /\ pc = "run"
  /\ Len(served) < Len(order)
  /\ ~ reqs[Current].parses
  /\ pc' = "panicked"
  /\ UNCHANGED <<decodes, reqs, next, state, stack, order, served>>

Respond ==
  /\ pc = "run"
  /\ Len(served) = Len(order)
  /\ pc' = "done"
  /\ UNCHANGED <<decodes, reqs, next, state, stack, order, served>>

BatchNext ==
  \/ DecodeBody
  \/ Index
  \/ VisitNext
  \/ \E d \in RequestIds : VisitDep(d)
  \/ UnknownDep
  \/ Leave
  \/ Sorted
  \/ Dispatch
  \/ Panic
  \/ Respond

BatchSpec == BatchInit /\ [][BatchNext]_batchVars

\* The handler runs on the request's goroutine and the inner handler returns.
BatchFairSpec == BatchSpec /\ WF_batchVars(BatchNext)

-----------------------------------------------------------------------------
(* Properties.                                                             *)

\* The indices that sub-request i depends on.
Deps(i) == {j \in DOMAIN reqs : reqs[j].id \in reqs[i].dependsOn}

\* A dependency cycle, without following edges: a set of sub-requests each of
\* which depends on one of them.
Cyclic == \E S \in SUBSET DOMAIN reqs : S # {} /\ \A i \in S : Deps(i) \cap S # {}

\* What the handler's comment calls a well-formed envelope.
WellFormed ==
  /\ decodes
  /\ Len(reqs) <= maxBatchRequests
  /\ Indexed
  /\ \A i \in DOMAIN reqs : \A d \in reqs[i].dependsOn : \E j \in DOMAIN reqs : reqs[j].id = d
  /\ ~ Cyclic

\* The sort rejects exactly the malformed envelopes: no cycle or unknown id gets
\* through and no dependency graph that can be ordered is refused.
RejectsExactly ==
  /\ pc = "rejected" => ~ WellFormed
  /\ pc \in {"run", "done", "panicked"} => WellFormed

\* A sub-request runs after everything it depends on has run, and when the
\* response is sent each one has run exactly once.
DependenciesFirst ==
  /\ \A k \in DOMAIN served : \A j \in Deps(served[k]) : \E m \in 1 .. k - 1 : served[m] = j
  /\ pc = "done" => \A i \in DOMAIN reqs : \E k \in DOMAIN served :
                      served[k] = i /\ \A m \in DOMAIN served : served[m] = i => m = k

\* Whatever the dependency graph, the client gets an answer, unless a method or
\* URL that cannot be parsed made the handler panic: sub-requests are dispatched
\* until all are, or until the first such one.
Answered ==
  <>(\/ pc \in {"done", "rejected"}
     \/ pc = "panicked" /\ Len(served) < Len(reqs) /\ ~ reqs[Current].parses)

=============================================================================
