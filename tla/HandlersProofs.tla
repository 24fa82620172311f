--------------------------- MODULE HandlersProofs ---------------------------
(***************************************************************************)
(* Proofs about the handlers that work in several steps: Batch, InboxRules,*)
(* Sharing and DeltaSync.  They share no state; each part has an inductive *)
(* invariant of its own.                                                   *)
(***************************************************************************)
EXTENDS Batch, InboxRules, Sharing, DeltaSync, SequenceTheorems,
        FiniteSetTheorems, WellFoundedInduction, TLAPS

-----------------------------------------------------------------------------
(***************************************************************************)
(* POST /$batch, for any list of sub-requests and any dependencies.        *)
(*                                                                         *)
(* SortInv: the activations of visit are the sub-requests being visited,   *)
(* one each (OnStack), each called for a dependency of the one below       *)
(* (Chain), so that meeting one of them again is a cycle; what an          *)
(* activation has looked at is done or the one above it (Looked), so that  *)
(* what it ends with comes after its dependencies (Emitted).               *)
(***************************************************************************)

Frames == [node: DOMAIN reqs, left: SUBSET RequestIds]

SortShapes ==
  /\ reqs \in Seq(Request)
  /\ pc \in {"decode", "index", "sort", "run", "done", "rejected", "panicked"}
  /\ next \in Nat \ {0}
  /\ state \in [DOMAIN reqs -> {"unvisited", "visiting", "done"}]
  /\ stack \in Seq(Frames)
  /\ order \in Seq(DOMAIN reqs)
  /\ served \in Seq(DOMAIN reqs)

\* The activations are those of the sub-requests being visited, one each.
OnStack ==
  /\ \A k \in 1 .. Len(stack) : state[stack[k].node] = "visiting"
  /\ \A i \in DOMAIN reqs : state[i] = "visiting" => \E k \in 1 .. Len(stack) : stack[k].node = i
  /\ \A k, m \in 1 .. Len(stack) : stack[k].node = stack[m].node => k = m

\* Each activation was called for a dependency of the one below it.
Chain ==
  \A k \in 1 .. Len(stack) :
    k < Len(stack) => reqs[stack[k + 1].node].id \in reqs[stack[k].node].dependsOn

\* A dependency that an activation has looked at is done, or it is the one
\* being visited.
Looked ==
  \A k \in 1 .. Len(stack) :
    /\ stack[k].left \subseteq reqs[stack[k].node].dependsOn
    /\ \A d \in reqs[stack[k].node].dependsOn \ stack[k].left :
         \E j \in DOMAIN reqs :
           /\ reqs[j].id = d
           /\ state[j] = "done" \/ (k < Len(stack) /\ stack[k + 1].node = j)

\* The order so far holds the sub-requests that are done, each once and after
\* its dependencies.
Emitted ==
  /\ \A i \in DOMAIN reqs : state[i] = "done" => \E k \in 1 .. Len(order) : order[k] = i
  /\ \A k \in 1 .. Len(order) : state[order[k]] = "done"
  /\ \A k, m \in 1 .. Len(order) : order[k] = order[m] => k = m
  /\ \A k \in 1 .. Len(order) : \A d \in reqs[order[k]].dependsOn :
       \E m \in 1 .. Len(order) : m < k /\ reqs[order[m]].id = d

Reached == \A i \in DOMAIN reqs : i < next => state[i] # "unvisited"

Sort == pc # "rejected" => OnStack /\ Chain /\ Looked /\ Emitted /\ Reached

\* The phases of the handler.
Phase ==
  /\ pc = "rejected" => ~ WellFormed
  /\ pc \in {"index", "sort", "run", "done", "panicked"} => decodes /\ Len(reqs) <= maxBatchRequests
  /\ pc \in {"sort", "run", "done", "panicked"} => Indexed
  /\ pc \in {"run", "done", "panicked"} => \A i \in DOMAIN reqs : state[i] = "done"
  /\ pc \notin {"run", "done", "panicked"} => served = <<>>
  /\ Len(served) <= Len(order)
  /\ \A k \in 1 .. Len(served) : served[k] = order[k]
  /\ pc = "done" => Len(served) = Len(order)

SortInv == SortShapes /\ Sort /\ Phase

-----------------------------------------------------------------------------
\* A non-empty set of numbers has a least element; induction is done with it.
LEMMA LeastNat ==
  ASSUME NEW T \in SUBSET Nat, T # {}
  PROVE  \E x \in T : \A y \in T : x <= y
<1>1. PICK x \in T : \A y \in T : ~ (<<y, x>> \in OpToRel(<, Nat))
  BY NatLessThanWellFounded, WFMin
<1>2. ASSUME NEW y \in T PROVE x <= y
  <2>1. <<y, x>> \in Nat \X Nat
    OBVIOUS
  <2>2. y < x => <<y, x>> \in OpToRel(<, Nat)
    BY <2>1 DEF OpToRel
  <2>3. ~ (y < x)
    BY <1>1, <2>2, Zenon
  <2> QED BY <2>3
<1> QED BY <1>2

\* Pushing onto a sequence, and taking its last element off.
LEMMA Pushed ==
  ASSUME NEW S, NEW s \in Seq(S), NEW e \in S
  PROVE  /\ Append(s, e) \in Seq(S)
         /\ Len(s) \in Nat
         /\ Len(Append(s, e)) = Len(s) + 1
         /\ \A k \in 1 .. Len(s) : Append(s, e)[k] = s[k]
         /\ Append(s, e)[Len(s) + 1] = e
  OBVIOUS

\* What is left of a sequence without its last element.
LEMMA Popped ==
  ASSUME NEW S, NEW s \in Seq(S), s # <<>>
  PROVE  /\ Len(s) \in Nat /\ Len(s) > 0
         /\ s[Len(s)] \in S
         /\ SubSeq(s, 1, Len(s) - 1) \in Seq(S)
         /\ Len(SubSeq(s, 1, Len(s) - 1)) = Len(s) - 1
         /\ \A k \in 1 .. Len(s) - 1 : SubSeq(s, 1, Len(s) - 1)[k] = s[k]
<1>1. Len(s) \in Nat /\ Len(s) > 0
  BY EmptySeq
<1>2. \A i \in 1 .. Len(s) : s[i] \in S
  BY ElementOfSeq
<1>3. 1 \in Int /\ Len(s) - 1 \in Int /\ \A i \in 1 .. Len(s) - 1 : s[i] \in S
  BY <1>1, <1>2
<1>4. /\ SubSeq(s, 1, Len(s) - 1) \in Seq(S)
      /\ Len(SubSeq(s, 1, Len(s) - 1)) = IF 1 <= Len(s) - 1 THEN Len(s) - 1 - 1 + 1 ELSE 0
      /\ \A i \in 1 .. Len(s) - 1 - 1 + 1 : SubSeq(s, 1, Len(s) - 1)[i] = s[1 + i - 1]
  BY <1>3, SubSeqProperties
<1>5. Len(SubSeq(s, 1, Len(s) - 1)) = Len(s) - 1
  <2> DEFINE n == Len(s)
  <2>1. n \in Nat /\ n > 0 => (IF 1 <= n - 1 THEN n - 1 - 1 + 1 ELSE 0) = n - 1
    <3> HIDE DEF n
    <3> QED  OBVIOUS
  <2> QED  BY <1>1, <1>4, <2>1
<1>6. ASSUME NEW k \in 1 .. Len(s) - 1 PROVE SubSeq(s, 1, Len(s) - 1)[k] = s[k]
  <2>1. k \in 1 .. Len(s) - 1 - 1 + 1 /\ 1 + k - 1 = k
    BY <1>1
  <2> QED  BY <1>4, <2>1
<1>7. s[Len(s)] \in S
  BY <1>1, <1>2
<1> QED  BY <1>1, <1>4, <1>5, <1>6, <1>7

\* A request that has just come in satisfies the invariant.
LEMMA BatchInitInv == BatchInit => SortInv
<1> SUFFICES ASSUME BatchInit PROVE SortInv
  OBVIOUS
<1>1. reqs \in Seq(Request) /\ stack = <<>> /\ order = <<>> /\ served = <<>> /\ pc = "decode" /\ next = 1
  BY BatchConstants DEF BatchInit
<1>2. state = [i \in DOMAIN reqs |-> "unvisited"]
  BY DEF BatchInit
<1>3. DOMAIN reqs = 1 .. Len(reqs)
  BY <1>1
<1>4. SortShapes
  BY <1>1, <1>2 DEF SortShapes
<1>5. OnStack /\ Chain /\ Looked
  BY <1>1, <1>2 DEF OnStack, Chain, Looked
<1>6. Emitted /\ Reached
  BY <1>1, <1>2, <1>3 DEF Emitted, Reached
<1>7. Phase
  BY <1>1 DEF Phase
<1> QED  BY <1>4, <1>5, <1>6, <1>7 DEF SortInv, Sort

\* What the stack becomes when its top has looked at d.
LookAt(d) == Append(Below, [Top EXCEPT !.left = @ \ {d}])

\* LookAt changes nothing but what the top activation has left to look at.
LEMMA LookedAt ==
  ASSUME SortShapes, stack # <<>>, NEW d
  PROVE  /\ LookAt(d) \in Seq(Frames) /\ Len(LookAt(d)) = Len(stack)
         /\ Len(stack) \in Nat /\ Len(stack) > 0
         /\ \A k \in 1 .. Len(stack) :
              /\ LookAt(d)[k].node = stack[k].node
              /\ LookAt(d)[k].left = IF k = Len(stack) THEN stack[k].left \ {d} ELSE stack[k].left
<1> DEFINE top == [Top EXCEPT !.left = @ \ {d}]
           rest == LookAt(d)
<1>0. stack \in Seq(Frames)
  BY DEF SortShapes
<1>1. /\ Len(stack) \in Nat /\ Len(stack) > 0 /\ Top \in Frames
      /\ Below \in Seq(Frames) /\ Len(Below) = Len(stack) - 1
      /\ \A k \in 1 .. Len(stack) - 1 : Below[k] = stack[k]
  BY <1>0, Popped DEF Top, Below
<1>2. top \in Frames /\ top.node = Top.node /\ top.left = Top.left \ {d}
  BY <1>1 DEF Frames
<1> HIDE DEF top
<1>3. rest = Append(Below, top)
  BY DEF top, LookAt
<1> HIDE DEF rest
<1>4. /\ rest \in Seq(Frames) /\ Len(rest) = Len(Below) + 1
      /\ \A k \in 1 .. Len(Below) : rest[k] = Below[k]
      /\ rest[Len(Below) + 1] = top
  BY <1>1, <1>2, <1>3, Pushed
<1>5. Len(rest) = Len(stack)
  BY <1>1, <1>4
<1>6. ASSUME NEW k \in 1 .. Len(stack)
      PROVE  /\ rest[k].node = stack[k].node
             /\ rest[k].left = IF k = Len(stack) THEN stack[k].left \ {d} ELSE stack[k].left
  <2>1. CASE k = Len(stack)
    <3>1. rest[k] = top
      BY <1>1, <1>4, <2>1
    <3> QED  BY <1>2, <2>1, <3>1 DEF Top
  <2>2. CASE k # Len(stack)
    <3>1. k \in 1 .. Len(Below) /\ k \in 1 .. Len(stack) - 1
      BY <1>1, <2>2
    <3>2. rest[k] = stack[k]
      BY <1>1, <1>4, <3>1
    <3> QED  BY <2>2, <3>2
  <2> QED  BY <2>1, <2>2
<1> QED  BY <1>1, <1>4, <1>5, <1>6 DEF rest

\* The activations keep their sub-requests, and what they drop from their lists
\* is done.
LEMMA SameStack ==
  ASSUME SortShapes, Sort, pc = "sort", pc' = pc,
         UNCHANGED <<reqs, state, order>>,
         stack' \in Seq(Frames), Len(stack') = Len(stack),
         \A k \in 1 .. Len(stack) :
           /\ stack'[k].node = stack[k].node
           /\ stack'[k].left \subseteq stack[k].left
           /\ \A d \in stack[k].left \ stack'[k].left :
                \E j \in DOMAIN reqs : reqs[j].id = d /\ state[j] = "done",
         \A i \in DOMAIN reqs : i < next' => state[i] # "unvisited"
  PROVE  Sort'
<1>0. OnStack /\ Chain /\ Looked /\ Emitted /\ Len(stack) \in Nat
  BY DEF Sort, SortShapes
<1>1. OnStack'
  BY <1>0 DEF OnStack
<1>2. Chain'
  <2> SUFFICES ASSUME NEW k \in 1 .. Len(stack), k < Len(stack)
               PROVE  reqs[stack'[k + 1].node].id \in reqs[stack'[k].node].dependsOn
    BY DEF Chain
  <2>1. k + 1 \in 1 .. Len(stack)
    BY <1>0
  <2>2. stack'[k].node = stack[k].node /\ stack'[k + 1].node = stack[k + 1].node
    BY <2>1
  <2> QED  BY <1>0, <2>2 DEF Chain
<1>3. Looked'
  <2> SUFFICES ASSUME NEW k \in 1 .. Len(stack)
               PROVE  /\ stack'[k].left \subseteq reqs[stack'[k].node].dependsOn
                      /\ \A d \in reqs[stack'[k].node].dependsOn \ stack'[k].left :
                           \E j \in DOMAIN reqs :
                             /\ reqs[j].id = d
                             /\ state[j] = "done" \/ (k < Len(stack) /\ stack'[k + 1].node = j)
    BY DEF Looked
  <2>1. /\ stack'[k].node = stack[k].node /\ stack'[k].left \subseteq stack[k].left
        /\ stack[k].left \subseteq reqs[stack[k].node].dependsOn
    BY <1>0 DEF Looked
  <2>2. ASSUME NEW d \in reqs[stack[k].node].dependsOn \ stack'[k].left
        PROVE  \E j \in DOMAIN reqs :
                 /\ reqs[j].id = d
                 /\ state[j] = "done" \/ (k < Len(stack) /\ stack'[k + 1].node = j)
    <3>1. CASE d \in stack[k].left
      BY <3>1
    <3>2. CASE d \notin stack[k].left
      <4>1. PICK j \in DOMAIN reqs :
              /\ reqs[j].id = d
              /\ state[j] = "done" \/ (k < Len(stack) /\ stack[k + 1].node = j)
        BY <1>0, <3>2 DEF Looked
      <4>2. k < Len(stack) => stack'[k + 1].node = stack[k + 1].node
        BY <1>0
      <4> QED  BY <4>1, <4>2
    <3> QED  BY <3>1, <3>2
  <2> QED  BY <2>1, <2>2
<1>4. Emitted' /\ Reached'
  BY <1>0 DEF Emitted, Reached
<1> QED  BY <1>1, <1>2, <1>3, <1>4 DEF Sort

\* A sub-request that was not visited gets an activation, on the stack rest in
\* which the one below has looked at it.
Pushing(i, rest) ==
  /\ pc = "sort" /\ pc' = pc /\ UNCHANGED <<reqs, order>>
  /\ state[i] = "unvisited" /\ state' = [state EXCEPT ![i] = "visiting"]
  /\ rest \in Seq(Frames) /\ Len(rest) = Len(stack)
  /\ stack' = Append(rest, Activation(i))
  /\ \A k \in 1 .. Len(stack) :
       /\ rest[k].node = stack[k].node
       /\ rest[k].left = IF k = Len(stack) THEN stack[k].left \ {reqs[i].id} ELSE stack[k].left
       /\ k = Len(stack) => reqs[i].id \in stack[k].left
  /\ \A j \in DOMAIN reqs : j < next' => j < next \/ j = i

\* A call of visit on an unvisited sub-request keeps the sort's invariant.
LEMMA PushStep ==
  ASSUME SortShapes, Sort, NEW i \in DOMAIN reqs, NEW rest, Pushing(i, rest)
  PROVE  Sort' /\ stack' \in Seq(Frames)
<1> DEFINE n == Len(stack)
<1>0. OnStack /\ Chain /\ Looked /\ Emitted /\ Reached /\ n \in Nat
  BY DEF Sort, SortShapes, Pushing
<1>a. pc' = pc /\ reqs' = reqs /\ order' = order /\ pc = "sort"
  BY DEF Pushing
<1>1. /\ Activation(i) \in Frames /\ Activation(i).node = i
      /\ Activation(i).left = reqs[i].dependsOn
  <2>1. reqs[i] \in Request
    BY DEF SortShapes
  <2> QED  BY <2>1 DEF Activation, Frames, Request
<1>2. /\ stack' \in Seq(Frames) /\ Len(stack') = n + 1
      /\ \A k \in 1 .. n : stack'[k] = rest[k]
      /\ stack'[n + 1] = Activation(i)
  BY <1>1, Pushed DEF Pushing
<1>3. /\ \A k \in 1 .. n :
           /\ stack'[k].node = stack[k].node
           /\ stack'[k].left = IF k = n THEN stack[k].left \ {reqs[i].id} ELSE stack[k].left
           /\ k = n => reqs[i].id \in stack[k].left
      /\ stack'[n + 1].node = i /\ stack'[n + 1].left = reqs[i].dependsOn
  BY <1>1, <1>2 DEF Pushing
<1>4. /\ \A j \in DOMAIN reqs : state'[j] = IF j = i THEN "visiting" ELSE state[j]
      /\ state' \in [DOMAIN reqs -> {"unvisited", "visiting", "done"}]
      /\ \A k \in 1 .. n : stack[k].node \in DOMAIN reqs /\ stack[k].node # i
  <2>1. \A k \in 1 .. n : stack[k] \in Frames
    BY DEF SortShapes
  <2>2. \A k \in 1 .. n : stack[k].node \in DOMAIN reqs
    BY <2>1 DEF Frames
  <2>3. state[i] = "unvisited" /\ state' = [state EXCEPT ![i] = "visiting"]
    BY DEF Pushing
  <2>4. \A k \in 1 .. n : stack[k].node # i
    BY <1>0, <2>3 DEF OnStack
  <2> QED  BY <2>2, <2>3, <2>4 DEF SortShapes
<1>5. n = Len(stack) /\ Len(stack') = n + 1
  BY <1>2
<1> HIDE DEF n
<1>6. OnStack'
  <2>1. ASSUME NEW k \in 1 .. n + 1 PROVE state'[stack'[k].node] = "visiting"
    <3>1. CASE k \in 1 .. n
      <4>1. stack'[k].node = stack[k].node /\ stack[k].node \in DOMAIN reqs /\ stack[k].node # i
        BY <1>3, <1>4, <3>1
      <4>2. state[stack[k].node] = "visiting"
        BY <1>0, <1>5, <3>1 DEF OnStack
      <4> QED  BY <1>4, <4>1, <4>2
    <3>2. CASE k = n + 1
      BY <1>3, <1>4, <3>2
    <3> QED  BY <1>0, <3>1, <3>2
  <2>2. ASSUME NEW j \in DOMAIN reqs, state'[j] = "visiting"
        PROVE  \E k \in 1 .. n + 1 : stack'[k].node = j
    <3>1. CASE j = i
      BY <1>0, <1>3, <3>1
    <3>2. CASE j # i
      <4>1. PICK k \in 1 .. n : stack[k].node = j
        BY <1>0, <1>4, <1>5, <2>2, <3>2 DEF OnStack
      <4>2. k \in 1 .. n + 1
        BY <1>0
      <4> QED  BY <1>3, <4>1, <4>2
    <3> QED  BY <3>1, <3>2
  <2>3. ASSUME NEW k \in 1 .. n + 1, NEW m \in 1 .. n + 1, stack'[k].node = stack'[m].node
        PROVE  k = m
    <3>1. CASE k \in 1 .. n /\ m \in 1 .. n
      BY <1>0, <1>3, <1>5, <2>3, <3>1 DEF OnStack
    <3>2. CASE k \in 1 .. n /\ m = n + 1
      BY <1>3, <1>4, <2>3, <3>2
    <3>3. CASE k = n + 1 /\ m \in 1 .. n
      BY <1>3, <1>4, <2>3, <3>3
    <3> QED  BY <1>0, <3>1, <3>2, <3>3
  <2> QED  BY <1>a, <1>5, <2>1, <2>2, <2>3 DEF OnStack
<1>7. Chain'
  <2> SUFFICES ASSUME NEW k \in 1 .. n
               PROVE  reqs[stack'[k + 1].node].id \in reqs[stack'[k].node].dependsOn
    BY <1>0, <1>a, <1>5 DEF Chain
  <2>1. CASE k < n
    <3>1. k + 1 \in 1 .. n
      BY <1>0, <2>1
    <3>2. stack'[k + 1].node = stack[k + 1].node /\ stack'[k].node = stack[k].node
      BY <1>3, <3>1
    <3> QED  BY <1>0, <1>5, <2>1, <3>2 DEF Chain
  <2>2. CASE k = n
    <3>1. stack'[k + 1].node = i /\ stack'[k].node = stack[k].node /\ reqs[i].id \in stack[k].left
      BY <1>3, <2>2
    <3> QED  BY <1>0, <1>5, <3>1 DEF Looked
  <2> QED  BY <1>0, <2>1, <2>2
<1>8. Looked'
  <2>1. ASSUME NEW k \in 1 .. n + 1
        PROVE  stack'[k].left \subseteq reqs[stack'[k].node].dependsOn
    <3>1. CASE k \in 1 .. n
      <4>1. stack[k].left \subseteq reqs[stack[k].node].dependsOn
        BY <1>0, <1>5, <3>1 DEF Looked
      <4>2. stack'[k].node = stack[k].node /\ stack'[k].left \subseteq stack[k].left
        BY <1>3, <3>1
      <4> QED  BY <4>1, <4>2
    <3>2. CASE k = n + 1
      BY <1>3, <3>2
    <3> QED  BY <1>0, <3>1, <3>2
  <2>2. ASSUME NEW k \in 1 .. n + 1,
               NEW d \in reqs[stack'[k].node].dependsOn \ stack'[k].left
        PROVE  \E j \in DOMAIN reqs :
                 /\ reqs[j].id = d
                 /\ state'[j] = "done" \/ (k < n + 1 /\ stack'[k + 1].node = j)
    <3>1. k \in 1 .. n
      BY <1>0, <1>3
    <3>2. stack'[k].node = stack[k].node
      BY <1>3, <3>1
    <3>3. CASE d \in stack[k].left
      <4>1. k = n /\ d = reqs[i].id
        BY <1>3, <3>1, <3>3
      <4> QED  BY <1>0, <1>3, <4>1
    <3>4. CASE d \notin stack[k].left
      <4>1. PICK j \in DOMAIN reqs :
              /\ reqs[j].id = d
              /\ state[j] = "done" \/ (k < n /\ stack[k + 1].node = j)
        BY <1>0, <1>5, <3>1, <3>2, <3>4 DEF Looked
      <4>2. CASE state[j] = "done"
        <5>1. j # i
          BY <4>2 DEF Pushing
        <5> QED  BY <1>4, <4>1, <4>2, <5>1
      <4>3. CASE k < n /\ stack[k + 1].node = j
        <5>1. k + 1 \in 1 .. n /\ k < n + 1
          BY <1>0, <4>3
        <5>2. stack'[k + 1].node = j
          BY <1>3, <4>3, <5>1
        <5> QED  BY <4>1, <5>1, <5>2
      <4> QED  BY <4>1, <4>2, <4>3
    <3> QED  BY <3>3, <3>4
  <2> QED  BY <1>a, <1>5, <2>1, <2>2 DEF Looked
<1>9. Emitted'
  <2>1. order \in Seq(DOMAIN reqs) /\ \A k \in 1 .. Len(order) : order[k] \in DOMAIN reqs
    BY DEF SortShapes
  <2>2. \A k \in 1 .. Len(order) : order[k] # i
    BY <1>0, <2>1 DEF Emitted, Pushing
  <2> QED  BY <1>0, <1>a, <1>4, <2>1, <2>2 DEF Emitted
<1>10. Reached'
  BY <1>0, <1>4, <1>a DEF Reached, Pushing
<1> QED  BY <1>2, <1>6, <1>7, <1>8, <1>9, <1>10 DEF Sort

\* The innermost activation ends: everything it depends on is done, and so in
\* the order before it.
LEMMA LeaveStep ==
  ASSUME SortShapes, Sort, Leave
  PROVE  SortShapes' /\ Sort'
<1> DEFINE n == Len(stack)
           t == stack[n].node
           p == Len(order)
<1>0. /\ OnStack /\ Chain /\ Looked /\ Emitted /\ Reached
      /\ stack \in Seq(Frames) /\ stack # <<>> /\ pc = "sort"
      /\ stack[n].left = {}
      /\ state' = [state EXCEPT ![t] = "done"]
      /\ order' = Append(order, t)
      /\ stack' = SubSeq(stack, 1, n - 1)
      /\ UNCHANGED <<decodes, reqs, pc, next, served>>
  BY DEF Sort, SortShapes, Leave, Top, Below
<1>1. /\ n \in Nat /\ n > 0 /\ stack[n] \in Frames
      /\ stack' \in Seq(Frames) /\ Len(stack') = n - 1
      /\ \A k \in 1 .. n - 1 : stack'[k] = stack[k]
  BY <1>0, Popped
<1>2. t \in DOMAIN reqs /\ order \in Seq(DOMAIN reqs) /\ n \in 1 .. n
  BY <1>1 DEF Frames, SortShapes
<1>3. /\ order' \in Seq(DOMAIN reqs) /\ p \in Nat /\ Len(order') = p + 1
      /\ \A k \in 1 .. p : order'[k] = order[k]
      /\ order'[p + 1] = t
  BY <1>0, <1>2, Pushed
<1>4. /\ state' \in [DOMAIN reqs -> {"unvisited", "visiting", "done"}]
      /\ \A j \in DOMAIN reqs : state'[j] = IF j = t THEN "done" ELSE state[j]
  BY <1>0, <1>2 DEF SortShapes
<1>5. SortShapes'
  BY <1>0, <1>1, <1>3, <1>4 DEF SortShapes, Frames
<1>6. /\ \A k \in 1 .. n - 1 : k \in 1 .. n /\ stack[k].node # t
      /\ \A k \in 1 .. n : stack[k].node \in DOMAIN reqs
      /\ state[t] = "visiting"
  <2>1. \A k \in 1 .. n - 1 : k \in 1 .. n /\ k # n
    BY <1>1
  <2>2. \A k \in 1 .. n : stack[k] \in Frames
    BY <1>0
  <2>3. \A k \in 1 .. n : stack[k].node \in DOMAIN reqs
    BY <2>2 DEF Frames
  <2>4. \A k \in 1 .. n - 1 : stack[k].node # t
    BY <1>0, <1>2, <2>1 DEF OnStack
  <2>5. state[t] = "visiting"
    BY <1>0, <1>2 DEF OnStack
  <2> QED  BY <2>1, <2>3, <2>4, <2>5
<1>7. ASSUME NEW d \in reqs[t].dependsOn
      PROVE  \E m \in 1 .. p : reqs[order[m]].id = d
  <2>1. PICK j \in DOMAIN reqs :
          /\ reqs[j].id = d
          /\ state[j] = "done" \/ (n < n /\ stack[n + 1].node = j)
    BY <1>0, <1>2, <1>7 DEF Looked
  <2>2. state[j] = "done"
    BY <1>1, <2>1
  <2>3. PICK m \in 1 .. p : order[m] = j
    BY <1>0, <2>2 DEF Emitted
  <2> QED  BY <2>1, <2>3
<1>8. /\ \A k \in 1 .. p : order[k] \in DOMAIN reqs
      /\ \A k \in 1 .. p : order[k] # t
  BY <1>0, <1>2, <1>6 DEF Emitted
<1>9. n = Len(stack) /\ p = Len(order)
  OBVIOUS
<1> HIDE DEF n, t, p
<1>10. OnStack'
  <2>1. ASSUME NEW k \in 1 .. n - 1 PROVE state'[stack'[k].node] = "visiting"
    <3>1. stack'[k] = stack[k] /\ k \in 1 .. n /\ stack[k].node # t /\ stack[k].node \in DOMAIN reqs
      BY <1>1, <1>6
    <3>2. state[stack[k].node] = "visiting"
      BY <1>0, <1>9, <3>1 DEF OnStack
    <3> QED  BY <1>4, <3>1, <3>2
  <2>2. ASSUME NEW j \in DOMAIN reqs, state'[j] = "visiting"
        PROVE  \E k \in 1 .. n - 1 : stack'[k].node = j
    <3>1. j # t /\ state[j] = "visiting"
      BY <1>4, <2>2
    <3>2. PICK k \in 1 .. n : stack[k].node = j
      BY <1>0, <1>9, <3>1 DEF OnStack
    <3>3. k # n
      BY <3>1, <3>2 DEF t
    <3>4. k \in 1 .. n - 1
      BY <1>1, <3>3
    <3> QED  BY <1>1, <3>2, <3>4
  <2>3. ASSUME NEW k \in 1 .. n - 1, NEW m \in 1 .. n - 1, stack'[k].node = stack'[m].node
        PROVE  k = m
    <3>1. stack[k].node = stack[m].node /\ k \in 1 .. n /\ m \in 1 .. n
      BY <1>1, <1>6, <2>3
    <3> QED  BY <1>0, <1>9, <3>1 DEF OnStack
  <2> QED  BY <1>0, <1>1, <2>1, <2>2, <2>3 DEF OnStack
<1>11. Chain'
  <2> SUFFICES ASSUME NEW k \in 1 .. n - 1, k < n - 1
               PROVE  reqs[stack'[k + 1].node].id \in reqs[stack'[k].node].dependsOn
    BY <1>0, <1>1 DEF Chain
  <2>1. k \in 1 .. n /\ k < n /\ k + 1 \in 1 .. n - 1
    BY <1>1
  <2>2. stack'[k] = stack[k] /\ stack'[k + 1] = stack[k + 1]
    BY <1>1, <2>1
  <2> QED  BY <1>0, <1>9, <2>1, <2>2 DEF Chain
<1>12. Looked'
  <2>1. ASSUME NEW k \in 1 .. n - 1
        PROVE  stack'[k].left \subseteq reqs[stack'[k].node].dependsOn
    <3>1. stack'[k] = stack[k] /\ k \in 1 .. n
      BY <1>1, <1>6
    <3> QED  BY <1>0, <1>9, <3>1 DEF Looked
  <2>2. ASSUME NEW k \in 1 .. n - 1,
               NEW d \in reqs[stack'[k].node].dependsOn \ stack'[k].left
        PROVE  \E j \in DOMAIN reqs :
                 /\ reqs[j].id = d
                 /\ state'[j] = "done" \/ (k < n - 1 /\ stack'[k + 1].node = j)
    <3>1. stack'[k] = stack[k] /\ k \in 1 .. n
      BY <1>1, <1>6
    <3>a. \A e \in reqs[stack[k].node].dependsOn \ stack[k].left :
            \E j \in DOMAIN reqs :
              /\ reqs[j].id = e
              /\ state[j] = "done" \/ (k < n /\ stack[k + 1].node = j)
      <4>1. Looked /\ n = Len(stack)
        BY <1>0, <1>9
      <4>2. \A i \in 1 .. n : \A e \in reqs[stack[i].node].dependsOn \ stack[i].left :
              \E j \in DOMAIN reqs :
                /\ reqs[j].id = e
                /\ state[j] = "done" \/ (i < n /\ stack[i + 1].node = j)
        BY <4>1 DEF Looked
      <4> QED  BY <3>1, <4>2, Zenon
    <3>2. PICK j \in DOMAIN reqs :
            /\ reqs[j].id = d
            /\ state[j] = "done" \/ (k < n /\ stack[k + 1].node = j)
      BY <3>1, <3>a
    <3>3. CASE state[j] = "done" \/ j = t
      <4>1. state'[j] = "done"
        BY <1>4, <3>3
      <4> QED  BY <3>2, <4>1
    <3>4. CASE stack[k + 1].node = j /\ j # t
      <4>1. k + 1 # n
        BY <3>4 DEF t
      <4>2. k < n - 1 /\ k + 1 \in 1 .. n - 1
        BY <1>1, <4>1
      <4>3. stack'[k + 1].node = j
        BY <1>1, <3>4, <4>2
      <4> QED  BY <3>2, <4>2, <4>3
    <3> QED  BY <3>2, <3>3, <3>4
  <2> QED  BY <1>0, <1>1, <2>1, <2>2 DEF Looked
<1>13. Emitted'
  <2>0. \A k \in 1 .. p + 1 : k \in 1 .. p \/ k = p + 1
    BY <1>3
  <2>1. ASSUME NEW j \in DOMAIN reqs, state'[j] = "done"
        PROVE  \E k \in 1 .. p + 1 : order'[k] = j
    <3>1. CASE j = t
      <4>1. p + 1 \in 1 .. p + 1
        BY <1>3
      <4> QED  BY <1>3, <3>1, <4>1
    <3>2. CASE j # t
      <4>1. PICK k \in 1 .. p : order[k] = j
        BY <1>0, <1>4, <1>9, <2>1, <3>2 DEF Emitted
      <4>2. k \in 1 .. p + 1
        BY <1>3
      <4> QED  BY <1>3, <4>1, <4>2
    <3> QED  BY <3>1, <3>2
  <2>2. ASSUME NEW k \in 1 .. p + 1 PROVE state'[order'[k]] = "done"
    <3>1. CASE k = p + 1
      BY <1>2, <1>3, <1>4, <3>1
    <3>2. CASE k \in 1 .. p
      <4>1. order'[k] = order[k] /\ state[order[k]] = "done" /\ order[k] \in DOMAIN reqs
        BY <1>0, <1>3, <1>8, <1>9, <3>2 DEF Emitted
      <4> QED  BY <1>4, <4>1
    <3> QED  BY <2>0, <3>1, <3>2
  <2>3. ASSUME NEW k \in 1 .. p + 1, NEW m \in 1 .. p + 1, order'[k] = order'[m] PROVE k = m
    <3>1. CASE k \in 1 .. p /\ m \in 1 .. p
      BY <1>0, <1>3, <1>9, <2>3, <3>1 DEF Emitted
    <3>2. CASE k = p + 1 /\ m \in 1 .. p
      BY <1>3, <1>8, <2>3, <3>2
    <3>3. CASE k \in 1 .. p /\ m = p + 1
      BY <1>3, <1>8, <2>3, <3>3
    <3> QED  BY <2>0, <3>1, <3>2, <3>3
  <2>4. ASSUME NEW k \in 1 .. p + 1, NEW d \in reqs[order'[k]].dependsOn
        PROVE  \E m \in 1 .. p + 1 : m < k /\ reqs[order'[m]].id = d
    <3>1. CASE k = p + 1
      <4>1. PICK m \in 1 .. p : reqs[order[m]].id = d
        BY <1>3, <1>7, <3>1
      <4>2. m \in 1 .. p + 1 /\ m < k
        BY <1>3, <3>1
      <4> QED  BY <1>3, <4>1, <4>2
    <3>2. CASE k \in 1 .. p
      <4>1. order'[k] = order[k]
        BY <1>3, <3>2
      <4>2. PICK m \in 1 .. p : m < k /\ reqs[order[m]].id = d
        BY <1>0, <1>9, <3>2, <4>1 DEF Emitted
      <4>3. m \in 1 .. p + 1 /\ order'[m] = order[m]
        BY <1>3
      <4> QED  BY <4>2, <4>3
    <3> QED  BY <2>0, <3>1, <3>2
  <2>5. Len(order') = p + 1 /\ reqs' = reqs
    BY <1>0, <1>3
  <2> QED  BY <2>1, <2>2, <2>3, <2>4, <2>5 DEF Emitted
<1>14. Reached'
  BY <1>0, <1>4 DEF Reached
<1> QED  BY <1>5, <1>10, <1>11, <1>12, <1>13, <1>14 DEF Sort

\* A dependency that is being visited closes a cycle of the activations.
LEMMA CycleFound ==
  ASSUME SortShapes, Sort, pc = "sort", stack # <<>>, NEW i \in DOMAIN reqs,
         reqs[i].id \in stack[Len(stack)].left, state[i] = "visiting"
  PROVE  Cyclic
<1> DEFINE n == Len(stack)
           S == {stack[k].node : k \in 1 .. n}
<1>0. OnStack /\ Chain /\ Looked /\ n \in Nat /\ n > 0 /\ \A k \in 1 .. n : stack[k] \in Frames
  BY Popped DEF Sort, SortShapes
<1>1. S \in SUBSET DOMAIN reqs
  BY <1>0 DEF Frames
<1>2. i \in S
  BY <1>0 DEF OnStack
<1>3. ASSUME NEW k \in 1 .. n PROVE Deps(stack[k].node) \cap S # {}
  <2>1. CASE k < n
    <3>1. k + 1 \in 1 .. n
      BY <1>0, <2>1
    <3>2. stack[k + 1].node \in Deps(stack[k].node)
      BY <1>0, <2>1, <3>1 DEF Chain, Deps, Frames
    <3> QED  BY <3>1, <3>2
  <2>2. CASE k = n
    <3>1. i \in Deps(stack[k].node)
      BY <1>0, <2>2 DEF Looked, Deps
    <3> QED  BY <1>2, <3>1
  <2> QED  BY <1>0, <2>1, <2>2
<1>4. \A j \in S : Deps(j) \cap S # {}
  BY <1>3
<1> QED  BY <1>1, <1>2, <1>4 DEF Cyclic

\* When every sub-request is in the order there is no cycle: the first of the
\* order that is on it would depend on an earlier one.
LEMMA OrderedIsAcyclic ==
  ASSUME SortShapes, Indexed, Emitted, \A i \in DOMAIN reqs : state[i] = "done"
  PROVE  ~ Cyclic
<1> SUFFICES ASSUME NEW S \in SUBSET DOMAIN reqs, S # {}, \A i \in S : Deps(i) \cap S # {}
             PROVE  FALSE
  BY DEF Cyclic
<1> DEFINE T == {k \in 1 .. Len(order) : order[k] \in S}
<1>0. order \in Seq(DOMAIN reqs) /\ Len(order) \in Nat
  BY DEF SortShapes
<1>1. T \in SUBSET Nat /\ T # {}
  <2>1. PICK i \in S : TRUE
    OBVIOUS
  <2>2. PICK k \in 1 .. Len(order) : order[k] = i
    BY DEF Emitted
  <2> QED  BY <1>0, <2>2
<1>2. PICK k \in T : \A m \in T : k <= m
  BY <1>1, LeastNat
<1>3. PICK j \in S : j \in Deps(order[k])
  BY <1>2
<1>4. reqs[j].id \in reqs[order[k]].dependsOn /\ j \in DOMAIN reqs
  BY <1>3 DEF Deps
<1>a. k \in 1 .. Len(order)
  OBVIOUS
<1> HIDE DEF T
<1>b. \A d \in reqs[order[k]].dependsOn :
        \E m \in 1 .. Len(order) : m < k /\ reqs[order[m]].id = d
  BY <1>a DEF Emitted
<1>5. PICK m \in 1 .. Len(order) : m < k /\ reqs[order[m]].id = reqs[j].id
  BY <1>4, <1>b
<1>6. order[m] = j
  BY <1>0, <1>4, <1>5 DEF Indexed
<1>7. m \in T
  BY <1>6 DEF T
<1> QED  BY <1>2, <1>5, <1>7, <1>a, <1>0

\* One call of visit: it ends at once, it finds a cycle, or it pushes.
LEMMA VisitNextStep ==
  ASSUME SortInv, VisitNext
  PROVE  SortInv'
<1>0. /\ SortShapes /\ Sort /\ Phase
      /\ pc = "sort" /\ stack = <<>> /\ next <= Len(reqs) /\ next' = next + 1
      /\ Visit(next, stack)
      /\ UNCHANGED <<decodes, reqs, order, served>>
  BY DEF SortInv, VisitNext
<1>1. /\ next \in DOMAIN reqs /\ next \in Nat \ {0} /\ DOMAIN reqs = 1 .. Len(reqs)
      /\ Len(stack) = 0 /\ stack \in Seq(Frames)
  BY <1>0 DEF SortShapes
<1>2. /\ state[next] \in {"unvisited", "done"}
      /\ Reached
  <2>1. OnStack /\ Reached
    BY <1>0 DEF Sort
  <2>2. state[next] # "visiting"
    BY <1>1, <2>1 DEF OnStack
  <2> QED  BY <1>0, <1>1, <2>1, <2>2 DEF SortShapes
<1>3. CASE state[next] = "done"
  <2>1. stack' = stack /\ state' = state /\ pc' = pc
    BY <1>0, <1>3 DEF Visit
  <2>2. SortShapes'
    BY <1>0, <2>1 DEF SortShapes, Frames
  <2>3. Sort'
    <3>1. \A i \in DOMAIN reqs : i < next' => state[i] # "unvisited"
      BY <1>0, <1>1, <1>2, <1>3 DEF Reached
    <3> QED  BY <1>0, <1>1, <2>1, <3>1, SameStack
  <2>4. Phase'
    BY <1>0, <2>1 DEF Phase, WellFormed, Indexed, Cyclic, Deps
  <2> QED  BY <2>2, <2>3, <2>4 DEF SortInv
<1>4. CASE state[next] = "unvisited"
  <2>1. /\ stack' = Append(stack, Activation(next)) /\ pc' = pc
        /\ state' = [state EXCEPT ![next] = "visiting"]
    BY <1>0, <1>4 DEF Visit
  <2>2. Pushing(next, stack)
    BY <1>0, <1>1, <1>4, <2>1 DEF Pushing
  <2>3. Sort' /\ stack' \in Seq(Frames)
    BY <1>0, <1>1, <2>2, PushStep
  <2>4. SortShapes'
    <3>1. state' \in [DOMAIN reqs -> {"unvisited", "visiting", "done"}]
      BY <1>0, <2>1 DEF SortShapes
    <3>2. Frames' = Frames /\ next' \in Nat \ {0}
      BY <1>0 DEF Frames, SortShapes
    <3> QED  BY <1>0, <2>1, <2>3, <3>1, <3>2 DEF SortShapes
  <2>5. Phase'
    BY <1>0, <2>1 DEF Phase, WellFormed, Indexed, Cyclic, Deps
  <2> QED  BY <2>3, <2>4, <2>5 DEF SortInv
<1> QED  BY <1>2, <1>3, <1>4

\* One turn of the loop over dependsOn keeps the sort's invariant.
LEMMA VisitDepStep ==
  ASSUME SortInv, NEW d \in RequestIds, VisitDep(d)
  PROVE  SortInv'
<1> DEFINE rest == LookAt(d)
<1>0. /\ SortShapes /\ Sort /\ Phase
      /\ pc = "sort" /\ stack # <<>> /\ d \in Top.left
      /\ UNCHANGED <<decodes, reqs, next, order, served>>
  BY DEF SortInv, VisitDep
<1>1. PICK i \in DOMAIN reqs : reqs[i].id = d /\ Visit(i, rest)
  BY DEF VisitDep, LookAt
<1>3. /\ rest \in Seq(Frames) /\ Len(rest) = Len(stack)
      /\ Len(stack) \in Nat /\ Len(stack) > 0
      /\ \A k \in 1 .. Len(stack) :
           /\ rest[k].node = stack[k].node
           /\ rest[k].left = IF k = Len(stack) THEN stack[k].left \ {d} ELSE stack[k].left
  BY <1>0, LookedAt
<1> HIDE DEF rest
<1>4. reqs[i].id \in stack[Len(stack)].left
  BY <1>0, <1>1 DEF Top
<1>5. state[i] \in {"unvisited", "visiting", "done"}
  BY <1>0 DEF SortShapes
<1>6. CASE state[i] = "done"
  <2>1. stack' = rest /\ state' = state /\ pc' = pc
    BY <1>1, <1>6 DEF Visit
  <2>2. SortShapes'
    BY <1>0, <1>3, <2>1 DEF SortShapes, Frames
  <2>3. Sort'
    <3>1. \A j \in DOMAIN reqs : j < next' => state[j] # "unvisited"
      BY <1>0 DEF Sort, Reached
    <3>2. ASSUME NEW k \in 1 .. Len(stack)
          PROVE  /\ stack'[k].node = stack[k].node
                 /\ stack'[k].left \subseteq stack[k].left
                 /\ \A e \in stack[k].left \ stack'[k].left :
                      \E j \in DOMAIN reqs : reqs[j].id = e /\ state[j] = "done"
      BY <1>1, <1>3, <1>6, <2>1
    <3>3. stack' \in Seq(Frames) /\ Len(stack') = Len(stack) /\ UNCHANGED <<reqs, state, order>>
      BY <1>0, <1>3, <2>1
    <3> QED  BY <1>0, <2>1, <3>1, <3>2, <3>3, SameStack
  <2>4. Phase'
    BY <1>0, <2>1 DEF Phase, WellFormed, Indexed, Cyclic, Deps
  <2> QED  BY <2>2, <2>3, <2>4 DEF SortInv
<1>7. CASE state[i] = "visiting"
  <2>1. pc' = "rejected" /\ stack' = rest /\ state' = state
    BY <1>1, <1>7 DEF Visit
  <2>2. SortShapes'
    BY <1>0, <1>3, <2>1 DEF SortShapes, Frames
  <2>3. Cyclic
    BY <1>0, <1>4, <1>7, CycleFound
  <2>4. Cyclic' = Cyclic
    BY <1>0 DEF Cyclic, Deps
  <2>5. Phase'
    BY <1>0, <2>1, <2>3, <2>4 DEF Phase, WellFormed
  <2> QED  BY <2>1, <2>2, <2>5 DEF SortInv, Sort
<1>8. CASE state[i] = "unvisited"
  <2>1. /\ stack' = Append(rest, Activation(i)) /\ pc' = pc
        /\ state' = [state EXCEPT ![i] = "visiting"]
    BY <1>1, <1>8 DEF Visit
  <2>2. Pushing(i, rest)
    BY <1>0, <1>1, <1>3, <1>4, <1>8, <2>1 DEF Pushing
  <2>3. Sort' /\ stack' \in Seq(Frames)
    BY <1>0, <2>2, PushStep
  <2>4. SortShapes'
    <3>1. state' \in [DOMAIN reqs -> {"unvisited", "visiting", "done"}]
      BY <1>0, <2>1 DEF SortShapes
    <3>2. Frames' = Frames /\ next' \in Nat \ {0}
      BY <1>0 DEF Frames, SortShapes
    <3> QED  BY <1>0, <2>1, <2>3, <3>1, <3>2 DEF SortShapes
  <2>5. Phase'
    BY <1>0, <2>1 DEF Phase, WellFormed, Indexed, Cyclic, Deps
  <2> QED  BY <2>3, <2>4, <2>5 DEF SortInv
<1> QED  BY <1>5, <1>6, <1>7, <1>8

\* Each step of the batch handler keeps the invariant.
LEMMA BatchNextInv == SortInv /\ [BatchNext]_batchVars => SortInv'
<1> SUFFICES ASSUME SortInv, [BatchNext]_batchVars PROVE SortInv'
  OBVIOUS
<1>0. SortShapes /\ Sort /\ Phase
  BY DEF SortInv
<1>a. ASSUME UNCHANGED <<reqs, state, stack, order, next, served>>,
             pc' \in {"decode", "index", "sort", "run", "done", "rejected", "panicked"}
      PROVE  SortShapes' /\ (OnStack /\ Chain /\ Looked /\ Emitted /\ Reached
                              => (OnStack /\ Chain /\ Looked /\ Emitted /\ Reached)')
  <2>1. Frames' = Frames
    BY <1>a DEF Frames
  <2>2. SortShapes'
    BY <1>0, <1>a, <2>1 DEF SortShapes
  <2>3. OnStack /\ Chain /\ Looked => (OnStack /\ Chain /\ Looked)'
    BY <1>a DEF OnStack, Chain, Looked
  <2>4. Emitted /\ Reached => (Emitted /\ Reached)'
    BY <1>a DEF Emitted, Reached
  <2> QED  BY <2>2, <2>3, <2>4
<1>b. ASSUME UNCHANGED <<decodes, reqs>> PROVE WellFormed' = WellFormed /\ Indexed' = Indexed
  BY <1>b DEF WellFormed, Indexed, Cyclic, Deps
<1>c. ASSUME Reject, pc # "rejected", pc \notin {"run", "done", "panicked"}, ~ WellFormed PROVE SortInv'
  <2>1. pc' = "rejected" /\ UNCHANGED <<decodes, reqs, next, state, stack, order, served>>
    BY <1>c DEF Reject
  <2>2. SortShapes' /\ Sort'
    BY <1>a, <2>1 DEF Sort
  <2>3. Phase'
    BY <1>0, <1>b, <1>c, <2>1 DEF Phase
  <2> QED  BY <2>2, <2>3 DEF SortInv
<1>d. ASSUME UNCHANGED <<decodes, reqs, next, state, stack, order, served>>,
             pc # "rejected", pc' \in {"index", "sort", "run", "done", "panicked"}, Phase'
      PROVE  SortInv'
  BY <1>0, <1>a, <1>d DEF SortInv, Sort
<1>1. CASE DecodeBody
  <2>1. CASE ~ decodes \/ Len(reqs) > maxBatchRequests
    <3>1. ~ WellFormed
      <4>1. Len(reqs) \in Nat /\ maxBatchRequests \in Nat
        BY <1>0, BatchConstants DEF SortShapes
      <4> QED  BY <2>1, <4>1 DEF WellFormed
    <3>2. Reject /\ pc = "decode"
      BY <1>1, <2>1 DEF DecodeBody
    <3> QED  BY <1>c, <3>1, <3>2
  <2>2. CASE ~ (~ decodes \/ Len(reqs) > maxBatchRequests)
    <3>1. /\ pc = "decode" /\ pc' = "index"
          /\ UNCHANGED <<decodes, reqs, next, state, stack, order, served>>
      BY <1>1, <2>2 DEF DecodeBody
    <3>2. Len(reqs) \in Nat /\ maxBatchRequests \in Nat
      BY <1>0, BatchConstants DEF SortShapes
    <3>3. Phase'
      BY <1>0, <2>2, <3>1, <3>2 DEF Phase
    <3> QED  BY <1>d, <3>1, <3>3
  <2> QED  BY <2>1, <2>2
<1>2. CASE Index
  <2>1. CASE ~ Indexed
    <3>1. Reject /\ pc = "index" /\ ~ WellFormed
      BY <1>2, <2>1 DEF Index, WellFormed
    <3> QED  BY <1>c, <3>1
  <2>2. CASE Indexed
    <3>1. /\ pc = "index" /\ pc' = "sort"
          /\ UNCHANGED <<decodes, reqs, next, state, stack, order, served>>
      BY <1>2, <2>2 DEF Index
    <3>2. Phase'
      BY <1>0, <1>b, <2>2, <3>1 DEF Phase
    <3> QED  BY <1>d, <3>1, <3>2
  <2> QED  BY <2>1, <2>2
<1>3. CASE VisitNext
  BY <1>3, VisitNextStep
<1>4. ASSUME NEW d \in RequestIds, VisitDep(d) PROVE SortInv'
  BY <1>4, VisitDepStep
<1>5. CASE UnknownDep
  <2>1. /\ Reject /\ pc = "sort" /\ stack # <<>> /\ Looked
        /\ \E d \in Top.left : \A i \in DOMAIN reqs : reqs[i].id # d
    BY <1>0, <1>5 DEF UnknownDep, Sort
  <2>2. /\ Len(stack) \in 1 .. Len(stack)
        /\ stack[Len(stack)] \in Frames
    BY <1>0, <2>1, Popped DEF SortShapes
  <2>3. Top.left \subseteq reqs[Top.node].dependsOn /\ Top.node \in DOMAIN reqs
    BY <2>1, <2>2 DEF Looked, Top, Frames
  <2>4. ~ WellFormed
    BY <2>1, <2>3 DEF WellFormed
  <2> QED  BY <1>c, <2>1, <2>4
<1>6. CASE Leave
  <2>1. SortShapes' /\ Sort'
    BY <1>0, <1>6, LeaveStep
  <2>2. /\ pc = "sort" /\ UNCHANGED <<decodes, reqs, pc, next, served>>
    BY <1>6 DEF Leave
  <2>3. Phase'
    <3>1. served = <<>> /\ served' = <<>> /\ Len(order') \in Nat
      BY <1>0, <2>1, <2>2 DEF Phase, SortShapes
    <3> QED  BY <1>0, <1>b, <2>2, <3>1 DEF Phase
  <2> QED  BY <2>1, <2>3 DEF SortInv
<1>7. CASE Sorted
  <2>1. /\ pc = "sort" /\ pc' = "run" /\ stack = <<>> /\ next > Len(reqs)
        /\ UNCHANGED <<decodes, reqs, next, state, stack, order, served>>
    BY <1>7 DEF Sorted
  <2>2. ASSUME NEW i \in DOMAIN reqs PROVE state[i] = "done"
    <3>1. i < next /\ state[i] \in {"unvisited", "visiting", "done"}
      BY <1>0, <2>1 DEF SortShapes
    <3>2. state[i] # "unvisited"
      BY <1>0, <2>1, <3>1 DEF Sort, Reached
    <3>3. state[i] # "visiting"
      BY <1>0, <2>1 DEF Sort, OnStack
    <3> QED  BY <3>1, <3>2, <3>3
  <2>3. Phase'
    BY <1>0, <1>b, <2>1, <2>2 DEF Phase
  <2> QED  BY <1>d, <2>1, <2>3
<1>8. CASE Dispatch
  <2>1. /\ pc = "run" /\ Len(served) < Len(order)
        /\ served' = Append(served, order[Len(served) + 1])
        /\ UNCHANGED <<decodes, reqs, pc, next, state, stack, order>>
    BY <1>8 DEF Dispatch, Current
  <2>2. /\ served \in Seq(DOMAIN reqs) /\ order \in Seq(DOMAIN reqs)
        /\ Len(served) \in Nat /\ Len(order) \in Nat
    BY <1>0 DEF SortShapes
  <2>3. order[Len(served) + 1] \in DOMAIN reqs
    BY <2>1, <2>2
  <2>4. /\ served' \in Seq(DOMAIN reqs) /\ Len(served') = Len(served) + 1
        /\ \A k \in 1 .. Len(served) : served'[k] = served[k]
        /\ served'[Len(served) + 1] = order[Len(served) + 1]
    BY <2>1, <2>2, <2>3, Pushed
  <2>5. SortShapes'
    BY <1>0, <2>1, <2>4 DEF SortShapes, Frames
  <2>6. Sort'
    BY <1>0, <2>1 DEF Sort, OnStack, Chain, Looked, Emitted, Reached
  <2>7. ASSUME NEW k \in 1 .. Len(served') PROVE served'[k] = order'[k]
    <3>1. CASE k \in 1 .. Len(served)
      BY <1>0, <2>1, <2>4, <3>1 DEF Phase
    <3>2. CASE k = Len(served) + 1
      BY <2>1, <2>4, <3>2
    <3> QED  BY <2>2, <2>4, <3>1, <3>2
  <2>8. Len(served') <= Len(order')
    BY <2>1, <2>2, <2>4
  <2>9. Phase'
    BY <1>0, <1>b, <2>1, <2>7, <2>8 DEF Phase
  <2> QED  BY <2>5, <2>6, <2>9 DEF SortInv
<1>9. CASE Respond
  <2>1. /\ pc = "run" /\ pc' = "done" /\ Len(served) = Len(order)
        /\ UNCHANGED <<decodes, reqs, next, state, stack, order, served>>
    BY <1>9 DEF Respond
  <2>2. Phase'
    BY <1>0, <1>b, <2>1 DEF Phase
  <2> QED  BY <1>d, <2>1, <2>2
<1>10. CASE Panic
  <2>1. /\ pc = "run" /\ pc' = "panicked"
        /\ UNCHANGED <<decodes, reqs, next, state, stack, order, served>>
    BY <1>10 DEF Panic
  <2>2. Phase'
    BY <1>0, <1>b, <2>1 DEF Phase
  <2> QED  BY <1>d, <2>1, <2>2
<1>11. CASE UNCHANGED batchVars
  <2>1. UNCHANGED <<decodes, reqs, pc, next, state, stack, order, served>>
    BY <1>11 DEF batchVars
  <2>2. SortShapes' /\ Sort'
    BY <1>0, <1>a, <2>1 DEF Sort, SortShapes
  <2>3. Phase'
    BY <1>0, <1>b, <2>1 DEF Phase
  <2> QED  BY <2>2, <2>3 DEF SortInv
<1> QED
  BY <1>1, <1>2, <1>3, <1>4, <1>5, <1>6, <1>7, <1>8, <1>9, <1>10, <1>11
  DEF BatchNext

\* The invariant of the sort holds throughout.
LEMMA BatchInvariant == BatchSpec => []SortInv
  BY BatchInitInv, BatchNextInv, PTL DEF BatchSpec

-----------------------------------------------------------------------------

\* The handler answers 400 to exactly the envelopes that are malformed, whatever
\* ids, dependencies and cycles they have and however many sub-requests
\* (batch.Handler, executionOrder).
THEOREM SortRejects == BatchSpec => []RejectsExactly
<1>1. SortInv => RejectsExactly
  <2> SUFFICES ASSUME SortInv, pc \in {"run", "done", "panicked"} PROVE WellFormed
    BY DEF SortInv, Phase, RejectsExactly
  <2>0. SortShapes /\ Emitted /\ Indexed /\ \A i \in DOMAIN reqs : state[i] = "done"
    BY DEF SortInv, Sort, Phase
  <2>1. ~ Cyclic
    BY <2>0, OrderedIsAcyclic
  <2>2. ASSUME NEW i \in DOMAIN reqs, NEW d \in reqs[i].dependsOn
        PROVE  \E j \in DOMAIN reqs : reqs[j].id = d
    <3>1. PICK k \in 1 .. Len(order) : order[k] = i
      BY <2>0 DEF Emitted
    <3>2. PICK m \in 1 .. Len(order) : reqs[order[m]].id = d
      BY <2>0, <3>1 DEF Emitted
    <3>3. order[m] \in DOMAIN reqs
      BY <2>0 DEF SortShapes
    <3> QED  BY <3>2, <3>3
  <2> QED  BY <2>0, <2>1, <2>2 DEF WellFormed, SortInv, Phase
<1> QED  BY <1>1, BatchInvariant, PTL

\* A sub-request is dispatched after everything it depends on, and when the
\* response goes out each was dispatched once, for any dependency graph
\* (executionOrder, the dispatch loop).
THEOREM SortOrders == BatchSpec => []DependenciesFirst
<1>1. SortInv => DependenciesFirst
  <2> SUFFICES ASSUME SortInv PROVE DependenciesFirst
    OBVIOUS
  <2>0. /\ SortShapes /\ Phase
        /\ served \in Seq(DOMAIN reqs) /\ order \in Seq(DOMAIN reqs)
        /\ Len(served) \in Nat /\ Len(order) \in Nat
        /\ DOMAIN served = 1 .. Len(served)
    BY DEF SortInv, SortShapes
  <2>1. CASE pc \notin {"run", "done", "panicked"}
    BY <2>0, <2>1 DEF Phase, DependenciesFirst
  <2>2. CASE pc \in {"run", "done", "panicked"}
    <3>0. /\ Emitted /\ Indexed /\ \A i \in DOMAIN reqs : state[i] = "done"
          /\ Len(served) <= Len(order)
          /\ \A k \in 1 .. Len(served) : served[k] = order[k]
          /\ pc = "done" => Len(served) = Len(order)
      BY <2>0, <2>2 DEF SortInv, Sort, Phase
    <3>1. ASSUME NEW k \in 1 .. Len(served), NEW j \in Deps(served[k])
          PROVE  \E m \in 1 .. k - 1 : served[m] = j
      <4>1. /\ k \in 1 .. Len(order) /\ j \in DOMAIN reqs
            /\ reqs[j].id \in reqs[order[k]].dependsOn
        BY <2>0, <3>0 DEF Deps
      <4>a. \A d \in reqs[order[k]].dependsOn :
              \E m \in 1 .. Len(order) : m < k /\ reqs[order[m]].id = d
        BY <3>0, <4>1 DEF Emitted
      <4>2. PICK m \in 1 .. Len(order) : m < k /\ reqs[order[m]].id = reqs[j].id
        BY <4>1, <4>a
      <4>3. order[m] = j
        BY <2>0, <3>0, <4>1, <4>2 DEF Indexed
      <4>4. m \in 1 .. k - 1 /\ m \in 1 .. Len(served)
        BY <2>0, <4>2
      <4> QED  BY <3>0, <4>3, <4>4
    <3>2. ASSUME pc = "done", NEW i \in DOMAIN reqs
          PROVE  \E k \in 1 .. Len(served) :
                   served[k] = i /\ \A m \in 1 .. Len(served) : served[m] = i => m = k
      <4>1. PICK k \in 1 .. Len(order) : order[k] = i
        BY <3>0 DEF Emitted
      <4>2. k \in 1 .. Len(served) /\ served[k] = i
        BY <3>0, <3>2, <4>1
      <4>3. \A m \in 1 .. Len(served) : served[m] = i => m = k
        BY <3>0, <3>2, <4>1 DEF Emitted
      <4> QED  BY <4>2, <4>3
    <3> QED  BY <2>0, <3>1, <3>2 DEF DependenciesFirst
  <2> QED  BY <2>1, <2>2
<1> QED  BY <1>1, BatchInvariant, PTL

-----------------------------------------------------------------------------
(***************************************************************************)
(* Inbox rules, for any requests, bodies and scripts found, over either    *)
(* transport.                                                              *)
(***************************************************************************)

Members == {"pc", "seen", "off", "clean", "op", "id", "edit", "rule", "next"}

\* A request that will leave out the activation saw the script active, and it
\* still is, unless another client switched since.
SeenInForce ==
  \A r \in Requests :
    /\ Members \subseteq DOMAIN req[r]
    /\ req[r].pc \in {"idle", "list"} => req[r].seen # "active"
    /\ req[r].pc = "put" /\ req[r].seen = "active" => active = "mailboxd" \/ req[r].off

RulesInv == DOMAIN req = Requests /\ SeenInForce

\* What an answered request looks like.
LEMMA EndedFields ==
  ASSUME NEW how
  PROVE  /\ Members \subseteq DOMAIN Ended(how)
         /\ Ended(how).pc = how
         /\ Ended(how).seen = None
  BY DEF Ended, Idle, Members

\* One request moves on while the script that runs stays the same one.
LEMMA MoveStep ==
  ASSUME RulesInv, NEW r \in Requests, NEW new, req' = [req EXCEPT ![r] = new],
         active' = active, Members \subseteq DOMAIN new,
         new.pc \in {"idle", "list"} => new.seen # "active",
         new.pc = "put" /\ new.seen = "active" => active = "mailboxd" \/ new.off
  PROVE  RulesInv'
  BY DEF RulesInv, SeenInForce

\* A request that ends while the active script stays the same keeps the invariant.
LEMMA EndStep ==
  ASSUME RulesInv, NEW r \in Requests, NEW how \in {"not found", "error", "ok"},
         req' = [req EXCEPT ![r] = Ended(how)], active' = active
  PROVE  RulesInv'
  BY EndedFields, MoveStep

\* The edit of the list goes on to the rewrite of the script: the look, if there
\* is one, is still to come.
LEMMA EditStep ==
  ASSUME RulesInv, NEW r \in Requests, NEW new, req' = [req EXCEPT ![r] = new],
         active' = active, DOMAIN new = DOMAIN req[r],
         req[r].pc \in {"idle", "list"}, new.seen = req[r].seen
  PROVE  RulesInv'
  <1>1. Members \subseteq DOMAIN new /\ new.seen # "active"
    BY DEF RulesInv, SeenInForce
  <1> QED  BY <1>1, MoveStep

\* The invariant holds before the first request.
LEMMA RulesInitInv == Init => RulesInv
  BY RulesAssumption DEF Init, Idle, RulesInv, SeenInForce, Members

\* A step that writes the script: the others remember that, the writer goes on
\* to activate it or is done.
LEMMA PutStep ==
  ASSUME RulesInv, NEW r \in Requests, PutScript(r)
  PROVE  RulesInv'
  <1> DEFINE new == IF req[r].seen = "active" THEN Ended("ok") ELSE [req[r] EXCEPT !.pc = "activate"]
  <1>1. /\ req[r].pc = "put" /\ active' = active
        /\ req' = [Disturb(r) EXCEPT ![r] = new]
    BY DEF PutScript, Disturb
  <1>2. /\ Members \subseteq DOMAIN new /\ new.pc \in {"ok", "activate"}
    BY EndedFields DEF RulesInv, SeenInForce, Members
  <1>3. ASSUME NEW q \in Requests, q # r
        PROVE  /\ DOMAIN req'[q] = DOMAIN req[q]
               /\ req'[q].pc = req[q].pc /\ req'[q].seen = req[q].seen /\ req'[q].off = req[q].off
    <2>1. req'[q] = req[q] \/ req'[q] = [req[q] EXCEPT !.clean = FALSE]
      BY <1>1, <1>3 DEF Disturb
    <2>2. {"pc", "seen", "off"} \subseteq DOMAIN req[q]
      BY DEF RulesInv, SeenInForce, Members
    <2> QED  BY <2>1, <2>2
  <1>4. req'[r] = new /\ DOMAIN req' = Requests
    BY <1>1 DEF Disturb
  <1> HIDE DEF new
  <1> QED  BY <1>1, <1>2, <1>3, <1>4 DEF RulesInv, SeenInForce

\* Another client's switch is remembered by every request under way.
LEMMA SwitchStep ==
  ASSUME RulesInv, OtherClient
  PROVE  RulesInv'
  <1>1. req' = [r \in Requests |-> IF Open(r) THEN [req[r] EXCEPT !.off = TRUE] ELSE req[r]]
    BY DEF OtherClient
  <1>2. ASSUME NEW r \in Requests
        PROVE  /\ DOMAIN req'[r] = DOMAIN req[r]
               /\ req'[r].pc = req[r].pc /\ req'[r].seen = req[r].seen
               /\ req[r].pc = "put" => req'[r].off
    <2>1. req'[r] = IF Open(r) THEN [req[r] EXCEPT !.off = TRUE] ELSE req[r]
      BY <1>1
    <2>2. {"pc", "seen", "off"} \subseteq DOMAIN req[r]
      BY DEF RulesInv, SeenInForce, Members
    <2> QED  BY <2>1, <2>2 DEF Open
  <1> QED  BY <1>1, <1>2 DEF RulesInv, SeenInForce

\* Each step on the script keeps the invariant.
LEMMA RulesNextInv == RulesInv /\ [Next]_vars => RulesInv'
  <1> SUFFICES ASSUME RulesInv, [Next]_vars PROVE RulesInv'
    OBVIOUS
  <1>0. \A r \in Requests : {"pc", "seen", "off", "clean", "op", "id", "edit", "rule", "next"} \subseteq DOMAIN req[r]
    BY DEF RulesInv, SeenInForce, Members
  <1>1. ASSUME NEW r \in Requests, CreateRule(r) PROVE RulesInv'
    <2>1. PICK edit \in Edits :
            /\ req[r].pc = "idle" /\ active' = active
            /\ req' = [req EXCEPT ![r] =
                 [req[r] EXCEPT !.op = "create", !.pc = Rewrite, !.edit = edit,
                                !.next = Created(Rules, EmptyRule, edit)]]
      BY <1>1 DEF CreateRule
    <2> DEFINE new == [req[r] EXCEPT !.op = "create", !.pc = Rewrite, !.edit = edit,
                                     !.next = Created(Rules, EmptyRule, edit)]
    <2>2. DOMAIN new = DOMAIN req[r] /\ new.seen = req[r].seen
      BY <1>0
    <2> QED  BY <2>1, <2>2, EditStep
  <1>2. ASSUME NEW r \in Requests, GetRule(r) PROVE RulesInv'
    <2>1. PICK edit \in Edits, id \in Ids :
            LET found == {k \in DOMAIN Rules : Rules[k].id = id}
            IN  /\ req[r].pc = "idle" /\ active' = active
                /\ req' = [req EXCEPT ![r] =
                     IF found = {} THEN Ended("not found")
                     ELSE [req[r] EXCEPT !.op = "update", !.pc = "list", !.id = id, !.edit = edit,
                                         !.rule = MergeGraphRule(Rules[Min(found)], edit)]]
      BY <1>2 DEF GetRule
    <2> DEFINE found == {k \in DOMAIN Rules : Rules[k].id = id}
               new == [req[r] EXCEPT !.op = "update", !.pc = "list", !.id = id, !.edit = edit,
                                     !.rule = MergeGraphRule(Rules[Min(found)], edit)]
    <2>2. DOMAIN new = DOMAIN req[r] /\ new.seen = req[r].seen
      BY <1>0
    <2>3. /\ req[r].pc = "idle" /\ active' = active
          /\ req' = [req EXCEPT ![r] = Ended("not found")] \/ req' = [req EXCEPT ![r] = new]
      BY <2>1
    <2> HIDE DEF new
    <2> QED  BY <2>2, <2>3, EditStep, EndStep
  <1>3. ASSUME NEW r \in Requests, UpdateRule(r) PROVE RulesInv'
    <2> DEFINE new == [req[r] EXCEPT !.pc = Rewrite, !.next = Updated(Rules, req[r].id, req[r].rule)]
    <2>1. /\ req[r].pc = "list" /\ active' = active
          /\ req' = [req EXCEPT ![r] = Ended("not found")] \/ req' = [req EXCEPT ![r] = new]
      BY <1>3 DEF UpdateRule
    <2>2. DOMAIN new = DOMAIN req[r] /\ new.seen = req[r].seen
      BY <1>0
    <2> HIDE DEF new
    <2> QED  BY <2>1, <2>2, EditStep, EndStep
  <1>4. ASSUME NEW r \in Requests, DeleteRule(r) PROVE RulesInv'
    <2>1. PICK id \in Ids :
            /\ req[r].pc = "idle" /\ active' = active
            /\ req' = [req EXCEPT ![r] =
                 IF id \notin IdsOf(Rules) THEN Ended("not found")
                 ELSE [req[r] EXCEPT !.op = "delete", !.pc = Rewrite, !.id = id,
                                     !.next = Deleted(Rules, id)]]
      BY <1>4 DEF DeleteRule
    <2> DEFINE new == [req[r] EXCEPT !.op = "delete", !.pc = Rewrite, !.id = id,
                                     !.next = Deleted(Rules, id)]
    <2>2. DOMAIN new = DOMAIN req[r] /\ new.seen = req[r].seen
      BY <1>0
    <2>3. req' = [req EXCEPT ![r] = Ended("not found")] \/ req' = [req EXCEPT ![r] = new]
      BY <2>1
    <2> HIDE DEF new
    <2> QED  BY <2>1, <2>2, <2>3, EditStep, EndStep
  <1>5. ASSUME NEW r \in Requests, Look(r) PROVE RulesInv'
    <2> DEFINE seen == IF script = None THEN "absent"
                       ELSE IF active = "mailboxd" THEN "active" ELSE "present"
               new == [req[r] EXCEPT !.pc = "put", !.seen = seen]
    <2>1. req' = [req EXCEPT ![r] = new] /\ active' = active
      BY <1>5 DEF Look
    <2>2. Members \subseteq DOMAIN new /\ new.pc = "put" /\ new.seen = seen
      BY <1>0 DEF Members
    <2>3. seen = "active" => active = "mailboxd"
      OBVIOUS
    <2> HIDE DEF new, seen
    <2> QED  BY <2>1, <2>2, <2>3, MoveStep
  <1>6. ASSUME NEW r \in Requests, PutScript(r) PROVE RulesInv'
    BY <1>6, PutStep
  <1>7. ASSUME NEW r \in Requests, Activate(r) PROVE RulesInv'
    <2>1. req' = [req EXCEPT ![r] = Ended("ok")] /\ active' = "mailboxd"
      BY <1>7 DEF Activate
    <2> QED  BY <2>1, EndedFields DEF RulesInv, SeenInForce
  <1>8. ASSUME NEW r \in Requests, Fail(r) PROVE RulesInv'
    BY <1>8, EndStep DEF Fail
  <1>9. CASE OtherClient
    BY <1>9, SwitchStep
  <1>10. CASE UNCHANGED vars
    BY <1>10 DEF vars, RulesInv, SeenInForce
  <1> QED  BY <1>1, <1>2, <1>3, <1>4, <1>5, <1>6, <1>7, <1>8, <1>9, <1>10 DEF Next

\* A request answered with success leaves our script the one that runs, unless
\* another client switched meanwhile: no interleaving makes the look of
\* SetActiveContent stale without that, and an unfinished activation of an
\* earlier request is noticed.
THEOREM StaysInForce == Spec => InForce
  <1> DEFINE Forced == \A r \in Requests :
       (Open(r) /\ req'[r].pc = "ok") => active' = "mailboxd" \/ req[r].off
  <1>1. RulesInv /\ [Next]_vars => [Forced]_vars
    <2> SUFFICES ASSUME RulesInv, Next, NEW r \in Requests, Open(r), req'[r].pc = "ok"
                 PROVE  active' = "mailboxd" \/ req[r].off
      OBVIOUS
    <2>0. \A q \in Requests : {"pc", "seen", "off", "clean", "op", "id", "edit", "rule", "next"} \subseteq DOMAIN req[q]
      BY DEF RulesInv, SeenInForce, Members
    <2>1. DOMAIN req = Requests /\ req[r].pc \in {"list", "look", "put", "activate"}
      BY DEF RulesInv, Open
    <2>2. ASSUME NEW q \in Requests, CreateRule(q) \/ GetRule(q) \/ DeleteRule(q) PROVE FALSE
      <3>1. q # r /\ \E new : req' = [req EXCEPT ![q] = new]
        BY <2>1, <2>2 DEF CreateRule, GetRule, DeleteRule
      <3>2. req'[r] = req[r]
        BY <2>1, <3>1
      <3> QED  BY <2>1, <3>2
    <2>3. ASSUME NEW q \in Requests, UpdateRule(q) PROVE FALSE
      <3> DEFINE new == [req[q] EXCEPT !.pc = Rewrite, !.next = Updated(Rules, req[q].id, req[q].rule)]
      <3>1. req' = [req EXCEPT ![q] = Ended("not found")] \/ req' = [req EXCEPT ![q] = new]
        BY <2>3 DEF UpdateRule
      <3>2. new.pc \in {"look", "put"}
        BY <2>0 DEF Rewrite
      <3> HIDE DEF new
      <3> QED  BY <2>1, <3>1, <3>2, EndedFields
    <2>4. ASSUME NEW q \in Requests, Look(q) PROVE FALSE
      BY <2>0, <2>1, <2>4 DEF Look
    <2>5. ASSUME NEW q \in Requests, PutScript(q) PROVE active' = "mailboxd" \/ req[r].off
      <3> DEFINE new == IF req[q].seen = "active" THEN Ended("ok") ELSE [req[q] EXCEPT !.pc = "activate"]
      <3>1. /\ req[q].pc = "put" /\ active' = active
            /\ req' = [Disturb(q) EXCEPT ![q] = new]
        BY <2>5 DEF PutScript, Disturb
      <3>2. CASE q = r
        <4>1. req'[r] = new
          BY <3>1, <3>2 DEF Disturb
        <4>2. req[r].seen = "active"
          BY <2>0, <3>2, <4>1
        <4> QED  BY <3>1, <3>2, <4>2 DEF RulesInv, SeenInForce
      <3>3. CASE q # r
        <4>1. req'[r] = [req[r] EXCEPT !.clean = FALSE]
          BY <3>1, <3>3 DEF Disturb
        <4>2. req'[r].pc = req[r].pc
          BY <2>0, <4>1
        <4> QED  BY <2>1, <4>2
      <3> QED  BY <3>2, <3>3
    <2>6. ASSUME NEW q \in Requests, Activate(q) PROVE active' = "mailboxd"
      BY <2>6 DEF Activate
    <2>7. ASSUME NEW q \in Requests, Fail(q) PROVE FALSE
      BY <2>1, <2>7, EndedFields DEF Fail
    <2>8. CASE OtherClient
      <3>1. req'[r] = [req[r] EXCEPT !.off = TRUE]
        BY <2>8 DEF OtherClient
      <3> QED  BY <2>0, <2>1, <3>1
    <2> QED  BY <2>2, <2>3, <2>4, <2>5, <2>6, <2>7, <2>8 DEF Next
  <1> QED  BY <1>1, RulesInitInv, RulesNextInv, PTL DEF Spec, InForce

-----------------------------------------------------------------------------
(***************************************************************************)
(* Loops and sorts.  Kept and Ordered lay out a set of positions by rank: the *)
(* rank of a position is the number of positions that come no later.  Ranks *)
(* are distinct, and as many as there are positions, so each is taken once. *)
(***************************************************************************)

\* The members of a finite set are laid out by a total order: upto[i] are those
\* that come no later than i.
Ordering(K, upto) ==
  /\ \A i \in K : i \in upto[i]
  /\ \A i, j \in K : i \in upto[j] \/ j \in upto[i]
  /\ \A i, j \in K : i \in upto[j] => upto[i] \subseteq upto[j]
  /\ \A i, j \in K : i \in upto[j] /\ j \in upto[i] => i = j

\* Arranged lists each member of the set once, in that order.
InOrder(K, upto) ==
  /\ Cardinality(K) \in Nat
  /\ Arranged(K, upto) \in [1..Cardinality(K) -> K]
  /\ \A i \in K : \E k \in 1..Cardinality(K) : Arranged(K, upto)[k] = i
  /\ \A k, m \in 1..Cardinality(K) :
       k <= m <=> Arranged(K, upto)[k] \in upto[Arranged(K, upto)[m]]
  /\ \A i \in K, k \in 1..Cardinality(K) :
       Cardinality(upto[i]) = k => Arranged(K, upto)[k] = i

\* It does: the ranks are distinct, as many as there are members, and so all of
\* them are taken.
LEMMA Ranked ==
  ASSUME NEW K, IsFiniteSet(K), NEW upto \in [K -> SUBSET K], Ordering(K, upto)
  PROVE  InOrder(K, upto)
  <1> DEFINE n == Cardinality(K)
             rank == [i \in K |-> Cardinality(upto[i])]
             at == Arranged(K, upto)
  <1>1. n \in Nat
    BY FS_CardinalityType
  <1>2. ASSUME NEW i \in K
        PROVE  IsFiniteSet(upto[i]) /\ Cardinality(upto[i]) \in 1..n
    <2>1. /\ IsFiniteSet(upto[i]) /\ Cardinality(upto[i]) <= n
      BY FS_Subset
    <2>2. Cardinality(upto[i]) \in Nat
      BY <2>1, FS_CardinalityType
    <2>3. upto[i] # {}
      BY DEF Ordering
    <2>4. Cardinality(upto[i]) # 0
      BY <2>1, <2>3, FS_EmptySet
    <2> QED  BY <1>1, <2>1, <2>2, <2>4
  <1>3. ASSUME NEW i \in K, NEW j \in K, i \in upto[j], i # j
        PROVE  Cardinality(upto[i]) < Cardinality(upto[j])
    <2>1. upto[i] \in SUBSET upto[j] /\ j \in upto[j] /\ j \notin upto[i]
      BY <1>3 DEF Ordering
    <2>2. IsFiniteSet(upto[j])
      BY <1>2
    <2>3. /\ Cardinality(upto[i]) <= Cardinality(upto[j])
          /\ Cardinality(upto[j]) = Cardinality(upto[i]) => upto[j] = upto[i]
      BY <2>1, <2>2, FS_Subset
    <2>4. Cardinality(upto[i]) \in Nat /\ Cardinality(upto[j]) \in Nat
      BY <1>2
    <2> QED  BY <2>1, <2>3, <2>4
  <1>4. \A i, j \in K : Cardinality(upto[i]) = Cardinality(upto[j]) => i = j
    <2> SUFFICES ASSUME NEW i \in K, NEW j \in K, i # j
                 PROVE  Cardinality(upto[i]) # Cardinality(upto[j])
      OBVIOUS
    <2>1. Cardinality(upto[i]) \in Nat /\ Cardinality(upto[j]) \in Nat
      BY <1>2
    <2>2. i \in upto[j] \/ j \in upto[i]
      BY DEF Ordering
    <2> QED  BY <1>3, <2>1, <2>2
  <1>5. rank \in Injection(K, 1..n)
    <2>1. rank \in [K -> 1..n]
      BY <1>2
    <2>2. IsInjective(rank)
      BY <1>4 DEF IsInjective
    <2> QED  BY <2>1, <2>2 DEF Injection
  <1>6. rank \in Surjection(K, 1..n)
    <2>1. IsFiniteSet(1..n) /\ Cardinality(1..n) = n
      <3>1. IsFiniteSet(1..n) /\ Cardinality(1..n) = IF 1 > n THEN 0 ELSE n - 1 + 1
        BY <1>1, FS_Interval
      <3>2. (IF 1 > n THEN 0 ELSE n - 1 + 1) = n
        <4> HIDE DEF n
        <4> QED  BY <1>1
      <3> QED  BY <3>1, <3>2
    <2>2. \A T : IsFiniteSet(T) /\ rank \in Injection(K, T) /\ Cardinality(K) = Cardinality(T)
                   => rank \in Surjection(K, T)
      BY FS_Injection
    <2> QED  BY <1>5, <2>1, <2>2
  <1>7. ASSUME NEW k \in 1..n PROVE at[k] \in K /\ Cardinality(upto[at[k]]) = k
    <2>1. \E i \in K : rank[i] = k
      BY <1>6 DEF Surjection
    <2>2. \E i \in K : Cardinality(upto[i]) = k
      BY <2>1
    <2>3. at[k] = CHOOSE i \in K : Cardinality(upto[i]) = k
      BY DEF Arranged
    <2> QED  BY <2>2, <2>3
  <1>8. at \in [1..n -> K]
    BY <1>7 DEF Arranged
  <1>9. \A i \in K, k \in 1..n : Cardinality(upto[i]) = k => at[k] = i
    BY <1>4, <1>7
  <1>10. \A i \in K : \E k \in 1..n : at[k] = i
    BY <1>2, <1>9
  <1>11. ASSUME NEW k \in 1..n, NEW m \in 1..n PROVE k <= m <=> at[k] \in upto[at[m]]
    <2>1. /\ at[k] \in K /\ Cardinality(upto[at[k]]) = k
          /\ at[m] \in K /\ Cardinality(upto[at[m]]) = m
      BY <1>7
    <2>2. CASE at[k] = at[m]
      BY <1>1, <2>1, <2>2 DEF Ordering
    <2>3. CASE at[k] # at[m] /\ at[k] \in upto[at[m]]
      BY <1>1, <1>3, <2>1, <2>3
    <2>4. CASE at[k] # at[m] /\ at[k] \notin upto[at[m]]
      <3>1. at[m] \in upto[at[k]]
        BY <2>1, <2>4 DEF Ordering
      <3>2. m < k
        BY <1>3, <2>1, <2>4, <3>1
      <3> QED  BY <1>1, <2>4, <3>2
    <2> QED  BY <2>2, <2>3, <2>4
  <1> QED  BY <1>1, <1>8, <1>9, <1>10, <1>11 DEF InOrder

\* What is numbered without gaps and repetitions has as many members.
LEMMA Numbered ==
  ASSUME NEW T, NEW k \in Nat, NEW g \in [1..k -> T],
         \A i, j \in 1..k : g[i] = g[j] => i = j, \A t \in T : \E i \in 1..k : g[i] = t
  PROVE  IsFiniteSet(T) /\ Cardinality(T) = k
  <1>1. g \in Bijection(1..k, T)
    BY DEF Bijection, Injection, Surjection, IsInjective
  <1>2. ExistsBijection(1..k, T)
    BY <1>1 DEF ExistsBijection
  <1> QED  BY <1>2, FS_CountingElements, FS_NatBijection

\* f lists the positions in K from the first to the last.
Lists(f, n, K) ==
  /\ n \in Nat /\ f \in [1..n -> K]
  /\ \A i \in K : \E k \in 1..n : f[k] = i
  /\ \A k, m \in 1..n : k < m => f[k] < f[m]

\* The entries of s at the positions that f lists.
Through(s, f, n) == [k \in 1..n |-> s[f[k]]]

\* The positions up to i.
Upto(K) == [i \in K |-> {j \in K : j <= i}]

\* Positions are totally ordered.
LEMMA UptoOrders ==
  ASSUME NEW K \in SUBSET Int
  PROVE  Upto(K) \in [K -> SUBSET K] /\ Ordering(K, Upto(K))
  <1>1. Upto(K) \in [K -> SUBSET K] /\ \A i, j \in K : j \in Upto(K)[i] <=> j <= i
    BY DEF Upto
  <1>2. \A i \in K : i \in Int
    OBVIOUS
  <1>3. \A i \in K : i \in Upto(K)[i]
    BY <1>1, <1>2
  <1>4. \A i, j \in K : i \in Upto(K)[j] \/ j \in Upto(K)[i]
    BY <1>1, <1>2
  <1>5. \A i, j \in K : i \in Upto(K)[j] /\ j \in Upto(K)[i] => i = j
    BY <1>1, <1>2
  <1>6. ASSUME NEW i \in K, NEW j \in K, i \in Upto(K)[j] PROVE Upto(K)[i] \subseteq Upto(K)[j]
    <2>1. \A m \in K : m <= i => m <= j
      BY <1>1, <1>2, <1>6
    <2> QED  BY <1>1, <2>1
  <1> QED  BY <1>1, <1>3, <1>4, <1>5, <1>6 DEF Ordering

\* Kept follows the one list of the positions: it exists,
LEMMA KeptLists ==
  ASSUME NEW K \in SUBSET Int, IsFiniteSet(K)
  PROVE  \E f : /\ Lists(f, Cardinality(K), K)
                /\ \A s : Kept(s, K) = Through(s, f, Cardinality(K))
  <1> DEFINE n == Cardinality(K)
             at == Arranged(K, Upto(K))
  <1>1. Upto(K) \in [K -> SUBSET K] /\ Ordering(K, Upto(K))
    BY UptoOrders
  <1>2. /\ n \in Nat /\ at \in [1..n -> K]
        /\ \A i \in K : \E k \in 1..n : at[k] = i
        /\ \A k, m \in 1..n : k <= m <=> at[k] \in Upto(K)[at[m]]
    <2>1. InOrder(K, Upto(K))
      BY <1>1, Ranked
    <2> QED  BY <2>1 DEF InOrder
  <1>3. ASSUME NEW k \in 1..n, NEW m \in 1..n, k < m PROVE at[k] < at[m]
    <2>1. at[k] \in K /\ at[m] \in K /\ k <= m /\ ~(m <= k)
      BY <1>2, <1>3
    <2>2. at[k] \in Upto(K)[at[m]] /\ at[m] \notin Upto(K)[at[k]]
      BY <1>2, <2>1
    <2>3. at[k] <= at[m] /\ ~(at[m] <= at[k])
      BY <2>1, <2>2 DEF Upto
    <2>4. at[k] \in Int /\ at[m] \in Int
      BY <2>1
    <2> HIDE DEF at
    <2> QED  BY <2>3, <2>4
  <1>4. Lists(at, n, K)
    BY <1>2, <1>3 DEF Lists
  <1>5. ASSUME NEW s PROVE Kept(s, K) = Through(s, at, n)
    BY DEF Kept, Upto, Through
  <1> QED  BY <1>4, <1>5

\* and any list of them is that one.
LEMMA KeptIs ==
  ASSUME NEW K \in SUBSET Int, NEW n, NEW f, Lists(f, n, K), NEW s
  PROVE  /\ IsFiniteSet(K) /\ Cardinality(K) = n
         /\ Kept(s, K) = Through(s, f, n)
  <1>0. /\ n \in Nat /\ f \in [1..n -> K]
        /\ \A i \in K : \E k \in 1..n : f[k] = i
        /\ \A k, m \in 1..n : k < m => f[k] < f[m]
    BY DEF Lists
  <1>1. \A k, m \in 1..n : f[k] <= f[m] <=> k <= m
    <2> SUFFICES ASSUME NEW k \in 1..n, NEW m \in 1..n PROVE f[k] <= f[m] <=> k <= m
      OBVIOUS
    <2>1. f[k] \in Int /\ f[m] \in Int /\ k \in Int /\ m \in Int
      <3>1. f[k] \in K /\ f[m] \in K
        BY <1>0
      <3>2. k \in Int /\ m \in Int
        OBVIOUS
      <3>3. \A i \in K : i \in Int
        OBVIOUS
      <3> QED  BY <3>1, <3>2, <3>3
    <2>2. (k < m => f[k] < f[m]) /\ (m < k => f[m] < f[k])
      BY <1>0
    <2>3. k = m => f[k] = f[m]
      OBVIOUS
    <2> QED  BY <2>1, <2>2, <2>3
  <1>2. \A k, m \in 1..n : f[k] = f[m] => k = m
    BY <1>0, <1>1
  <1>5. IsFiniteSet(K) /\ Cardinality(K) = n
    BY <1>0, <1>2, Numbered
  <1>6. ASSUME NEW k \in 1..n PROVE Cardinality(Upto(K)[f[k]]) = k
    <2> DEFINE g == [i \in 1..k |-> f[i]]
    <2>0. k \in Nat /\ 1..k \subseteq 1..n
      BY <1>0
    <2>1. f[k] \in K /\ Upto(K)[f[k]] = {j \in K : j <= f[k]}
      BY <1>0 DEF Upto
    <2>2. \A i \in 1..k : f[i] \in K /\ f[i] <= f[k]
      BY <1>0, <1>1, <2>0
    <2>3. g \in [1..k -> Upto(K)[f[k]]]
      BY <2>1, <2>2
    <2>4. \A i, j \in 1..k : g[i] = g[j] => i = j
      BY <1>2, <2>0
    <2>5. ASSUME NEW t \in Upto(K)[f[k]] PROVE \E i \in 1..k : g[i] = t
      <3>1. PICK i \in 1..n : f[i] = t
        BY <1>0, <2>1
      <3>2. i <= k
        BY <1>1, <2>1, <3>1
      <3> QED  BY <1>0, <2>0, <3>1, <3>2
    <2> HIDE DEF g
    <2> QED  BY <2>0, <2>3, <2>4, <2>5, Numbered
  <1>7. Upto(K) \in [K -> SUBSET K] /\ Ordering(K, Upto(K))
    BY UptoOrders
  <1>8. \A i \in K, k \in 1..n : Cardinality(Upto(K)[i]) = k => Arranged(K, Upto(K))[k] = i
    <2>1. InOrder(K, Upto(K))
      BY <1>5, <1>7, Ranked
    <2> QED  BY <1>5, <2>1 DEF InOrder
  <1>9. \A k \in 1..n : Arranged(K, Upto(K))[k] = f[k]
    BY <1>0, <1>6, <1>8
  <1>10. Kept(s, K) = [k \in 1..n |-> s[Arranged(K, Upto(K))[k]]]
    BY <1>5 DEF Kept, Upto
  <1> QED  BY <1>5, <1>9, <1>10 DEF Through

\* A loop over what a loop has kept keeps what one loop would.
LEMMA KeptOfKept ==
  ASSUME NEW K \in SUBSET Int, NEW m, NEW at, Lists(at, m, K),
         NEW L \in SUBSET K, NEW q, NEW h, Lists(h, q, L), NEW s
  PROVE  Kept(Through(s, at, m), {i \in 1..m : at[i] \in L}) = Through(s, h, q)
  <1> DEFINE D == {i \in 1..m : at[i] \in L}
             g == [j \in 1..q |-> CHOOSE i \in 1..m : at[i] = h[j]]
             t == Through(s, at, m)
  <1>1. /\ m \in Nat /\ at \in [1..m -> K]
        /\ \A i \in K : \E k \in 1..m : at[k] = i
        /\ \A k, l \in 1..m : k < l => at[k] < at[l]
    BY DEF Lists
  <1>2. /\ q \in Nat /\ h \in [1..q -> L]
        /\ \A i \in L : \E k \in 1..q : h[k] = i
        /\ \A k, l \in 1..q : k < l => h[k] < h[l]
    BY DEF Lists
  <1>3. ASSUME NEW j \in 1..q PROVE g[j] \in 1..m /\ at[g[j]] = h[j] /\ g[j] \in D
    <2>1. h[j] \in K /\ h[j] \in L
      BY <1>2
    <2>2. \E i \in 1..m : at[i] = h[j]
      BY <1>1, <2>1
    <2>3. g[j] = CHOOSE i \in 1..m : at[i] = h[j]
      OBVIOUS
    <2>4. g[j] \in 1..m /\ at[g[j]] = h[j]
      BY <2>2, <2>3
    <2> QED  BY <2>1, <2>4
  <1>4. g \in [1..q -> D]
    BY <1>3
  <1>5. ASSUME NEW k \in 1..q, NEW l \in 1..q, k < l PROVE g[k] < g[l]
    <2>1. /\ g[k] \in 1..m /\ g[l] \in 1..m /\ at[g[k]] = h[k] /\ at[g[l]] = h[l]
      BY <1>3
    <2> HIDE DEF g
    <2>2. h[k] < h[l] /\ h[k] \in Int /\ h[l] \in Int
      <3>1. h[k] \in L /\ h[l] \in L
        BY <1>2
      <3>2. \A i \in L : i \in Int
        OBVIOUS
      <3> QED  BY <1>2, <1>5, <3>1, <3>2
    <2>3. ~ (g[l] < g[k])
      <3>1. g[l] < g[k] => h[l] < h[k]
        BY <1>1, <2>1
      <3> QED  BY <2>2, <3>1
    <2>4. g[l] # g[k]
      BY <2>1, <2>2
    <2>5. g[k] \in Int /\ g[l] \in Int
      BY <2>1
    <2> QED  BY <2>3, <2>4, <2>5
  <1>6. ASSUME NEW i \in D PROVE \E j \in 1..q : g[j] = i
    <2>1. i \in 1..m /\ at[i] \in L
      OBVIOUS
    <2>2. PICK j \in 1..q : h[j] = at[i]
      BY <1>2, <2>1
    <2>3. g[j] \in 1..m /\ at[g[j]] = at[i]
      BY <1>3, <2>2
    <2> HIDE DEF g
    <2>4. at[i] \in Int
      BY <2>1
    <2>5. ~ (g[j] < i) /\ ~ (i < g[j])
      BY <1>1, <2>1, <2>3, <2>4
    <2>6. g[j] \in Int /\ i \in Int
      BY <2>1, <2>3
    <2>7. g[j] = i
      BY <2>5, <2>6
    <2> QED  BY <2>7
  <1>7. Lists(g, q, D)
    <2> HIDE DEF g, D
    <2> QED  BY <1>2, <1>4, <1>5, <1>6 DEF Lists
  <1>8. Kept(t, D) = Through(t, g, q)
    <2>1. D \in SUBSET Int
      OBVIOUS
    <2> HIDE DEF g, D, t
    <2> QED  BY <1>7, <2>1, KeptIs
  <1>9. \A j \in 1..q : t[g[j]] = s[h[j]]
    <2> SUFFICES ASSUME NEW j \in 1..q PROVE t[g[j]] = s[h[j]]
      OBVIOUS
    <2>1. g[j] \in 1..m /\ at[g[j]] = h[j]
      BY <1>3
    <2> HIDE DEF g
    <2> QED  BY <2>1 DEF Through
  <1>10. Through(t, g, q) = Through(s, h, q)
    <2> HIDE DEF t, g
    <2> QED  BY <1>9 DEF Through
  <1> QED  BY <1>8, <1>10

\* A finite range of positions, and a part of it.
LEMMA Positions ==
  ASSUME NEW n \in Nat, NEW K \in SUBSET (1..n)
  PROVE  K \in SUBSET Int /\ IsFiniteSet(K) /\ IsFiniteSet(1..n) /\ Cardinality(1..n) = n
  <1>1. IsFiniteSet(1..n) /\ Cardinality(1..n) = IF 1 > n THEN 0 ELSE n - 1 + 1
    BY FS_Interval
  <1>2. (IF 1 > n THEN 0 ELSE n - 1 + 1) = n
    OBVIOUS
  <1>3. IsFiniteSet(K)
    BY <1>1, FS_Subset
  <1> QED  BY <1>1, <1>2, <1>3

\* Ordered moves the rules and loses none: position k gets the rule from from[k].
Sorts(rules, from) ==
  /\ from \in [1..Len(rules) -> 1..Len(rules)]
  /\ \A i \in 1..Len(rules) : \E k \in 1..Len(rules) : from[k] = i
  /\ \A k, m \in 1..Len(rules) : from[k] = from[m] => k = m
  /\ \A k, m \in 1..Len(rules) : k <= m => rules[from[k]].seq <= rules[from[m]].seq
  /\ Ordered(rules) = [k \in 1..Len(rules) |-> rules[from[k]]]

\* The order of Sequence, ties broken by position, is a total order.
LEMMA OrderedSorts ==
  ASSUME NEW rules \in Seq(Rule)
  PROVE  \E from : Sorts(rules, from)
  <1> DEFINE n == Len(rules)
             K == 1..n
             upto == [i \in K |-> {j \in K : \/ rules[j].seq < rules[i].seq
                                             \/ rules[j].seq = rules[i].seq /\ j <= i}]
             from == Arranged(K, upto)
  <1>1. n \in Nat /\ DOMAIN rules = K /\ \A i \in K : rules[i].seq \in Int /\ i \in Int
    <2>1. n \in Nat /\ DOMAIN rules = K /\ \A i \in K : rules[i] \in Rule
      OBVIOUS
    <2> QED  BY <2>1 DEF Rule
  <1>2. IsFiniteSet(K) /\ Cardinality(K) = n
    BY <1>1, Positions
  <1>3. upto \in [K -> SUBSET K]
        /\ \A i, j \in K : j \in upto[i] <=> \/ rules[j].seq < rules[i].seq
                                             \/ rules[j].seq = rules[i].seq /\ j <= i
    OBVIOUS
  <1>4. Ordered(rules) = [k \in K |-> rules[from[k]]]
    BY <1>1 DEF Ordered
  <1> HIDE DEF upto, K
  <1>5. Ordering(K, upto)
    <2>1. \A i \in K : i \in upto[i]
      BY <1>1, <1>3
    <2>2. \A i, j \in K : i \in upto[j] \/ j \in upto[i]
      BY <1>1, <1>3
    <2>3. ASSUME NEW i \in K, NEW j \in K, i \in upto[j] PROVE upto[i] \subseteq upto[j]
      <3> SUFFICES ASSUME NEW k \in upto[i] PROVE k \in upto[j]
        OBVIOUS
      <3>1. k \in K
        BY <1>3
      <3> QED  BY <1>1, <1>3, <2>3, <3>1
    <2>4. \A i, j \in K : i \in upto[j] /\ j \in upto[i] => i = j
      BY <1>1, <1>3
    <2> QED  BY <2>1, <2>2, <2>3, <2>4 DEF Ordering
  <1>6. /\ from \in [1..n -> K]
        /\ \A i \in K : \E k \in 1..n : from[k] = i
        /\ \A k, m \in 1..n : k <= m <=> from[k] \in upto[from[m]]
    <2>1. InOrder(K, upto)
      BY <1>2, <1>3, <1>5, Ranked
    <2> QED  BY <1>2, <2>1 DEF InOrder
  <1> HIDE DEF from
  <1>7. ASSUME NEW k \in 1..n, NEW m \in 1..n, from[k] = from[m] PROVE k = m
    <2>1. from[k] \in upto[from[k]]
      BY <1>5, <1>6 DEF Ordering
    <2>2. k <= m /\ m <= k
      BY <1>6, <1>7, <2>1
    <2> QED  BY <2>2
  <1>8. ASSUME NEW k \in 1..n, NEW m \in 1..n, k <= m
        PROVE  rules[from[k]].seq <= rules[from[m]].seq
    <2>1. from[k] \in K /\ from[m] \in K /\ from[k] \in upto[from[m]]
      BY <1>6, <1>8
    <2>2. \/ rules[from[k]].seq < rules[from[m]].seq
          \/ rules[from[k]].seq = rules[from[m]].seq
      BY <1>3, <2>1
    <2>3. rules[from[k]].seq \in Int /\ rules[from[m]].seq \in Int
      BY <1>1, <2>1
    <2> QED  BY <2>2, <2>3
  <1>9. K = 1..Len(rules) /\ n = Len(rules)
    BY DEF K
  <1> QED  BY <1>4, <1>6, <1>7, <1>8, <1>9 DEF Sorts

-----------------------------------------------------------------------------
(***************************************************************************)
(* Scripts.  Of the two places Encode gives a rule, the odd one holds its  *)
(* comment and the even one its "if", so the comments of a script list all *)
(* the rules and its "if"s the enabled ones, both in the order of Sequence. *)
(***************************************************************************)

\* The two places of each rule.
LEMMA PlacesAre ==
  ASSUME NEW o \in Seq(Rule)
  PROVE  /\ Len(o) \in Nat /\ DOMAIN Places(o) = 1..(2 * Len(o))
         /\ \A k \in 1..Len(o) :
              /\ 2 * k - 1 \in 1..(2 * Len(o)) /\ 2 * k \in 1..(2 * Len(o))
              /\ Places(o)[2 * k - 1] = Comment(o[k])
              /\ Places(o)[2 * k] = IF o[k].on THEN BuildIf(o[k]) ELSE Blank
         /\ \A i \in 1..(2 * Len(o)) : \E k \in 1..Len(o) : i = 2 * k - 1 \/ i = 2 * k
  <1> DEFINE n == Len(o)
  <1>1. n \in Nat
    OBVIOUS
  <1>2. DOMAIN Places(o) = 1..(2 * n)
    BY DEF Places
  <1>3. \A i \in 1..(2 * n) : Places(o)[i] =
          LET rule == o[(i + 1) \div 2]
          IN  IF i % 2 = 1 THEN Comment(rule) ELSE IF rule.on THEN BuildIf(rule) ELSE Blank
    BY DEF Places
  <1> HIDE DEF n
  <1>4. ASSUME NEW k \in 1..n
        PROVE  /\ 2 * k - 1 \in 1..(2 * n) /\ 2 * k \in 1..(2 * n)
               /\ (2 * k - 1) % 2 = 1 /\ (2 * k) % 2 = 0
               /\ (2 * k - 1 + 1) \div 2 = k /\ (2 * k + 1) \div 2 = k
    BY <1>1
  <1>5. ASSUME NEW k \in 1..n
        PROVE  /\ Places(o)[2 * k - 1] = Comment(o[k])
               /\ Places(o)[2 * k] = IF o[k].on THEN BuildIf(o[k]) ELSE Blank
    <2>1. Places(o)[2 * k - 1] = Comment(o[k])
      <3> DEFINE i == 2 * k - 1
      <3>1. i \in 1..(2 * n) /\ i % 2 = 1 /\ (i + 1) \div 2 = k
        BY <1>4
      <3> HIDE DEF i
      <3>2. Places(o)[i] = Comment(o[k])
        BY <1>3, <3>1
      <3> QED  BY <3>2 DEF i
    <2>2. Places(o)[2 * k] = IF o[k].on THEN BuildIf(o[k]) ELSE Blank
      <3> DEFINE i == 2 * k
      <3>1. i \in 1..(2 * n) /\ i % 2 = 0 /\ (i + 1) \div 2 = k
        BY <1>4
      <3> HIDE DEF i
      <3>2. Places(o)[i] = IF o[k].on THEN BuildIf(o[k]) ELSE Blank
        BY <1>3, <3>1
      <3> QED  BY <3>2 DEF i
    <2> QED  BY <2>1, <2>2
  <1>6. ASSUME NEW i \in 1..(2 * n) PROVE \E k \in 1..n : i = 2 * k - 1 \/ i = 2 * k
    <2>1. /\ (i + 1) \div 2 \in 1..n
          /\ i = 2 * ((i + 1) \div 2) - 1 \/ i = 2 * ((i + 1) \div 2)
      BY <1>1
    <2> QED  BY <2>1
  <1>7. n = Len(o)
    BY DEF n
  <1> QED  BY <1>1, <1>2, <1>4, <1>5, <1>6, <1>7

\* Comments, "if"s and blank places are told apart.
LEMMA Kinds ==
  ASSUME NEW rule
  PROVE  /\ Comment(rule) # Blank /\ BuildIf(rule) # Blank
         /\ Comment(rule).kind = "comment" /\ Comment(rule).rule = rule
         /\ BuildIf(rule).kind = "if"
  <1>1. Comment(rule).kind = "comment" /\ BuildIf(rule).kind = "if" /\ Blank.kind = "blank"
    BY DEF Comment, BuildIf, Blank
  <1> QED  BY <1>1 DEF Comment

\* The enabled rules of a list.
Enabled(o) == {k \in 1..Len(o) : o[k].on}

\* What the script that Encode writes for the ordered list o reads back as.
LEMMA FilledReads ==
  ASSUME NEW o \in Seq(Rule)
  PROVE  /\ Filled(Places(o)) \in Seq(Command)
         /\ Comments(Filled(Places(o))) = [k \in 1..Len(o) |-> Comment(o[k])]
         /\ Ifs(Filled(Places(o))) =
              [j \in 1..Cardinality(Enabled(o)) |-> BuildIf(Kept(o, Enabled(o))[j])]
         /\ Cardinality(Enabled(o)) \in Nat
  <1> DEFINE n == Len(o)
             p == Places(o)
             s == Filled(p)
             K == {k \in 1..(2 * n) : p[k] # Blank}
             Odd == {2 * k - 1 : k \in 1..n}
             Even == {2 * k : k \in Enabled(o)}
  <1>1. /\ n \in Nat /\ DOMAIN p = 1..(2 * n)
        /\ \A k \in 1..n :
             /\ 2 * k - 1 \in 1..(2 * n) /\ 2 * k \in 1..(2 * n)
             /\ p[2 * k - 1] = Comment(o[k])
             /\ p[2 * k] = IF o[k].on THEN BuildIf(o[k]) ELSE Blank
        /\ \A i \in 1..(2 * n) : \E k \in 1..n : i = 2 * k - 1 \/ i = 2 * k
    BY PlacesAre
  <1>2. \A k \in 1..n : o[k] \in Rule
    OBVIOUS
  <1>3. s = Kept(p, K)
    BY <1>1 DEF Filled
  <1>e. Enabled(o) = {k \in 1..n : o[k].on}
    BY DEF Enabled
  <1>n. n = Len(o)
    OBVIOUS
  <1> HIDE DEF p, s, n
  <1>4. Odd \subseteq K /\ Even \subseteq K /\ K \subseteq 1..(2 * n)
    <2>1. ASSUME NEW k \in 1..n PROVE 2 * k - 1 \in K
      <3>1. p[2 * k - 1] = Comment(o[k]) /\ 2 * k - 1 \in 1..(2 * n)
        BY <1>1
      <3> QED  BY <3>1, Kinds
    <2>2. ASSUME NEW k \in Enabled(o) PROVE 2 * k \in K
      <3>1. k \in 1..n /\ o[k].on
        BY <1>e
      <3>2. p[2 * k] = BuildIf(o[k]) /\ 2 * k \in 1..(2 * n)
        BY <1>1, <3>1
      <3> QED  BY <3>2, Kinds
    <2> QED  BY <2>1, <2>2
  <1>5. K \in SUBSET Int /\ IsFiniteSet(K)
    <2>1. 2 * n \in Nat
      BY <1>1
    <2> QED  BY <1>4, <2>1, Positions
  <1>6. PICK at : /\ Lists(at, Cardinality(K), K)
                  /\ \A x : Kept(x, K) = Through(x, at, Cardinality(K))
    BY <1>5, KeptLists
  <1> DEFINE m == Cardinality(K)
  <1>7. s = Through(p, at, m)
    BY <1>3, <1>6
  <1>8. m \in Nat /\ \A i \in 1..m : at[i] \in K
    BY <1>6 DEF Lists
  <1>9. \A i \in 1..m : s[i] = p[at[i]]
    BY <1>7 DEF Through
  <1>10. DOMAIN s = 1..m
    BY <1>7 DEF Through
  <1>l. Lists(at, m, K)
    BY <1>6
  <1> HIDE DEF m
  <1>11. ASSUME NEW i \in K
         PROVE  /\ p[i] \in Command
                /\ p[i].kind = "comment" <=> i \in Odd
                /\ p[i].kind = "if" <=> i \in Even
    <2>0. i \in 1..(2 * n) /\ p[i] # Blank
      OBVIOUS
    <2>1. PICK k \in 1..n : i = 2 * k - 1 \/ i = 2 * k
      BY <1>1, <2>0
    <2>2. CASE i = 2 * k - 1
      <3>1. p[i] = Comment(o[k]) /\ o[k] \in Rule
        BY <1>1, <1>2, <2>2
      <3>2. p[i] \in Command
        BY <3>1 DEF Comment, Command
      <3>3. p[i].kind = "comment" /\ i \in Odd
        BY <2>2, <3>1, Kinds
      <3>4. ASSUME NEW j \in Enabled(o), i = 2 * j PROVE FALSE
        BY <1>e, <2>2, <3>4
      <3>5. i \notin Even
        BY <3>4
      <3> HIDE DEF Odd, Even
      <3> QED  BY <3>2, <3>3, <3>5
    <2>3. CASE i = 2 * k
      <3>1. p[i] = (IF o[k].on THEN BuildIf(o[k]) ELSE Blank) /\ o[k] \in Rule
        BY <1>1, <1>2, <2>3
      <3>2. p[i] = BuildIf(o[k]) /\ o[k].on
        BY <2>0, <3>1
      <3>3. p[i] \in Command
        BY <3>1, <3>2 DEF BuildIf, Command, Rule
      <3>4. k \in Enabled(o)
        BY <1>e, <3>2
      <3>5. p[i].kind = "if" /\ i \in Even
        BY <2>3, <3>2, <3>4, Kinds
      <3>6. ASSUME NEW j \in 1..n, i = 2 * j - 1 PROVE FALSE
        BY <2>3, <3>6
      <3>7. i \notin Odd
        BY <3>6
      <3> HIDE DEF Odd, Even
      <3> QED  BY <3>3, <3>5, <3>7
    <2> QED  BY <2>1, <2>2, <2>3
  <1> HIDE DEF K, Odd, Even
  <1>12. s \in Seq(Command)
    <2>1. s = [i \in 1..m |-> p[at[i]]] /\ \A i \in 1..m : p[at[i]] \in Command
      BY <1>7, <1>8, <1>11 DEF Through
    <2> QED  BY <1>8, <2>1
  <1>13. Comments(s) = [k \in 1..n |-> Comment(o[k])]
    <2> DEFINE h == [k \in 1..n |-> 2 * k - 1]
    <2>1. Lists(h, n, Odd)
      <3>1. h \in [1..n -> Odd] /\ \A i \in Odd : \E k \in 1..n : h[k] = i
        BY DEF Odd
      <3>2. \A k, l \in 1..n : k < l => h[k] < h[l]
        BY <1>1
      <3> HIDE DEF h
      <3> QED  BY <1>1, <3>1, <3>2 DEF Lists
    <2>2. {i \in DOMAIN s : s[i].kind = "comment"} = {i \in 1..m : at[i] \in Odd}
      BY <1>8, <1>9, <1>10, <1>11
    <2> HIDE DEF h
    <2>3. Kept(Through(p, at, m), {i \in 1..m : at[i] \in Odd}) = Through(p, h, n)
      BY <1>4, <1>5, <1>l, <2>1, KeptOfKept
    <2>4. Comments(s) = [k \in 1..n |-> p[h[k]]]
      BY <1>7, <2>2, <2>3 DEF Comments, OfKind, Through
    <2>5. \A k \in 1..n : p[h[k]] = Comment(o[k])
      BY <1>1 DEF h
    <2> QED  BY <2>4, <2>5
  <1>14. PICK e : /\ Lists(e, Cardinality(Enabled(o)), Enabled(o))
                  /\ \A x : Kept(x, Enabled(o)) = Through(x, e, Cardinality(Enabled(o)))
    <2>1. Enabled(o) \in SUBSET (1..n)
      BY <1>e
    <2>2. Enabled(o) \in SUBSET Int /\ IsFiniteSet(Enabled(o))
      BY <1>1, <2>1, Positions
    <2> QED  BY <2>2, KeptLists
  <1> DEFINE q == Cardinality(Enabled(o))
  <1>15. /\ q \in Nat /\ e \in [1..q -> Enabled(o)]
         /\ \A i \in Enabled(o) : \E k \in 1..q : e[k] = i
         /\ \A k, l \in 1..q : k < l => e[k] < e[l]
    BY <1>14 DEF Lists
  <1>16. Kept(o, Enabled(o)) = [k \in 1..q |-> o[e[k]]]
    BY <1>14 DEF Through
  <1> HIDE DEF q
  <1>17. Ifs(s) = [j \in 1..q |-> BuildIf(Kept(o, Enabled(o))[j])]
    <2> DEFINE h == [j \in 1..q |-> 2 * e[j]]
    <2>0. \A j \in 1..q : e[j] \in Enabled(o) /\ e[j] \in 1..n /\ o[e[j]].on
      BY <1>15, <1>e
    <2>1. Lists(h, q, Even)
      <3>1. h \in [1..q -> Even]
        BY <2>0 DEF Even
      <3>2. ASSUME NEW i \in Even PROVE \E k \in 1..q : h[k] = i
        <4>1. PICK j \in Enabled(o) : i = 2 * j
          BY DEF Even
        <4>2. PICK k \in 1..q : e[k] = j
          BY <1>15
        <4> QED  BY <4>1, <4>2
      <3>3. ASSUME NEW k \in 1..q, NEW l \in 1..q, k < l PROVE h[k] < h[l]
        <4>1. e[k] < e[l] /\ e[k] \in Int /\ e[l] \in Int
          BY <1>15, <2>0, <3>3
        <4>2. 2 * e[k] < 2 * e[l]
          BY <4>1
        <4> QED  BY <4>2
      <3> HIDE DEF h
      <3> QED  BY <1>15, <3>1, <3>2, <3>3 DEF Lists
    <2>2. {i \in DOMAIN s : s[i].kind = "if"} = {i \in 1..m : at[i] \in Even}
      BY <1>8, <1>9, <1>10, <1>11
    <2> HIDE DEF h
    <2>3. Kept(Through(p, at, m), {i \in 1..m : at[i] \in Even}) = Through(p, h, q)
      BY <1>4, <1>5, <1>l, <2>1, KeptOfKept
    <2>4. Ifs(s) = [k \in 1..q |-> p[h[k]]]
      BY <1>7, <2>2, <2>3 DEF Ifs, OfKind, Through
    <2>5. ASSUME NEW j \in 1..q PROVE p[h[j]] = BuildIf(Kept(o, Enabled(o))[j])
      <3>1. h[j] = 2 * e[j] /\ e[j] \in 1..n /\ o[e[j]].on
        BY <2>0 DEF h
      <3>2. p[h[j]] = BuildIf(o[e[j]])
        BY <1>1, <3>1
      <3> QED  BY <1>16, <3>2
    <2> QED  BY <2>4, <2>5
  <1>18. s = Filled(Places(o)) /\ q = Cardinality(Enabled(o))
    BY DEF s, p, q
  <1> QED  BY <1>n, <1>12, <1>13, <1>15, <1>17, <1>18

\* Lists of rules in which no id occurs twice.
RuleLists ==
  {rules \in Seq(Rule) : \A i, j \in 1..Len(rules) : rules[i].id = rules[j].id => i = j}

\* Two lists with the same rules, in whatever order.
SameRules(a, b) ==
  /\ \A i \in 1..Len(a) : \E k \in 1..Len(b) : b[k] = a[i]
  /\ \A k \in 1..Len(b) : \E i \in 1..Len(a) : a[i] = b[k]

\* Sorting by Sequence is a rearrangement.
LEMMA OrderedKeeps ==
  ASSUME NEW rules \in RuleLists
  PROVE  /\ Ordered(rules) \in RuleLists
         /\ Len(Ordered(rules)) = Len(rules)
         /\ SameRules(rules, Ordered(rules))
         /\ \A i, j \in 1..Len(rules) : i <= j => Ordered(rules)[i].seq <= Ordered(rules)[j].seq
  <1> DEFINE n == Len(rules)
             o == Ordered(rules)
  <1>1. /\ rules \in Seq(Rule) /\ n \in Nat
        /\ \A i, j \in 1..n : rules[i].id = rules[j].id => i = j
        /\ \A i \in 1..n : rules[i] \in Rule
    BY DEF RuleLists
  <1>2. PICK from : Sorts(rules, from)
    BY <1>1, OrderedSorts
  <1>3. /\ from \in [1..n -> 1..n]
        /\ \A i \in 1..n : \E k \in 1..n : from[k] = i
        /\ \A k, m \in 1..n : from[k] = from[m] => k = m
        /\ \A k, m \in 1..n : k <= m => rules[from[k]].seq <= rules[from[m]].seq
        /\ o = [k \in 1..n |-> rules[from[k]]]
    BY <1>2 DEF Sorts
  <1>4. \A k \in 1..n : o[k] = rules[from[k]] /\ from[k] \in 1..n
    BY <1>3
  <1>5. o \in Seq(Rule) /\ Len(o) = n
    <2>1. \A k \in 1..n : rules[from[k]] \in Rule
      BY <1>1, <1>3
    <2> HIDE DEF n, o
    <2> QED  BY <1>1, <1>3, <2>1
  <1> HIDE DEF n, o
  <1>6. o \in RuleLists
    <2>1. ASSUME NEW i \in 1..n, NEW j \in 1..n, o[i].id = o[j].id PROVE i = j
      <3>1. from[i] \in 1..n /\ from[j] \in 1..n /\ rules[from[i]].id = rules[from[j]].id
        BY <1>4, <2>1
      <3>2. from[i] = from[j]
        BY <1>1, <3>1
      <3> QED  BY <1>3, <3>2
    <2> QED  BY <1>5, <2>1 DEF RuleLists
  <1>7. SameRules(rules, o)
    <2>1. \A i \in 1..n : \E k \in 1..n : o[k] = rules[i]
      BY <1>3, <1>4
    <2>2. \A k \in 1..n : \E i \in 1..n : rules[i] = o[k]
      BY <1>4
    <2> QED  BY <1>5, <2>1, <2>2 DEF SameRules, n
  <1>8. \A i, j \in 1..n : i <= j => o[i].seq <= o[j].seq
    BY <1>3, <1>4
  <1>9. n = Len(rules) /\ o = Ordered(rules)
    BY DEF n, o
  <1> QED  BY <1>5, <1>6, <1>7, <1>8, <1>9

\* Nothing is lost on the way into the script and back: the rules read from a
\* script that Encode wrote are the rules it was given, in their order, and
\* its "if"s are the enabled ones.
LEMMA EncodeReads ==
  ASSUME NEW rules \in RuleLists
  PROVE  /\ Encode(rules) # None
         /\ List(Encode(rules)) = Ordered(rules)
         /\ Ifs(Encode(rules)) =
              [j \in 1..Cardinality(Enabled(Ordered(rules))) |->
                 BuildIf(Kept(Ordered(rules), Enabled(Ordered(rules)))[j])]
         /\ Cardinality(Enabled(Ordered(rules))) \in Nat
  <1> DEFINE o == Ordered(rules)
             n == Len(o)
             s == Filled(Places(o))
             q == Cardinality(Enabled(o))
  <1>1. o \in Seq(Rule) /\ n \in Nat /\ Encode(rules) = s
    BY OrderedKeeps DEF RuleLists, Encode
  <1>2. /\ s \in Seq(Command)
        /\ Comments(s) = [k \in 1..n |-> Comment(o[k])]
        /\ Ifs(s) = [j \in 1..q |-> BuildIf(Kept(o, Enabled(o))[j])]
        /\ q \in Nat
    BY <1>1, FilledReads
  <1>3. s # None
    BY <1>2, RulesAssumption
  <1>4. o = [k \in 1..n |-> o[k]] /\ n = Len(o)
    BY <1>1
  <1>5. n = 0 => q = 0
    <2>1. n = 0 => Enabled(o) = {}
      BY DEF Enabled
    <2> QED  BY <2>1, FS_EmptySet
  <1>6. Decode(s) = IF Comments(s) # <<>> THEN [k \in DOMAIN Comments(s) |-> Comments(s)[k].rule]
                    ELSE [k \in DOMAIN Ifs(s) |-> IfToRule(Ifs(s)[k], k)]
    BY DEF Decode
  <1> HIDE DEF o, s, q, n
  <1>7. CASE n = 0
    <2>1. Comments(s) = <<>> /\ DOMAIN Ifs(s) = {}
      BY <1>2, <1>5, <1>7
    <2>2. Decode(s) = [k \in {} |-> IfToRule(Ifs(s)[k], k)]
      BY <1>6, <2>1
    <2>3. o = <<>>
      BY <1>1, <1>4, <1>7
    <2>4. Decode(s) = o
      BY <2>2, <2>3
    <2> QED  BY <1>1, <1>2, <1>3, <2>4 DEF List, o, q
  <1>8. CASE n # 0
    <2>1. DOMAIN Comments(s) = 1..n /\ \A k \in 1..n : Comments(s)[k].rule = o[k]
      BY <1>2, Kinds
    <2>2. Comments(s) # <<>>
      <3>1. 1 \in DOMAIN Comments(s)
        BY <1>1, <1>8, <2>1
      <3> QED  BY <3>1
    <2>3. Decode(s) = [k \in 1..n |-> o[k]]
      BY <1>6, <2>1, <2>2
    <2> QED  BY <1>1, <1>2, <1>3, <1>4, <2>3 DEF List, o, q
  <1> QED  BY <1>7, <1>8

-----------------------------------------------------------------------------
(***************************************************************************)
(* Lists of rules.  What keeps ids apart is that each edit of a list does: *)
(* the lowest number that no rule has exists, since there are fewer rules  *)
(* than numbers up to one more than their number.                          *)
(***************************************************************************)

\* The rules of a list, by id.
Table(rules) ==
  [id \in IdsOf(rules) |-> rules[CHOOSE k \in DOMAIN rules : rules[k].id = id]]

\* Each id stands for the one rule that has it.
LEMMA TableIs ==
  ASSUME NEW rules \in RuleLists
  PROVE  /\ Len(rules) \in Nat /\ DOMAIN rules = 1..Len(rules)
         /\ DOMAIN Table(rules) = IdsOf(rules)
         /\ \A k \in 1..Len(rules) : rules[k] \in Rule /\ rules[k].id \in Nat
         /\ \A k \in 1..Len(rules) :
              rules[k].id \in IdsOf(rules) /\ Table(rules)[rules[k].id] = rules[k]
         /\ \A id \in IdsOf(rules) : \E k \in 1..Len(rules) : rules[k].id = id
  <1>1. /\ Len(rules) \in Nat /\ DOMAIN rules = 1..Len(rules)
        /\ \A i, j \in 1..Len(rules) : rules[i].id = rules[j].id => i = j
        /\ \A k \in 1..Len(rules) : rules[k] \in Rule
    BY DEF RuleLists
  <1>2. \A k \in 1..Len(rules) : rules[k].id \in Nat
    BY <1>1 DEF Rule
  <1>3. DOMAIN Table(rules) = IdsOf(rules)
    BY DEF Table
  <1>4. ASSUME NEW k \in 1..Len(rules)
        PROVE  rules[k].id \in IdsOf(rules) /\ Table(rules)[rules[k].id] = rules[k]
    <2> DEFINE m == CHOOSE j \in DOMAIN rules : rules[j].id = rules[k].id
    <2>1. rules[k].id \in IdsOf(rules)
      BY <1>1 DEF IdsOf
    <2>2. m \in 1..Len(rules) /\ rules[m].id = rules[k].id
      BY <1>1
    <2>3. m = k
      BY <1>1, <2>2
    <2>4. Table(rules)[rules[k].id] = rules[m]
      BY <2>1 DEF Table
    <2> QED  BY <2>1, <2>3, <2>4
  <1>5. \A id \in IdsOf(rules) : \E k \in 1..Len(rules) : rules[k].id = id
    BY <1>1 DEF IdsOf
  <1> QED  BY <1>1, <1>2, <1>3, <1>4, <1>5

\* Two lists with the same rules have the same table.
LEMMA SameTable ==
  ASSUME NEW a \in RuleLists, NEW b \in RuleLists, SameRules(a, b)
  PROVE  Table(a) = Table(b)
  <1>1. IdsOf(a) \subseteq IdsOf(b)
    <2> SUFFICES ASSUME NEW id \in IdsOf(a) PROVE id \in IdsOf(b)
      OBVIOUS
    <2>1. PICK i \in 1..Len(a) : a[i].id = id
      BY TableIs
    <2>2. PICK k \in 1..Len(b) : b[k] = a[i]
      BY DEF SameRules
    <2> QED  BY <2>1, <2>2, TableIs
  <1>2. IdsOf(b) \subseteq IdsOf(a)
    <2> SUFFICES ASSUME NEW id \in IdsOf(b) PROVE id \in IdsOf(a)
      OBVIOUS
    <2>1. PICK i \in 1..Len(b) : b[i].id = id
      BY TableIs
    <2>2. PICK k \in 1..Len(a) : a[k] = b[i]
      BY DEF SameRules
    <2> QED  BY <2>1, <2>2, TableIs
  <1>3. ASSUME NEW id \in IdsOf(a) PROVE Table(a)[id] = Table(b)[id]
    <2>1. PICK i \in 1..Len(a) : a[i].id = id
      BY TableIs
    <2>2. PICK k \in 1..Len(b) : b[k] = a[i]
      BY DEF SameRules
    <2>3. Table(a)[a[i].id] = a[i] /\ Table(b)[b[k].id] = b[k]
      BY TableIs
    <2> QED  BY <2>1, <2>2, <2>3
  <1>4. IdsOf(a) = IdsOf(b)
    BY <1>1, <1>2
  <1>5. /\ Table(a) = [id \in IdsOf(a) |-> Table(a)[id]]
        /\ Table(b) = [id \in IdsOf(b) |-> Table(b)[id]]
    BY DEF Table
  <1> QED  BY <1>3, <1>4, <1>5

\* The ids of a list are as many as its rules.
LEMMA IdsCounted ==
  ASSUME NEW rules \in RuleLists
  PROVE  IsFiniteSet(IdsOf(rules)) /\ Cardinality(IdsOf(rules)) = Len(rules)
  <1> DEFINE g == [k \in 1..Len(rules) |-> rules[k].id]
  <1>1. Len(rules) \in Nat /\ g \in [1..Len(rules) -> IdsOf(rules)]
    BY TableIs
  <1>2. \A i, j \in 1..Len(rules) : g[i] = g[j] => i = j
    BY DEF RuleLists
  <1>3. \A id \in IdsOf(rules) : \E k \in 1..Len(rules) : g[k] = id
    BY TableIs
  <1> HIDE DEF g
  <1> QED  BY <1>1, <1>2, <1>3, Numbered

\* nextRuleID finds a number that no rule has: there is one more than rules.
LEMMA Fresh ==
  ASSUME NEW rules \in RuleLists
  PROVE  FreshID(rules) \in Nat /\ FreshID(rules) \notin IdsOf(rules)
  <1> DEFINE n == Len(rules)
             T == (1..(n + 1)) \ IdsOf(rules)
  <1>1. n \in Nat /\ IsFiniteSet(IdsOf(rules)) /\ Cardinality(IdsOf(rules)) = n
    BY IdsCounted, TableIs
  <1>2. n + 1 \in Nat /\ n + 1 > n
    BY <1>1
  <1>3. Cardinality(1..(n + 1)) = n + 1
    <2>1. 1..(n + 1) \in SUBSET (1..(n + 1))
      OBVIOUS
    <2> QED  BY <1>2, <2>1, Positions
  <1>4. T # {}
    <2> SUFFICES ASSUME 1..(n + 1) \in SUBSET IdsOf(rules) PROVE FALSE
      OBVIOUS
    <2>1. Cardinality(1..(n + 1)) <= Cardinality(IdsOf(rules))
      BY <1>1, FS_Subset
    <2>2. n + 1 <= n
      BY <1>1, <1>3, <2>1
    <2> QED  BY <1>1, <2>2
  <1>5. T \in SUBSET Nat
    BY <1>2
  <1>6. PICK x \in T : \A y \in T : x <= y
    BY <1>4, <1>5, LeastNat
  <1>7. FreshID(rules) = CHOOSE m \in T : \A y \in T : m <= y
    BY DEF FreshID, Min
  <1>8. FreshID(rules) \in T
    <2> HIDE DEF T
    <2> QED  BY <1>6, <1>7
  <1> QED  BY <1>5, <1>8

\* A rule is created last: some Sequence is the highest one.
LEMMA HighestSequence ==
  ASSUME NEW rules \in RuleLists
  PROVE  MaxSequence(rules) \in Int
  <1> DEFINE n == Len(rules)
             o == Ordered(rules)
             T == {rules[k].seq : k \in DOMAIN rules} \cup {0}
  <1>1. /\ n \in Nat /\ DOMAIN rules = 1..n /\ SameRules(rules, o) /\ Len(o) = n
        /\ \A i \in 1..n : o[i].seq \in Int /\ rules[i].seq \in Int
        /\ \A i, j \in 1..n : i <= j => o[i].seq <= o[j].seq
    <2>1. \A i \in 1..n : o[i] \in Rule /\ rules[i] \in Rule
      BY OrderedKeeps, TableIs
    <2>2. \A i \in 1..n : o[i].seq \in Int /\ rules[i].seq \in Int
      BY <2>1 DEF Rule
    <2> QED  BY <2>2, OrderedKeeps, TableIs
  <1>2. T \subseteq Int
    BY <1>1
  <1>3. MaxSequence(rules) = CHOOSE x \in T : \A y \in T : x >= y
    BY DEF MaxSequence, Max
  <1>4. \E x \in T : \A y \in T : x >= y
    <2> HIDE DEF n, o
    <2>1. CASE n = 0
      <3>1. T = {0}
        BY <1>1, <2>1
      <3> QED  BY <3>1
    <2>2. CASE n # 0
      <3> DEFINE top == o[n].seq
      <3>1. n \in 1..n /\ top \in Int
        BY <1>1, <2>2
      <3>2. top \in T
        <4>1. PICK i \in 1..n : rules[i] = o[n]
          BY <1>1, <3>1 DEF SameRules, n
        <4> QED  BY <1>1, <4>1
      <3>3. ASSUME NEW i \in 1..n PROVE rules[i].seq <= top
        <4>1. PICK k \in 1..n : o[k] = rules[i]
          BY <1>1 DEF SameRules, n
        <4>2. k <= n
          BY <1>1
        <4> QED  BY <1>1, <3>1, <4>1, <4>2
      <3>4. \A y \in T : y = 0 \/ y <= top
        BY <1>1, <3>3
      <3>5. 0 \in T
        OBVIOUS
      <3> HIDE DEF T, top
      <3>6. CASE top <= 0
        <4>1. \A y \in T : 0 >= y
          BY <1>2, <3>1, <3>4, <3>6
        <4> QED  BY <3>5, <4>1
      <3>7. CASE ~ (top <= 0)
        <4>1. \A y \in T : top >= y
          BY <1>2, <3>1, <3>4, <3>7
        <4> QED  BY <3>2, <4>1
      <3> QED  BY <3>6, <3>7
    <2> QED  BY <2>1, <2>2
  <1> HIDE DEF T
  <1>5. MaxSequence(rules) \in T
    BY <1>3, <1>4
  <1> QED  BY <1>2, <1>5

\* A body laid over a rule leaves a rule of the same id.
LEMMA MergedRule ==
  ASSUME NEW rule \in Rule, NEW edit \in Edits
  PROVE  MergeGraphRule(rule, edit) \in Rule /\ MergeGraphRule(rule, edit).id = rule.id
  <1> DEFINE new == MergeGraphRule(rule, edit)
  <1>1. /\ edit.seq \in Int \cup {None} /\ edit.on \in BOOLEAN \cup {None}
        /\ edit.test \in Tests \cup {None} /\ edit.act \in Effects \cup {None}
    BY RulesAssumption
  <1>2. /\ rule.id \in Nat /\ rule.seq \in Int /\ rule.on \in BOOLEAN
        /\ rule.test \in Tests /\ rule.act \in Effects
    BY DEF Rule
  <1>3. /\ Over(edit.seq, rule.seq) \in Int /\ Over(edit.on, rule.on) \in BOOLEAN
        /\ Over(edit.test, rule.test) \in Tests /\ Over(edit.act, rule.act) \in Effects
    BY <1>1, <1>2 DEF Over
  <1>4. new = [rule EXCEPT !.seq = Over(edit.seq, rule.seq), !.on = Over(edit.on, rule.on),
                           !.test = Over(edit.test, rule.test), !.act = Over(edit.act, rule.act)]
    BY DEF MergeGraphRule, Rule
  <1> HIDE DEF new
  <1>5. new \in Rule /\ new.id = rule.id
    BY <1>2, <1>3, <1>4 DEF Rule
  <1> QED  BY <1>5 DEF new

\* A create adds one rule, under an id of its own.
LEMMA CreatedList ==
  ASSUME NEW rules \in RuleLists, NEW edit \in Edits
  PROVE  LET new == Created(rules, EmptyRule, edit)
         IN  /\ new \in RuleLists
             /\ IdsOf(new) = IdsOf(rules) \cup {FreshID(rules)}
             /\ \A id \in IdsOf(rules) : Table(new)[id] = Table(rules)[id]
  <1> DEFINE merged == MergeGraphRule(EmptyRule, edit)
             seq == IF merged.seq = 0 THEN MaxSequence(rules) + 1 ELSE merged.seq
             rule == [merged EXCEPT !.id = FreshID(rules), !.seq = seq]
             new == Append(rules, rule)
             n == Len(rules)
  <1>1. merged \in Rule
    <2>1. EmptyRule \in Rule
      BY RulesAssumption DEF EmptyRule, Rule
    <2> QED  BY <2>1, MergedRule
  <1>2. FreshID(rules) \in Nat /\ FreshID(rules) \notin IdsOf(rules)
    BY Fresh
  <1>3. seq \in Int
    <2>1. merged.seq \in Int
      BY <1>1 DEF Rule
    <2>2. MaxSequence(rules) \in Int
      BY HighestSequence
    <2> HIDE DEF merged
    <2> QED  BY <2>1, <2>2
  <1>4. Created(rules, EmptyRule, edit) = new
    <2>1. Created(rules, EmptyRule, edit) =
            Append(rules, [merged EXCEPT !.id = FreshID(rules),
                                         !.seq = IF merged.seq = 0 THEN MaxSequence(rules) + 1
                                                                   ELSE merged.seq])
      <3> HIDE DEF merged
      <3>1. DOMAIN merged = {"id", "seq", "on", "test", "act"}
        BY <1>1 DEF Rule
      <3> QED  BY <3>1 DEF Created, merged
    <2> QED  BY <2>1
  <1> HIDE DEF merged, seq
  <1>5. rule \in Rule /\ rule.id = FreshID(rules)
    BY <1>1, <1>2, <1>3 DEF Rule
  <1>6. /\ n \in Nat /\ rules \in Seq(Rule)
        /\ \A k \in 1..n : rules[k] \in Rule /\ rules[k].id \in IdsOf(rules)
        /\ \A i, j \in 1..n : rules[i].id = rules[j].id => i = j
        /\ \A id \in IdsOf(rules) : \E k \in 1..n : rules[k].id = id
    BY TableIs DEF RuleLists
  <1> HIDE DEF rule
  <1>7. /\ new \in Seq(Rule) /\ Len(new) = n + 1
        /\ new[n + 1] = rule /\ \A k \in 1..n : new[k] = rules[k]
    BY <1>5, <1>6
  <1> HIDE DEF new, n
  <1>8. \A k \in 1..(n + 1) : k = n + 1 \/ k \in 1..n
    BY <1>6
  <1>9. new \in RuleLists
    <2>1. ASSUME NEW i \in 1..(n + 1), NEW j \in 1..(n + 1), new[i].id = new[j].id PROVE i = j
      <3>1. CASE i \in 1..n /\ j \in 1..n
        BY <1>6, <1>7, <2>1, <3>1
      <3>2. CASE i \in 1..n /\ j = n + 1
        BY <1>2, <1>5, <1>6, <1>7, <2>1, <3>2
      <3>3. CASE i = n + 1 /\ j \in 1..n
        BY <1>2, <1>5, <1>6, <1>7, <2>1, <3>3
      <3> QED  BY <1>8, <3>1, <3>2, <3>3
    <2> QED  BY <1>7, <2>1 DEF RuleLists
  <1>10. 1..n \subseteq 1..(n + 1) /\ n + 1 \in 1..(n + 1)
    BY <1>6
  <1>11. IdsOf(new) = IdsOf(rules) \cup {FreshID(rules)}
    <2>1. ASSUME NEW id \in IdsOf(new) PROVE id \in IdsOf(rules) \cup {FreshID(rules)}
      <3>1. PICK k \in 1..(n + 1) : new[k].id = id
        BY <1>7, <1>9, TableIs
      <3> QED  BY <1>5, <1>6, <1>7, <1>8, <3>1
    <2>2. ASSUME NEW id \in IdsOf(rules) PROVE id \in IdsOf(new)
      <3>1. PICK k \in 1..n : rules[k].id = id
        BY <1>6
      <3>2. new[k].id = id /\ k \in 1..Len(new)
        BY <1>7, <1>10, <3>1
      <3> QED  BY <1>9, <3>2, TableIs
    <2>3. FreshID(rules) \in IdsOf(new)
      BY <1>5, <1>7, <1>9, <1>10, TableIs
    <2> QED  BY <2>1, <2>2, <2>3
  <1>12. ASSUME NEW id \in IdsOf(rules) PROVE Table(new)[id] = Table(rules)[id]
    <2>1. PICK k \in 1..n : rules[k].id = id
      BY <1>6
    <2>2. new[k] = rules[k] /\ k \in 1..Len(new)
      BY <1>7, <1>10
    <2>3. Table(new)[new[k].id] = new[k]
      BY <1>9, <2>2, TableIs
    <2>4. Table(rules)[rules[k].id] = rules[k]
      BY <2>1, TableIs DEF n
    <2> QED  BY <2>1, <2>2, <2>3, <2>4
  <1> QED  BY <1>4, <1>9, <1>11, <1>12

\* An update replaces the rule of one id.
LEMMA UpdatedList ==
  ASSUME NEW rules \in RuleLists, NEW id \in Nat, NEW rule \in Rule
  PROVE  LET new == Updated(rules, id, rule)
         IN  /\ new \in RuleLists
             /\ IdsOf(new) = IdsOf(rules)
             /\ \A i \in IdsOf(rules) \ {id} : Table(new)[i] = Table(rules)[i]
             /\ id \in IdsOf(rules) => Table(new)[id] = [rule EXCEPT !.id = id]
  <1> DEFINE n == Len(rules)
             own == [rule EXCEPT !.id = id]
             new == Updated(rules, id, rule)
  <1>1. /\ n \in Nat /\ rules \in Seq(Rule) /\ DOMAIN rules = 1..n
        /\ \A k \in 1..n : rules[k] \in Rule /\ rules[k].id \in IdsOf(rules)
        /\ \A i, j \in 1..n : rules[i].id = rules[j].id => i = j
        /\ \A i \in IdsOf(rules) : \E k \in 1..n : rules[k].id = i
    BY TableIs DEF RuleLists
  <1>2. own \in Rule /\ own.id = id
    BY DEF Rule
  <1>3. new = [k \in 1..n |-> IF rules[k].id = id THEN own ELSE rules[k]]
    BY <1>1 DEF Updated
  <1>n. n = Len(rules)
    OBVIOUS
  <1> HIDE DEF own, new, n
  <1>4. \A k \in 1..n : /\ new[k] \in Rule /\ new[k].id = rules[k].id
                        /\ rules[k].id = id => new[k] = own
                        /\ rules[k].id # id => new[k] = rules[k]
    BY <1>1, <1>2, <1>3
  <1>5. new \in Seq(Rule) /\ Len(new) = n
    <2>1. new = [k \in 1..n |-> new[k]]
      BY <1>3
    <2> QED  BY <1>1, <1>4, <2>1
  <1>6. new \in RuleLists
    BY <1>1, <1>4, <1>5 DEF RuleLists
  <1>7. /\ \A k \in 1..n : new[k].id \in IdsOf(new) /\ Table(new)[new[k].id] = new[k]
        /\ \A i \in IdsOf(new) : \E k \in 1..n : new[k].id = i
    BY <1>5, <1>6, TableIs
  <1>8. \A k \in 1..n : Table(rules)[rules[k].id] = rules[k]
    BY <1>n, TableIs
  <1>9. IdsOf(new) = IdsOf(rules)
    <2>1. \A i \in IdsOf(new) : i \in IdsOf(rules)
      BY <1>1, <1>4, <1>7
    <2>2. \A i \in IdsOf(rules) : i \in IdsOf(new)
      BY <1>1, <1>4, <1>7
    <2> QED  BY <2>1, <2>2
  <1>10. ASSUME NEW i \in IdsOf(rules)
         PROVE  /\ i # id => Table(new)[i] = Table(rules)[i]
                /\ i = id => Table(new)[i] = own
    <2>1. PICK k \in 1..n : rules[k].id = i
      BY <1>1
    <2> QED  BY <1>4, <1>7, <1>8, <2>1
  <1> QED  BY <1>6, <1>9, <1>10 DEF new, own

\* A delete takes out the rule of one id.
LEMMA DeletedList ==
  ASSUME NEW rules \in RuleLists, NEW id \in Nat
  PROVE  LET new == Deleted(rules, id)
         IN  /\ new \in RuleLists
             /\ IdsOf(new) = IdsOf(rules) \ {id}
             /\ \A i \in IdsOf(rules) \ {id} : Table(new)[i] = Table(rules)[i]
  <1> DEFINE n == Len(rules)
             K == {k \in 1..n : rules[k].id # id}
             q == Cardinality(K)
             new == Deleted(rules, id)
  <1>1. /\ n \in Nat /\ rules \in Seq(Rule) /\ DOMAIN rules = 1..n
        /\ \A k \in 1..n : rules[k] \in Rule /\ rules[k].id \in IdsOf(rules)
        /\ \A i, j \in 1..n : rules[i].id = rules[j].id => i = j
        /\ \A i \in IdsOf(rules) : \E k \in 1..n : rules[k].id = i
        /\ \A k \in 1..n : Table(rules)[rules[k].id] = rules[k]
    BY TableIs DEF RuleLists
  <1>2. K \in SUBSET Int /\ IsFiniteSet(K)
    <2>1. K \in SUBSET (1..n)
      OBVIOUS
    <2> QED  BY <1>1, <2>1, Positions
  <1>3. PICK at : /\ Lists(at, Cardinality(K), K)
                  /\ \A s : Kept(s, K) = Through(s, at, Cardinality(K))
    BY <1>2, KeptLists
  <1>4. new = Through(rules, at, q)
    BY <1>1, <1>3 DEF Deleted
  <1>5. /\ q \in Nat /\ at \in [1..q -> K]
        /\ \A i \in K : \E k \in 1..q : at[k] = i
        /\ \A k, m \in 1..q : k < m => at[k] < at[m]
    BY <1>3 DEF Lists
  <1> HIDE DEF new, n, q
  <1>6. \A k \in 1..q : at[k] \in 1..n /\ rules[at[k]].id # id
    BY <1>5
  <1>7. new = [k \in 1..q |-> rules[at[k]]]
    BY <1>4 DEF Through
  <1>8. \A k \in 1..q : new[k] = rules[at[k]] /\ new[k] \in Rule
    BY <1>1, <1>6, <1>7
  <1>9. new \in Seq(Rule) /\ Len(new) = q
    <2>1. new = [k \in 1..q |-> new[k]]
      BY <1>7
    <2> QED  BY <1>5, <1>8, <2>1
  <1>10. new \in RuleLists
    <2>1. ASSUME NEW i \in 1..q, NEW j \in 1..q, new[i].id = new[j].id PROVE i = j
      <3>1. at[i] = at[j] /\ at[i] \in Int
        BY <1>1, <1>6, <1>8, <2>1
      <3>2. ~ (i < j) /\ ~ (j < i)
        BY <1>5, <3>1
      <3> QED  BY <3>2
    <2> QED  BY <1>9, <2>1 DEF RuleLists
  <1>11. /\ \A k \in 1..q : new[k].id \in IdsOf(new) /\ Table(new)[new[k].id] = new[k]
         /\ \A i \in IdsOf(new) : \E k \in 1..q : new[k].id = i
    BY <1>9, <1>10, TableIs
  <1>12. ASSUME NEW i \in IdsOf(rules) \ {id}
         PROVE  i \in IdsOf(new) /\ Table(new)[i] = Table(rules)[i]
    <2>1. PICK m \in 1..n : rules[m].id = i
      BY <1>1
    <2>2. m \in K
      BY <2>1
    <2>3. PICK k \in 1..q : at[k] = m
      BY <1>5, <2>2
    <2> QED  BY <1>1, <1>8, <1>11, <2>1, <2>3
  <1>13. \A i \in IdsOf(new) : i \in IdsOf(rules) /\ i # id
    BY <1>1, <1>6, <1>8, <1>11
  <1>14. IdsOf(new) = IdsOf(rules) \ {id}
    BY <1>12, <1>13
  <1> QED  BY <1>10, <1>12, <1>14 DEF new

\* The commands of one kind, in a script.
LEMMA KindKept ==
  ASSUME NEW s \in Seq(Command), NEW kind
  PROVE  \E n, at : /\ n \in Nat /\ at \in [1..n -> 1..Len(s)]
                    /\ \A k, m \in 1..n : k < m => at[k] < at[m]
                    /\ \A k \in 1..n : s[at[k]].kind = kind
                    /\ OfKind(s, kind) = Through(s, at, n)
  <1> DEFINE K == {i \in DOMAIN s : s[i].kind = kind}
             n == Cardinality(K)
  <1>1. Len(s) \in Nat /\ DOMAIN s = 1..Len(s)
    OBVIOUS
  <1>2. K \in SUBSET (1..Len(s))
    BY <1>1
  <1>3. K \in SUBSET Int /\ IsFiniteSet(K)
    BY <1>1, <1>2, Positions
  <1>4. PICK at : Lists(at, n, K) /\ \A x : Kept(x, K) = Through(x, at, n)
    BY <1>3, KeptLists
  <1>5. OfKind(s, kind) = Through(s, at, n)
    BY <1>4 DEF OfKind
  <1>6. /\ n \in Nat /\ at \in [1..n -> K] /\ \A k, m \in 1..n : k < m => at[k] < at[m]
    BY <1>4 DEF Lists
  <1> HIDE DEF n
  <1>7. \A k \in 1..n : at[k] \in K
    BY <1>6
  <1>8. at \in [1..n -> 1..Len(s)] /\ \A k \in 1..n : s[at[k]].kind = kind
    BY <1>2, <1>6, <1>7
  <1> HIDE DEF K
  <1> QED  BY <1>5, <1>6, <1>8

\* A script written elsewhere is read as a list of rules, each with its own id.
LEMMA ForeignRules ==
  ASSUME NEW s \in Foreign
  PROVE  Decode(s) \in RuleLists
  <1>0. /\ s \in Seq(Command) /\ DOMAIN s = 1..Len(s)
        /\ \A i, j \in DOMAIN s :
             (s[i].kind = "comment" /\ s[j].kind = "comment" /\ s[i].rule.id = s[j].rule.id) => i = j
    BY ForeignAssumption
  <1>1. \A i \in 1..Len(s) : /\ s[i] \in Command
                             /\ s[i].kind = "comment" => s[i].rule \in Rule
    <2> SUFFICES ASSUME NEW i \in 1..Len(s)
                 PROVE  /\ s[i] \in Command
                        /\ s[i].kind = "comment" => s[i].rule \in Rule
      OBVIOUS
    <2>1. s[i] \in Command
      BY <1>0
    <2>2. \/ s[i] \in [kind: {"comment"}, rule: Rule]
          \/ s[i] \in [kind: {"if"}, test: Tests \cup OddTests, act: Effects \cup OddEffects]
      BY <2>1 DEF Command
    <2>3. CASE s[i] \in [kind: {"comment"}, rule: Rule]
      <3>1. s[i].kind = "comment" /\ s[i].rule \in Rule
        BY <2>3
      <3> QED  BY <2>1, <3>1
    <2>4. CASE s[i] \in [kind: {"if"}, test: Tests \cup OddTests, act: Effects \cup OddEffects]
      <3>1. s[i].kind = "if"
        BY <2>4
      <3> QED  BY <2>1, <3>1
    <2> QED  BY <2>2, <2>3, <2>4
  <1>2. CASE Comments(s) # <<>>
    <2>1. PICK n, at : /\ n \in Nat /\ at \in [1..n -> 1..Len(s)]
                       /\ \A k, m \in 1..n : k < m => at[k] < at[m]
                       /\ \A k \in 1..n : s[at[k]].kind = "comment"
                       /\ OfKind(s, "comment") = Through(s, at, n)
      BY <1>0, KindKept
    <2>2. Comments(s) = [k \in 1..n |-> s[at[k]]]
      BY <2>1 DEF Comments, Through
    <2> DEFINE rules == Decode(s)
    <2>3. rules = [k \in DOMAIN Comments(s) |-> Comments(s)[k].rule]
      BY <1>2 DEF Decode
    <2>4. rules = [k \in 1..n |-> s[at[k]].rule]
      BY <2>2, <2>3
    <2> HIDE DEF rules
    <2>5. \A k \in 1..n : at[k] \in 1..Len(s) /\ at[k] \in Int
      BY <2>1
    <2>6. \A k \in 1..n : rules[k] = s[at[k]].rule /\ rules[k] \in Rule
      BY <1>1, <2>1, <2>4, <2>5
    <2>7. rules \in Seq(Rule) /\ Len(rules) = n
      <3>1. rules = [k \in 1..n |-> rules[k]]
        BY <2>4
      <3> QED  BY <2>1, <2>6, <3>1
    <2>8. ASSUME NEW i \in 1..n, NEW j \in 1..n, rules[i].id = rules[j].id PROVE i = j
      <3>1. at[i] = at[j]
        <4>1. at[i] \in DOMAIN s /\ at[j] \in DOMAIN s
          BY <1>0, <2>5
        <4>2. s[at[i]].kind = "comment" /\ s[at[j]].kind = "comment"
          BY <2>1
        <4>3. s[at[i]].rule.id = s[at[j]].rule.id
          BY <2>6, <2>8
        <4> QED  BY <1>0, <4>1, <4>2, <4>3
      <3>2. ~ (i < j) /\ ~ (j < i)
        BY <2>1, <2>5, <3>1
      <3> QED  BY <3>2
    <2> QED  BY <2>7, <2>8 DEF RuleLists, rules
  <1>3. CASE Comments(s) = <<>>
    <2>1. PICK n, at : /\ n \in Nat /\ at \in [1..n -> 1..Len(s)]
                       /\ \A k, m \in 1..n : k < m => at[k] < at[m]
                       /\ \A k \in 1..n : s[at[k]].kind = "if"
                       /\ OfKind(s, "if") = Through(s, at, n)
      BY <1>0, KindKept
    <2>2. Ifs(s) = [k \in 1..n |-> s[at[k]]]
      BY <2>1 DEF Ifs, Through
    <2> DEFINE rules == Decode(s)
    <2>3. rules = [k \in DOMAIN Ifs(s) |-> IfToRule(Ifs(s)[k], k)]
      BY <1>3 DEF Decode
    <2>4. rules = [k \in 1..n |-> IfToRule(s[at[k]], k)]
      BY <2>2, <2>3
    <2> HIDE DEF rules
    <2>5. ASSUME NEW k \in 1..n PROVE IfToRule(s[at[k]], k) \in Rule /\ IfToRule(s[at[k]], k).id = k
      <3>1. ActionsFromCommands(s[at[k]].act) \in Effects
        BY RulesAssumption DEF ActionsFromCommands
      <3>2. ConditionsFromTest(s[at[k]].test) \in Tests
        BY RulesAssumption DEF ConditionsFromTest
      <3> QED  BY <3>1, <3>2 DEF IfToRule, Rule
    <2>6. \A k \in 1..n : rules[k] \in Rule /\ rules[k].id = k
      BY <2>4, <2>5
    <2>7. rules \in Seq(Rule) /\ Len(rules) = n
      <3>1. rules = [k \in 1..n |-> rules[k]]
        BY <2>4
      <3> QED  BY <2>1, <2>6, <3>1
    <2> QED  BY <2>6, <2>7 DEF RuleLists, rules
  <1> QED  BY <1>2, <1>3

\* A script: none, one found, or one that Encode wrote.
Written(s) == s = None \/ s \in Foreign \/ \E rules \in RuleLists : s = Encode(rules)

\* Whichever it is, it is read as a list of rules with ids of their own.
LEMMA ReadsRules ==
  ASSUME NEW s, Written(s)
  PROVE  List(s) \in RuleLists
  <1>1. CASE s = None
    <2>1. List(s) = <<>>
      BY <1>1 DEF List
    <2> QED  BY <2>1 DEF RuleLists
  <1>2. CASE s # None /\ s \in Foreign
    BY <1>2, ForeignRules DEF List
  <1>3. CASE \E rules \in RuleLists : s = Encode(rules)
    BY <1>3, EncodeReads, OrderedKeeps
  <1> QED  BY <1>1, <1>2, <1>3 DEF Written

-----------------------------------------------------------------------------
(***************************************************************************)
(* The script under concurrent requests.  ScriptInv: the script is one that *)
(* was found or that Encode wrote from one list (Written), and a request   *)
(* carries a list of rules, old or not; while nobody wrote past it, that is *)
(* the list the script holds, edited as asked (Carries).                   *)
(***************************************************************************)

\* The rule that the first read of an update found, the body laid over it.
Merged(q, s) ==
  \E k \in 1..Len(List(s)) :
    List(s)[k].id = q.id /\ q.rule = MergeGraphRule(List(s)[k], q.edit)

\* The list that q is about to write is the one that s holds, edited as asked.
AsAsked(q, s) ==
  \/ /\ q.op = "create" /\ q.edit \in Edits
     /\ q.next = Created(List(s), EmptyRule, q.edit)
  \/ /\ q.op = "update" /\ q.edit \in Edits /\ q.id \in Nat /\ Merged(q, s)
     /\ q.next = Updated(List(s), q.id, q.rule)
  \/ /\ q.op = "delete" /\ q.id \in Nat
     /\ q.next = Deleted(List(s), q.id)

\* What the request q carries, while the script is s.
Carries(q, s) ==
  /\ q.pc = "idle" => q = Idle
  /\ q.pc = "list" =>
       /\ q.op = "update" /\ q.edit \in Edits /\ q.id \in Nat /\ q.rule \in Rule
       /\ q.clean => Merged(q, s)
  /\ q.pc \in {"look", "put"} =>
       /\ q.next \in RuleLists
       /\ q.clean => AsAsked(q, s)

ScriptInv == Written(script) /\ \A r \in Requests : Carries(req[r], script)

\* It holds before the first request.
LEMMA ScriptInitInv == Init => ScriptInv
  <1> SUFFICES ASSUME Init PROVE ScriptInv
    OBVIOUS
  <1>1. Written(script)
    BY DEF Init, Written
  <1>2. ASSUME NEW r \in Requests PROVE Carries(req[r], script)
    <2>1. req[r] = Idle /\ Idle.pc = "idle"
      BY DEF Init, Idle
    <2> QED  BY <2>1 DEF Carries
  <1> QED  BY <1>1, <1>2 DEF ScriptInv

\* One request moves on while the script stays.
LEMMA CarryStep ==
  ASSUME RulesInv, ScriptInv, NEW r \in Requests, NEW new,
         req' = [req EXCEPT ![r] = new], script' = script, Carries(new, script)
  PROVE  ScriptInv'
  <1>1. ASSUME NEW q \in Requests PROVE Carries(req'[q], script')
    <2>1. req'[q] = IF q = r THEN new ELSE req[q]
      BY DEF RulesInv
    <2> QED  BY <2>1 DEF ScriptInv
  <1>2. Written(script')
    BY DEF ScriptInv
  <1> QED  BY <1>1, <1>2 DEF ScriptInv

\* An answered request carries nothing.
LEMMA EndedCarries ==
  ASSUME NEW how \in {"not found", "error", "ok"}, NEW s
  PROVE  Carries(Ended(how), s)
  <1>1. Ended(how).pc = how
    BY EndedFields
  <1> QED  BY <1>1 DEF Carries

\* A request that goes on as it was, unaware of a write, or aware of one.
LEMMA StillCarries ==
  ASSUME NEW q, NEW s, Carries(q, s), Members \subseteq DOMAIN q,
         q.pc \in {"list", "look", "put", "activate"}
  PROVE  /\ Carries([q EXCEPT !.off = TRUE], s)
         /\ \A t : Carries([q EXCEPT !.clean = FALSE], t)
         /\ \A t : Carries([q EXCEPT !.pc = "activate"], t)
  <1>0. {"pc", "seen", "off", "clean", "op", "id", "edit", "rule", "next"} \subseteq DOMAIN q
    BY DEF Members
  <1>1. Carries([q EXCEPT !.off = TRUE], s)
    <2> DEFINE new == [q EXCEPT !.off = TRUE]
    <2>1. /\ new.pc = q.pc /\ new.op = q.op /\ new.id = q.id /\ new.edit = q.edit
          /\ new.rule = q.rule /\ new.next = q.next /\ new.clean = q.clean
      BY <1>0
    <2> HIDE DEF new
    <2>2. (Merged(q, s) => Merged(new, s)) /\ (AsAsked(q, s) => AsAsked(new, s))
      BY <2>1 DEF Merged, AsAsked
    <2>3. Carries(new, s)
      BY <2>1, <2>2 DEF Carries
    <2> QED  BY <2>3 DEF new
  <1>2. ASSUME NEW t PROVE Carries([q EXCEPT !.clean = FALSE], t)
    <2> DEFINE new == [q EXCEPT !.clean = FALSE]
    <2>1. /\ new.pc = q.pc /\ new.op = q.op /\ new.id = q.id /\ new.edit = q.edit
          /\ new.rule = q.rule /\ new.next = q.next /\ new.clean = FALSE
      BY <1>0
    <2> HIDE DEF new
    <2>3. Carries(new, t)
      BY <2>1 DEF Carries
    <2> QED  BY <2>3 DEF new
  <1>3. ASSUME NEW t PROVE Carries([q EXCEPT !.pc = "activate"], t)
    <2> DEFINE new == [q EXCEPT !.pc = "activate"]
    <2>1. new.pc = "activate"
      BY <1>0
    <2> HIDE DEF new
    <2>3. Carries(new, t)
      BY <2>1 DEF Carries
    <2> QED  BY <2>3 DEF new
  <1> QED  BY <1>1, <1>2, <1>3

\* Each step on the script keeps the invariant.
LEMMA ScriptNextInv == RulesInv /\ ScriptInv /\ [Next]_vars => ScriptInv'
  <1> SUFFICES ASSUME RulesInv, ScriptInv, [Next]_vars PROVE ScriptInv'
    OBVIOUS
  <1>0. \A r \in Requests :
          /\ Members \subseteq DOMAIN req[r] /\ Carries(req[r], script)
          /\ {"pc", "seen", "off", "clean", "op", "id", "edit", "rule", "next"} \subseteq DOMAIN req[r]
    BY DEF RulesInv, SeenInForce, Members, ScriptInv
  <1>a. Rules \in RuleLists /\ Rules = List(script) /\ Rewrite \in {"look", "put"}
    BY ReadsRules DEF ScriptInv, Rules, Rewrite
  <1>i. /\ DOMAIN Idle = {"pc", "op", "id", "edit", "rule", "next", "seen", "clean", "off"}
        /\ Idle.clean = TRUE
    BY DEF Idle
  <1>1. ASSUME NEW r \in Requests, CreateRule(r) PROVE ScriptInv'
    <2>1. PICK edit \in Edits :
            /\ req[r].pc = "idle" /\ script' = script
            /\ req' = [req EXCEPT ![r] =
                 [req[r] EXCEPT !.op = "create", !.pc = Rewrite, !.edit = edit,
                                !.next = Created(Rules, EmptyRule, edit)]]
      BY <1>1 DEF CreateRule
    <2> DEFINE list == Created(Rules, EmptyRule, edit)
               new == [req[r] EXCEPT !.op = "create", !.pc = Rewrite, !.edit = edit, !.next = list]
    <2>2. list \in RuleLists
      BY <1>a, CreatedList
    <2>3. req[r] = Idle
      BY <1>0, <2>1 DEF Carries
    <2> HIDE DEF list
    <2>4. /\ new.pc \in {"look", "put"} /\ new.op = "create" /\ new.edit = edit
          /\ new.next = list
      BY <1>a, <1>i, <2>3
    <2> HIDE DEF new
    <2>5. AsAsked(new, script)
      BY <1>a, <2>4 DEF AsAsked, list
    <2>6. Carries(new, script)
      BY <2>2, <2>4, <2>5 DEF Carries
    <2>7. req' = [req EXCEPT ![r] = new]
      BY <2>1 DEF new, list
    <2> QED  BY <2>1, <2>6, <2>7, CarryStep
  <1>2. ASSUME NEW r \in Requests, GetRule(r) PROVE ScriptInv'
    <2>1. PICK edit \in Edits, id \in Ids :
            LET found == {k \in DOMAIN Rules : Rules[k].id = id}
            IN  /\ req[r].pc = "idle" /\ script' = script
                /\ req' = [req EXCEPT ![r] =
                     IF found = {} THEN Ended("not found")
                     ELSE [req[r] EXCEPT !.op = "update", !.pc = "list", !.id = id, !.edit = edit,
                                         !.rule = MergeGraphRule(Rules[Min(found)], edit)]]
      BY <1>2 DEF GetRule
    <2> DEFINE found == {k \in DOMAIN Rules : Rules[k].id = id}
               rule == MergeGraphRule(Rules[Min(found)], edit)
               new == [req[r] EXCEPT !.op = "update", !.pc = "list", !.id = id, !.edit = edit,
                                     !.rule = rule]
    <2>2. \/ req' = [req EXCEPT ![r] = Ended("not found")]
          \/ found # {} /\ req' = [req EXCEPT ![r] = new]
      BY <2>1
    <2>3. req[r] = Idle /\ script' = script
      BY <1>0, <2>1 DEF Carries
    <2>4. CASE req' = [req EXCEPT ![r] = Ended("not found")]
      BY <2>3, <2>4, EndedCarries, CarryStep
    <2>5. CASE found # {} /\ req' = [req EXCEPT ![r] = new]
      <3>1. DOMAIN Rules = 1..Len(Rules) /\ Len(Rules) \in Nat
        BY <1>a, TableIs
      <3>2. found \in SUBSET Nat
        BY <3>1
      <3>3. PICK x \in found : \A y \in found : x <= y
        BY <2>5, <3>2, LeastNat
      <3>4. Min(found) = CHOOSE m \in found : \A y \in found : m <= y
        BY DEF Min
      <3> HIDE DEF found
      <3>5. Min(found) \in found
        BY <3>3, <3>4
      <3>6. Min(found) \in 1..Len(Rules) /\ Rules[Min(found)].id = id
        BY <3>1, <3>5 DEF found
      <3>7. Rules[Min(found)] \in Rule
        BY <1>a, <3>6, TableIs
      <3>8. rule \in Rule /\ id \in Nat
        BY <3>7, MergedRule, RulesAssumption
      <3>9. /\ new.pc = "list" /\ new.op = "update" /\ new.edit = edit
            /\ new.id = id /\ new.rule = rule
        <4> HIDE DEF rule
        <4> QED  BY <1>i, <2>3
      <3> HIDE DEF new
      <3>10. Merged(new, script)
        BY <1>a, <3>6, <3>9 DEF Merged
      <3> HIDE DEF rule
      <3>11. Carries(new, script)
        BY <3>8, <3>9, <3>10 DEF Carries
      <3> QED  BY <2>3, <2>5, <3>11, CarryStep
    <2> HIDE DEF new, found
    <2> QED  BY <2>2, <2>4, <2>5
  <1>3. ASSUME NEW r \in Requests, UpdateRule(r) PROVE ScriptInv'
    <2> DEFINE list == Updated(Rules, req[r].id, req[r].rule)
               new == [req[r] EXCEPT !.pc = Rewrite, !.next = list]
    <2>1. /\ req[r].pc = "list" /\ script' = script
          /\ req' = [req EXCEPT ![r] = Ended("not found")] \/ req' = [req EXCEPT ![r] = new]
      BY <1>3 DEF UpdateRule
    <2>2. /\ req[r].op = "update" /\ req[r].edit \in Edits
          /\ req[r].id \in Nat /\ req[r].rule \in Rule
          /\ req[r].clean => Merged(req[r], script)
      BY <1>0, <2>1 DEF Carries
    <2>3. list \in RuleLists
      BY <1>a, <2>2, UpdatedList
    <2> HIDE DEF list
    <2>4. /\ new.pc \in {"look", "put"} /\ new.op = req[r].op /\ new.edit = req[r].edit
          /\ new.id = req[r].id /\ new.rule = req[r].rule /\ new.clean = req[r].clean
          /\ new.next = list
      BY <1>0, <1>a
    <2> HIDE DEF new
    <2>5. ASSUME new.clean PROVE AsAsked(new, script)
      <3>1. Merged(new, script)
        BY <2>2, <2>4, <2>5 DEF Merged
      <3> QED  BY <1>a, <2>2, <2>4, <3>1 DEF AsAsked, list
    <2>6. Carries(new, script)
      BY <2>3, <2>4, <2>5 DEF Carries
    <2> QED  BY <2>1, <2>6, EndedCarries, CarryStep
  <1>4. ASSUME NEW r \in Requests, DeleteRule(r) PROVE ScriptInv'
    <2>1. PICK id \in Ids :
            /\ req[r].pc = "idle" /\ script' = script
            /\ req' = [req EXCEPT ![r] =
                 IF id \notin IdsOf(Rules) THEN Ended("not found")
                 ELSE [req[r] EXCEPT !.op = "delete", !.pc = Rewrite, !.id = id,
                                     !.next = Deleted(Rules, id)]]
      BY <1>4 DEF DeleteRule
    <2> DEFINE list == Deleted(Rules, id)
               new == [req[r] EXCEPT !.op = "delete", !.pc = Rewrite, !.id = id, !.next = list]
    <2>2. id \in Nat /\ list \in RuleLists
      BY <1>a, DeletedList, RulesAssumption
    <2>3. req[r] = Idle
      BY <1>0, <2>1 DEF Carries
    <2>4. req' = [req EXCEPT ![r] = Ended("not found")] \/ req' = [req EXCEPT ![r] = new]
      BY <2>1
    <2> HIDE DEF list
    <2>5. new.pc \in {"look", "put"} /\ new.op = "delete" /\ new.id = id /\ new.next = list
      BY <1>a, <1>i, <2>3
    <2> HIDE DEF new
    <2>6. AsAsked(new, script)
      BY <1>a, <2>2, <2>5 DEF AsAsked, list
    <2>7. Carries(new, script)
      BY <2>2, <2>5, <2>6 DEF Carries
    <2> QED  BY <2>1, <2>4, <2>7, EndedCarries, CarryStep
  <1>5. ASSUME NEW r \in Requests, Look(r) PROVE ScriptInv'
    <2> DEFINE seen == IF script = None THEN "absent"
                       ELSE IF active = "mailboxd" THEN "active" ELSE "present"
               new == [req[r] EXCEPT !.pc = "put", !.seen = seen]
    <2>1. req' = [req EXCEPT ![r] = new] /\ script' = script /\ req[r].pc = "look"
      BY <1>5 DEF Look
    <2> HIDE DEF seen
    <2>2. /\ new.pc = "put" /\ new.op = req[r].op /\ new.edit = req[r].edit
          /\ new.id = req[r].id /\ new.rule = req[r].rule /\ new.clean = req[r].clean
          /\ new.next = req[r].next
      BY <1>0
    <2> HIDE DEF new
    <2>3. AsAsked(req[r], script) => AsAsked(new, script)
      BY <2>2 DEF AsAsked, Merged
    <2>4. req[r].next \in RuleLists /\ (req[r].clean => AsAsked(req[r], script))
      BY <1>0, <2>1 DEF Carries
    <2>5. Carries(new, script)
      BY <2>2, <2>3, <2>4 DEF Carries
    <2> QED  BY <2>1, <2>5, CarryStep
  <1>6. ASSUME NEW r \in Requests, PutScript(r) PROVE ScriptInv'
    <2> DEFINE new == IF req[r].seen = "active" THEN Ended("ok") ELSE [req[r] EXCEPT !.pc = "activate"]
    <2>1. /\ req[r].pc = "put" /\ script' = Encode(req[r].next)
          /\ req' = [Disturb(r) EXCEPT ![r] = new]
      BY <1>6 DEF PutScript, Disturb
    <2>2. Written(script')
      <3>1. req[r].next \in RuleLists
        BY <1>0, <2>1 DEF Carries
      <3> QED  BY <2>1, <3>1 DEF Written
    <2>3. Carries(new, script')
      BY <1>0, <2>1, EndedCarries, StillCarries
    <2> HIDE DEF new
    <2>4. ASSUME NEW q \in Requests PROVE Carries(req'[q], script')
      <3>1. CASE q = r
        <4>1. req'[q] = new
          BY <2>1, <3>1 DEF Disturb
        <4> QED  BY <2>3, <4>1
      <3>2. CASE q # r /\ Open(q)
        <4>1. req'[q] = [req[q] EXCEPT !.clean = FALSE]
          BY <2>1, <3>2 DEF Disturb
        <4>2. req[q].pc \in {"list", "look", "put", "activate"}
          BY <3>2 DEF Open
        <4>3. Carries([req[q] EXCEPT !.clean = FALSE], script')
          BY <1>0, <4>2, StillCarries
        <4> QED  BY <4>1, <4>3
      <3>3. CASE q # r /\ ~ Open(q)
        <4>1. req'[q] = req[q]
          BY <2>1, <3>3 DEF Disturb
        <4>2. req[q].pc \notin {"list", "look", "put"}
          BY <3>3 DEF Open
        <4>3. Carries(req[q], script')
          BY <1>0, <4>2 DEF Carries
        <4> QED  BY <4>1, <4>3
      <3> QED  BY <3>1, <3>2, <3>3
    <2> QED  BY <2>2, <2>4 DEF ScriptInv
  <1>7. ASSUME NEW r \in Requests, Activate(r) \/ Fail(r) PROVE ScriptInv'
    <2>1. /\ script' = script
          /\ \E how \in {"not found", "error", "ok"} : req' = [req EXCEPT ![r] = Ended(how)]
      BY <1>7 DEF Activate, Fail
    <2> QED  BY <2>1, EndedCarries, CarryStep
  <1>8. CASE OtherClient
    <2>1. /\ script' = script
          /\ req' = [r \in Requests |-> IF Open(r) THEN [req[r] EXCEPT !.off = TRUE] ELSE req[r]]
      BY <1>8 DEF OtherClient
    <2>2. ASSUME NEW q \in Requests PROVE Carries(req'[q], script')
      <3>1. CASE Open(q)
        <4>1. req'[q] = [req[q] EXCEPT !.off = TRUE]
          BY <2>1, <3>1
        <4>2. req[q].pc \in {"list", "look", "put", "activate"}
          BY <3>1 DEF Open
        <4>3. Carries([req[q] EXCEPT !.off = TRUE], script)
          BY <1>0, <4>2, StillCarries
        <4> QED  BY <2>1, <4>1, <4>3
      <3>2. CASE ~ Open(q)
        <4>1. req'[q] = req[q]
          BY <2>1, <3>2
        <4> QED  BY <1>0, <2>1, <4>1
      <3> QED  BY <3>1, <3>2
    <2>3. Written(script')
      BY <2>1 DEF ScriptInv
    <2> QED  BY <2>2, <2>3 DEF ScriptInv
  <1>9. CASE UNCHANGED vars
    BY <1>9 DEF vars, ScriptInv
  <1> QED  BY <1>1, <1>2, <1>3, <1>4, <1>5, <1>6, <1>7, <1>8, <1>9 DEF Next

\* It is an invariant.
LEMMA ScriptInvariant == Spec => [](RulesInv /\ ScriptInv)
  BY RulesInitInv, RulesNextInv, ScriptInitInv, ScriptNextInv, PTL DEF Spec

\* The mail server runs what the API lists: whatever requests write over each
\* other, each script is one whole list of rules, sorted, each rule with an id
\* of its own, and its "if"s are the enabled ones.
THEOREM RunsListed == Spec => []RunsWhatItLists
  <1>1. ScriptInv => RunsWhatItLists
    <2> SUFFICES ASSUME ScriptInv, script # None, script \notin Foreign
                 PROVE  RunsWhatItLists
      BY DEF RunsWhatItLists
    <2>1. PICK rules \in RuleLists : script = Encode(rules)
      BY DEF ScriptInv, Written
    <2> DEFINE o == Ordered(rules)
               K == Enabled(o)
               q == Cardinality(K)
    <2>2. /\ List(script) = o
          /\ Ifs(script) = [j \in 1..q |-> BuildIf(Kept(o, K)[j])]
      BY <2>1, EncodeReads
    <2>3. /\ o \in RuleLists /\ Len(o) = Len(rules)
          /\ \A i, j \in 1..Len(rules) : i <= j => o[i].seq <= o[j].seq
      BY OrderedKeeps
    <2>4. DOMAIN o = 1..Len(o) /\ Len(o) \in Nat
      BY <2>3, TableIs
    <2>5. {k \in DOMAIN o : o[k].on} = K
      BY <2>4 DEF Enabled
    <2>6. DOMAIN Kept(o, K) = 1..q
      BY DEF Kept
    <2>7. Ifs(script) = [k \in DOMAIN Kept(o, K) |-> BuildIf(Kept(o, K)[k])]
      BY <2>2, <2>6
    <2>8. \A i, j \in DOMAIN o : i < j => o[i].seq <= o[j].seq
      BY <2>3, <2>4
    <2>9. Cardinality(IdsOf(o)) = Len(o)
      BY <2>3, IdsCounted
    <2> HIDE DEF o, K
    <2> QED  BY <2>2, <2>5, <2>7, <2>8, <2>9 DEF RunsWhatItLists
  <1> QED  BY <1>1, ScriptInvariant, PTL

\* Of the requests, only the one that stores the script passes from "put" to an
\* activation or to success.
LEMMA OnlyPutStores ==
  ASSUME RulesInv, Next, NEW r \in Requests, req[r].pc = "put",
         req'[r].pc \in {"ok", "activate"}
  PROVE  PutScript(r)
  <1>0. /\ DOMAIN req = Requests
        /\ \A q \in Requests : {"pc", "seen", "off", "clean", "op", "id", "edit", "rule", "next"} \subseteq DOMAIN req[q]
    BY DEF RulesInv, SeenInForce, Members
  <1>1. ASSUME NEW q \in Requests,
               CreateRule(q) \/ GetRule(q) \/ UpdateRule(q) \/ DeleteRule(q) \/ Look(q) \/ Activate(q)
        PROVE  FALSE
    <2>1. q # r
      BY <1>1 DEF CreateRule, GetRule, UpdateRule, DeleteRule, Look, Activate
    <2>2. \E new : req' = [req EXCEPT ![q] = new]
      <3>1. CASE CreateRule(q) \/ GetRule(q) \/ DeleteRule(q)
        BY <3>1 DEF CreateRule, GetRule, DeleteRule
      <3>2. CASE UpdateRule(q) \/ Activate(q)
        BY <3>2 DEF UpdateRule, Activate
      <3>3. CASE Look(q)
        <4> DEFINE seen == IF script = None THEN "absent"
                           ELSE IF active = "mailboxd" THEN "active" ELSE "present"
        <4>1. req' = [req EXCEPT ![q] = [req[q] EXCEPT !.pc = "put", !.seen = seen]]
          BY <3>3 DEF Look
        <4> QED  BY <4>1
      <3> QED  BY <1>1, <3>1, <3>2, <3>3
    <2>3. req'[r] = req[r]
      BY <1>0, <2>1, <2>2
    <2> QED  BY <2>3
  <1>2. ASSUME NEW q \in Requests, Fail(q) PROVE FALSE
    BY <1>0, <1>2, EndedFields DEF Fail
  <1>3. ASSUME NEW q \in Requests, PutScript(q), q # r PROVE FALSE
    <2>1. req'[r] = [req[r] EXCEPT !.clean = FALSE]
      <3>1. Open(r)
        BY DEF Open
      <3>2. \E new : req' = [Disturb(q) EXCEPT ![q] = new]
        BY <1>3 DEF PutScript, Disturb
      <3> QED  BY <1>3, <3>1, <3>2 DEF Disturb
    <2> QED  BY <1>0, <2>1
  <1>4. CASE OtherClient
    <2>1. req'[r] = [req[r] EXCEPT !.off = TRUE]
      BY <1>4 DEF OtherClient, Open
    <2> QED  BY <1>0, <2>1
  <1> QED  BY <1>1, <1>2, <1>3, <1>4 DEF Next

\* A request nobody wrote past changes what it was asked to, and no other rule.
THEOREM WritesClean == Spec => CleanWrite
  <1> DEFINE Clean == \A r \in Requests :
       (req[r].pc = "put" /\ req'[r].pc \in {"ok", "activate"} /\ req[r].clean) =>
         LET old == ById(script)
             new == ById(script')
             kept == DOMAIN old \ {req[r].id}
             edit == req[r].edit
         IN  /\ \A id \in kept : id \in DOMAIN new /\ new[id] = old[id]
             /\ CASE req[r].op = "create" ->
                       \E id \in DOMAIN new : DOMAIN new = DOMAIN old \cup {id}
                                              /\ id \notin DOMAIN old
                  [] req[r].op = "update" ->
                       /\ DOMAIN new = DOMAIN old
                       /\ new[req[r].id] = MergeGraphRule(old[req[r].id], edit)
                  [] req[r].op = "delete" -> DOMAIN new = kept
  <1>1. ASSUME RulesInv, ScriptInv, Next, NEW r \in Requests, req[r].pc = "put",
               req'[r].pc \in {"ok", "activate"}, req[r].clean
        PROVE  LET old == ById(script)
                   new == ById(script')
                   kept == DOMAIN old \ {req[r].id}
                   edit == req[r].edit
               IN  /\ \A id \in kept : id \in DOMAIN new /\ new[id] = old[id]
                   /\ CASE req[r].op = "create" ->
                             \E id \in DOMAIN new : DOMAIN new = DOMAIN old \cup {id}
                                                    /\ id \notin DOMAIN old
                        [] req[r].op = "update" ->
                             /\ DOMAIN new = DOMAIN old
                             /\ new[req[r].id] = MergeGraphRule(old[req[r].id], edit)
                        [] req[r].op = "delete" -> DOMAIN new = kept
    <2> DEFINE q == req[r]
               rules == List(script)
               list == q.next
               old == Table(rules)
               new == Table(list)
    <2>1. script' = Encode(list)
      BY <1>1, OnlyPutStores DEF PutScript
    <2>2. /\ rules \in RuleLists /\ list \in RuleLists /\ AsAsked(q, script)
      <3>1. Written(script) /\ Carries(q, script)
        BY <1>1 DEF ScriptInv
      <3> QED  BY <1>1, <3>1, ReadsRules DEF Carries
    <2>3. ById(script) = old
      BY DEF ById, Table
    <2>4. ById(script') = new
      <3>1. ById(script') = Table(List(script'))
        BY DEF ById, Table
      <3>2. List(script') = Ordered(list)
        BY <2>1, <2>2, EncodeReads
      <3>3. Table(list) = Table(Ordered(list))
        BY <2>2, OrderedKeeps, SameTable
      <3> QED  BY <3>1, <3>2, <3>3
    <2>5. DOMAIN old = IdsOf(rules) /\ DOMAIN new = IdsOf(list)
      BY <2>2, TableIs
    <2> HIDE DEF q, rules, list, old, new
    <2>6. CASE q.op = "create"
      <3>1. q.edit \in Edits /\ list = Created(rules, EmptyRule, q.edit)
        BY <2>2, <2>6 DEF AsAsked, rules, list
      <3>2. /\ IdsOf(list) = IdsOf(rules) \cup {FreshID(rules)}
            /\ FreshID(rules) \notin IdsOf(rules)
            /\ \A id \in IdsOf(rules) : new[id] = old[id]
        BY <2>2, <3>1, CreatedList, Fresh DEF old, new
      <3>3. \A id \in DOMAIN old : id \in DOMAIN new /\ new[id] = old[id]
        BY <2>5, <3>2
      <3>4. \E id \in DOMAIN new : DOMAIN new = DOMAIN old \cup {id} /\ id \notin DOMAIN old
        BY <2>5, <3>2
      <3> QED  BY <2>3, <2>4, <2>6, <3>3, <3>4 DEF q
    <2>7. CASE q.op = "update"
      <3>1. /\ q.edit \in Edits /\ q.id \in Nat /\ Merged(q, script)
            /\ list = Updated(rules, q.id, q.rule)
        BY <2>2, <2>7 DEF AsAsked, rules, list
      <3>2. PICK k \in 1..Len(rules) :
              rules[k].id = q.id /\ q.rule = MergeGraphRule(rules[k], q.edit)
        BY <3>1 DEF Merged, rules
      <3>3. /\ rules[k] \in Rule /\ q.id \in IdsOf(rules) /\ old[q.id] = rules[k]
        <4>1. /\ rules[k] \in Rule /\ rules[k].id \in IdsOf(rules)
              /\ Table(rules)[rules[k].id] = rules[k]
          BY <2>2, TableIs
        <4> QED  BY <3>2, <4>1 DEF old
      <3>4. q.rule \in Rule /\ q.rule.id = q.id
        BY <3>1, <3>2, <3>3, MergedRule
      <3>5. [q.rule EXCEPT !.id = q.id] = q.rule
        BY <3>4 DEF Rule
      <3>6. /\ IdsOf(list) = IdsOf(rules)
            /\ \A id \in IdsOf(rules) \ {q.id} : new[id] = old[id]
            /\ new[q.id] = [q.rule EXCEPT !.id = q.id]
        BY <2>2, <3>1, <3>3, <3>4, UpdatedList DEF old, new
      <3>7. new[q.id] = MergeGraphRule(old[q.id], q.edit)
        BY <3>2, <3>3, <3>5, <3>6
      <3>8. \A id \in DOMAIN old \ {q.id} : id \in DOMAIN new /\ new[id] = old[id]
        BY <2>5, <3>6
      <3>9. DOMAIN new = DOMAIN old
        BY <2>5, <3>6
      <3> QED  BY <2>3, <2>4, <2>7, <3>7, <3>8, <3>9 DEF q
    <2>8. CASE q.op = "delete"
      <3>1. q.id \in Nat /\ list = Deleted(rules, q.id)
        BY <2>2, <2>8 DEF AsAsked, rules, list
      <3>2. /\ IdsOf(list) = IdsOf(rules) \ {q.id}
            /\ \A id \in IdsOf(rules) \ {q.id} : new[id] = old[id]
        BY <2>2, <3>1, DeletedList DEF old, new
      <3>3. \A id \in DOMAIN old \ {q.id} : id \in DOMAIN new /\ new[id] = old[id]
        BY <2>5, <3>2
      <3>4. DOMAIN new = DOMAIN old \ {q.id}
        BY <2>5, <3>2
      <3> QED  BY <2>3, <2>4, <2>8, <3>3, <3>4 DEF q
    <2>9. q.op \in {"create", "update", "delete"}
      BY <2>2 DEF AsAsked
    <2> QED  BY <2>6, <2>7, <2>8, <2>9
  <1>2. RulesInv /\ ScriptInv /\ [Next]_vars => [Clean]_vars
    BY <1>1
  <1> QED  BY <1>2, ScriptInvariant, PTL DEF Spec, CleanWrite

-----------------------------------------------------------------------------
(***************************************************************************)
(* Calendar sharing, for any requests, grantees, roles and grants made     *)
(* elsewhere.                                                              *)
(*                                                                         *)
(* A map that a request is about to write back is as old as the request's  *)
(* read, so an invariant of the stored map alone is not inductive.         *)
(* ShareInv says the same of every map under way: the rights to write in   *)
(* it were given (Earned), an entry it has and the stored map lacks was taken *)
(* away since or is the one asked for (Accounted), and a map nobody        *)
(* overtook differs from the stored one in one entry (UpToDate).           *)
(***************************************************************************)

Rights == (SUBSET Flags) \cup {NoGrant}

\* The request c, as setShare finds it.
ChangeType ==
  [pc: {"idle", "get", "set", "ok", "notFound", "error"},
   to: Grantees \cup {NoGrant}, rights: Rights, must: BOOLEAN,
   next: [Grantees -> Rights] \cup {NoGrant}, gone: SUBSET Grantees, clean: BOOLEAN]

\* The rights to write that a grant holds were given to its grantee.
Earns(p, rights) == rights # NoGrant => rights \cap Writing \subseteq given[p]

Asking(c) == change[c].pc \in {"get", "set"}

ShareShapes ==
  /\ share \in [Grantees -> Rights]
  /\ change \in [Changes -> ChangeType]
  /\ given \in [Grantees -> SUBSET Writing]
  /\ \A c \in Changes : Asking(c) => change[c].to \in Grantees
  /\ \A c \in Changes : change[c].pc = "set" => change[c].next \in [Grantees -> Rights]

Earned ==
  /\ \A p \in Grantees : Earns(p, share[p])
  /\ \A c \in Changes : Asking(c) => Earns(change[c].to, change[c].rights)
  /\ \A c \in Changes : change[c].pc = "set" => \A p \in Grantees : Earns(p, change[c].next[p])

Accounted ==
  \A c \in Changes : change[c].pc = "set" =>
    \A p \in Grantees :
      (change[c].next[p] # NoGrant /\ share[p] = NoGrant) =>
         \/ change[c].to = p /\ ~change[c].must
         \/ p \in change[c].gone

UpToDate ==
  \A c \in Changes : (change[c].pc = "set" /\ change[c].clean) =>
    change[c].next = [share EXCEPT ![change[c].to] = change[c].rights]

ShareInv == ShareShapes /\ Earned /\ Accounted /\ UpToDate

-----------------------------------------------------------------------------

\* Whatever role a body names, roleToRights yields a set of rights.
LEMMA RoleRights == \A role : RoleToRights(role) \in SUBSET Flags
  BY SMT DEF RoleToRights, Read, Write, Flags

\* The rights to write that a role is translated to are those it means.
LEMMA RoleEntitles ==
  \A role : RoleToRights(role) \cap Writing \subseteq Entitled(role) /\ Entitled(role) \subseteq Writing
  BY SMT DEF RoleToRights, Read, Write, Writing, Entitled

\* Translating rights to a role and back adds what Rewritten says, and only to
\* a grant that could write everything.
LEMMA RoundTrip ==
  ASSUME NEW rights \in SUBSET Flags
  PROVE  RoleToRights(RightsToRole(rights)) \cap Writing \subseteq rights \cup Rewritten(rights)
  <1>1. CASE "writeAll" \in rights /\ "private" \in rights
    <2>1. RightsToRole(rights) = "delegateWithPrivateEventAccess"
      BY <1>1, SMT DEF RightsToRole
    <2>2. RoleToRights("delegateWithPrivateEventAccess") = Write \cup {"private"}
      BY SMT DEF RoleToRights
    <2> QED  BY <1>1, <2>1, <2>2 DEF Write, Writing, Rewritten
  <1>2. CASE "writeAll" \in rights /\ "private" \notin rights
    <2>1. RightsToRole(rights) = "write"
      BY <1>2, SMT DEF RightsToRole
    <2>2. RoleToRights("write") = Write
      BY SMT DEF RoleToRights
    <2> QED  BY <1>2, <2>1, <2>2 DEF Write, Writing, Rewritten
  <1>3. CASE "writeAll" \notin rights
    <2>1. RightsToRole(rights) \in {"read", "freeBusyRead", "none"}
      BY <1>3, SMT DEF RightsToRole
    <2>2. RoleToRights("read") \cap Writing = {} /\ RoleToRights("freeBusyRead") \cap Writing = {}
          /\ RoleToRights("none") \cap Writing = {}
      BY SMT DEF RoleToRights, Read, Writing
    <2> QED  BY <2>1, <2>2
  <1> QED  BY <1>1, <1>2, <1>3

\* The role a grant is shown with is one of the roles the server knows.
LEMMA KnownRole == \A rights : RightsToRole(rights) \in PermissionRole
  BY SMT DEF RightsToRole, PermissionRole

\* The invariant holds before the first request.
LEMMA ShareInitInv == ShareInit => ShareInv
  <1> SUFFICES ASSUME ShareInit PROVE ShareInv
    OBVIOUS
  <1>1. ShareShapes
    BY SharingAssumption DEF ShareInit, ShareShapes, ChangeType, NoChange, Rights, Asking
  <1>2. \A c \in Changes : change[c].pc = "idle"
    BY DEF ShareInit, NoChange
  <1>3. Earned
    BY <1>2 DEF ShareInit, Earned, Earns, Asking, NoChange
  <1>4. Accounted /\ UpToDate
    BY <1>2 DEF Accounted, UpToDate
  <1> QED  BY <1>1, <1>3, <1>4 DEF ShareInv

\* A request that begins, or ends without a write, leaves the stored map and
\* the other requests alone.
LEMMA AskStep ==
  ASSUME ShareInv, NEW c \in Changes, NEW p \in Grantees, NEW rights \in Rights,
         NEW must \in BOOLEAN, Ask(c, p, rights, must),
         share' = share, given' \in [Grantees -> SUBSET Writing],
         \A q \in Grantees : given[q] \subseteq given'[q],
         rights # NoGrant => rights \cap Writing \subseteq given'[p]
  PROVE  ShareInv'
  <1>1. /\ change' = [change EXCEPT ![c] = change'[c]]
        /\ change'[c] \in ChangeType
        /\ change'[c].pc = "get" /\ change'[c].to = p /\ change'[c].rights = rights
    BY DEF ShareInv, ShareShapes, Ask, Goto, NoChange, ChangeType, Rights
  <1>2. \A d \in Changes : d # c => change'[d] = change[d]
    BY DEF ShareInv, ShareShapes, Ask, Goto
  <1>3. ShareShapes'
    BY <1>1, <1>2 DEF ShareInv, ShareShapes, Asking
  <1>4. Earned'
    <2>1. \A q \in Grantees : \A old : Earns(q, old) => Earns(q, old)'
      BY DEF Earns
    <2>2. Earns(p, rights)'
      BY DEF Earns
    <2>3. \A d \in Changes : d # c => Asking(d)' = Asking(d)
      BY <1>2 DEF Asking
    <2> QED  BY <1>1, <1>2, <2>1, <2>2, <2>3 DEF ShareInv, ShareShapes, Earned
  <1>5. Accounted' /\ UpToDate'
    BY <1>1, <1>2 DEF ShareInv, Accounted, UpToDate
  <1> QED  BY <1>3, <1>4, <1>5 DEF ShareInv

\* A request that is answered without a write keeps the invariant.
LEMMA AnswerStep ==
  ASSUME ShareInv, NEW c \in Changes, NEW how \in {"ok", "notFound", "error"},
         Goto(c, Answer(how)), share' = share, given' = given
  PROVE  ShareInv'
  <1>1. /\ change'[c] \in ChangeType
        /\ change'[c].pc = how
        /\ change' \in [Changes -> ChangeType]
    BY DEF ShareInv, ShareShapes, Goto, Answer, NoChange, ChangeType, Rights
  <1>2. \A d \in Changes : d # c => change'[d] = change[d]
    BY DEF ShareInv, ShareShapes, Goto
  <1>3. ShareShapes'
    BY <1>1, <1>2 DEF ShareInv, ShareShapes, Asking
  <1>4. Earned'
    BY <1>1, <1>2 DEF ShareInv, Earned, Earns, Asking
  <1>5. Accounted' /\ UpToDate'
    BY <1>1, <1>2 DEF ShareInv, Accounted, UpToDate
  <1> QED  BY <1>3, <1>4, <1>5 DEF ShareInv

\* What is given stays given, and is a set of rights to write.
LEMMA GivesStep ==
  ASSUME ShareInv, NEW p \in Grantees, NEW rights \in SUBSET Writing, Gives(p, rights)
  PROVE  /\ given' \in [Grantees -> SUBSET Writing]
         /\ \A q \in Grantees : given[q] \subseteq given'[q]
         /\ rights \subseteq given'[p]
  <1>1. given \in [Grantees -> SUBSET Writing] /\ given' = [given EXCEPT ![p] = given[p] \cup rights]
    BY DEF ShareInv, ShareShapes, Gives
  <1>2. given[p] \cup rights \in SUBSET Writing
    BY <1>1
  <1>3. given'[p] = given[p] \cup rights /\ \A q \in Grantees : q # p => given'[q] = given[q]
    BY <1>1
  <1> QED  BY <1>1, <1>2, <1>3

\* A create that has read the map keeps the invariant.
LEMMA CreateStep ==
  ASSUME ShareInv, NEW c \in Changes, CreateCalendarPermission(c)
  PROVE  ShareInv'
  <1>1. PICK p \in ResolvePrincipal, role \in Roles \cup {NoGrant} :
          /\ IF p = NoGrant THEN Goto(c, Answer("error"))
                            ELSE Ask(c, p, RoleToRights(role), FALSE)
          /\ IF p = NoGrant THEN UNCHANGED given ELSE Gives(p, Entitled(role))
          /\ share' = share
    BY DEF CreateCalendarPermission
  <1>2. CASE p = NoGrant
    BY <1>1, <1>2, AnswerStep
  <1>3. CASE p # NoGrant
    <2>1. p \in Grantees /\ RoleToRights(role) \in Rights /\ Ask(c, p, RoleToRights(role), FALSE)
      BY <1>1, <1>3, RoleRights DEF ResolvePrincipal, Rights
    <2>2. Entitled(role) \in SUBSET Writing /\ Gives(p, Entitled(role))
      BY <1>1, <1>3, RoleEntitles
    <2>3. /\ given' \in [Grantees -> SUBSET Writing]
          /\ \A q \in Grantees : given[q] \subseteq given'[q]
          /\ Entitled(role) \subseteq given'[p]
      BY <2>1, <2>2, GivesStep
    <2>4. RoleToRights(role) \cap Writing \subseteq given'[p]
      BY <2>3, RoleEntitles
    <2> QED  BY <1>1, <2>1, <2>3, <2>4, AskStep
  <1> QED  BY <1>2, <1>3

\* An update that has read the map keeps the invariant.
LEMMA UpdateStep ==
  ASSUME ShareInv, NEW c \in Changes, UpdateCalendarPermission(c)
  PROVE  ShareInv'
  <1>1. PICK p \in Grantees, role \in Roles \cup {NoGrant} :
          /\ IF GetCalendarPermission(p) = NoGrant THEN Goto(c, Answer("notFound"))
             ELSE Ask(c, p, RoleToRights(MergeGraphPermission(GetCalendarPermission(p), role)), TRUE)
          /\ IF share[p] = NoGrant THEN UNCHANGED given
             ELSE Gives(p, IF role = NoGrant THEN Rewritten(share[p]) ELSE Entitled(role))
          /\ share' = share
    BY DEF UpdateCalendarPermission
  <1> DEFINE rights == RoleToRights(MergeGraphPermission(GetCalendarPermission(p), role))
             more == IF role = NoGrant THEN Rewritten(share[p]) ELSE Entitled(role)
  <1>3. CASE GetCalendarPermission(p) = NoGrant /\ share[p] = NoGrant
    <2>1. Goto(c, Answer("notFound")) /\ given' = given
      BY <1>1, <1>3
    <2> QED  BY <1>1, <2>1, AnswerStep
  <1>4. CASE share[p] # NoGrant
    <2>1. /\ GetCalendarPermission(p) = RightsToRole(share[p])
          /\ GetCalendarPermission(p) # NoGrant
      BY <1>4, KnownRole, SharingAssumption DEF GetCalendarPermission
    <2>2. Ask(c, p, rights, TRUE) /\ rights \in Rights
      BY <1>1, <2>1, RoleRights DEF Rights
    <2>3. share[p] \in SUBSET Flags
      BY <1>4 DEF ShareInv, ShareShapes, Rights
    <2>4. more \in SUBSET Writing
      BY RoleEntitles DEF Rewritten, Writing
    <2>5. Gives(p, more)
      BY <1>1, <1>4
    <2> HIDE DEF more
    <2>6. /\ given' \in [Grantees -> SUBSET Writing]
          /\ \A q \in Grantees : given[q] \subseteq given'[q]
          /\ more \subseteq given'[p]
      BY <2>4, <2>5, GivesStep
    <2>7. rights \cap Writing \subseteq given'[p]
      <3>1. CASE role = NoGrant
        <4>1. rights = RoleToRights(RightsToRole(share[p]))
          BY <2>1, <3>1 DEF MergeGraphPermission
        <4>2. rights \cap Writing \subseteq share[p] \cup Rewritten(share[p])
          BY <4>1, <2>3, RoundTrip
        <4>3. more = Rewritten(share[p])
          BY <3>1 DEF more
        <4>4. share[p] \cap Writing \subseteq given[p]
          BY <1>4 DEF ShareInv, Earned, Earns
        <4> HIDE DEF rights
        <4> QED  BY <2>6, <4>2, <4>3, <4>4
      <3>2. CASE role # NoGrant
        <4>1. rights = RoleToRights(role) /\ more = Entitled(role)
          BY <3>2 DEF MergeGraphPermission, more
        <4>2. rights \cap Writing \subseteq more
          BY <4>1, RoleEntitles
        <4> HIDE DEF rights
        <4> QED  BY <2>6, <4>2
      <3> QED  BY <3>1, <3>2
    <2> HIDE DEF rights
    <2> QED  BY <1>1, <2>2, <2>6, <2>7, AskStep
  <1> QED  BY <1>3, <1>4 DEF GetCalendarPermission

\* A delete that has read the map keeps the invariant.
LEMMA DeleteStep ==
  ASSUME ShareInv, NEW c \in Changes, DeleteCalendarPermission(c)
  PROVE  ShareInv'
  <1>1. PICK p \in Grantees : Ask(c, p, NoGrant, TRUE)
    BY DEF DeleteCalendarPermission
  <1>2. share' = share /\ given' = given /\ given \in [Grantees -> SUBSET Writing]
    BY DEF DeleteCalendarPermission, ShareInv, ShareShapes
  <1>3. NoGrant \in Rights
    BY DEF Rights
  <1> QED  BY <1>1, <1>2, <1>3, AskStep

\* The map is read: what it holds is the stored map with one entry changed.
LEMMA ReadStep ==
  ASSUME ShareInv, NEW c \in Changes, SetShare(c)
  PROVE  ShareInv'
  <1> DEFINE to == change[c].to
             new == [share EXCEPT ![to] = change[c].rights]
  <1>0. /\ change[c].pc = "get" /\ share' = share /\ given' = given
        /\ to \in Grantees /\ change[c] \in ChangeType
    BY DEF SetShare, ShareInv, ShareShapes, Asking
  <1>1. CASE change[c].must /\ share[to] = NoGrant
    BY <1>0, <1>1, AnswerStep DEF SetShare
  <1>2. CASE ~(change[c].must /\ share[to] = NoGrant)
    <2>1. change' = [change EXCEPT ![c] = [change[c] EXCEPT !.pc = "set", !.clean = TRUE, !.next = new]]
      BY <1>2 DEF SetShare, Goto
    <2>2. new \in [Grantees -> Rights]
      BY <1>0 DEF ShareInv, ShareShapes, ChangeType
    <2>3. /\ change' \in [Changes -> ChangeType]
          /\ change'[c].pc = "set" /\ change'[c].to = to /\ change'[c].must = change[c].must
          /\ change'[c].rights = change[c].rights /\ change'[c].next = new
      BY <1>0, <2>1, <2>2 DEF ShareInv, ShareShapes, ChangeType
    <2>4. \A d \in Changes : d # c => change'[d] = change[d]
      BY <2>1 DEF ShareInv, ShareShapes
    <2>5. ShareShapes'
      BY <1>0, <2>2, <2>3, <2>4 DEF ShareInv, ShareShapes, Asking
    <2>6. \A p \in Grantees : Earns(p, new[p])
      <3>1. /\ \A p \in Grantees : new[p] = IF p = to THEN change[c].rights ELSE share[p]
            /\ \A p \in Grantees : Earns(p, share[p])
            /\ Earns(to, change[c].rights)
        BY <1>0 DEF ShareInv, ShareShapes, Earned, Asking
      <3> QED  BY <3>1
    <2>7. Earned'
      <3>1. \A d \in Changes : d # c => Asking(d)' = Asking(d)
        BY <2>4 DEF Asking
      <3>2. Earns(to, change[c].rights)
        BY <1>0 DEF ShareInv, Earned, Asking
      <3>3. \A q, rights : Earns(q, rights)' = Earns(q, rights)
        BY <1>0 DEF Earns
      <3> HIDE DEF new
      <3> QED  BY <1>0, <2>3, <2>4, <2>6, <3>1, <3>2, <3>3 DEF ShareInv, Earned
    <2>8. \A p \in Grantees : (new[p] # NoGrant /\ share[p] = NoGrant) => to = p /\ ~change[c].must
      BY <1>0, <1>2 DEF ShareInv, ShareShapes
    <2>9. Accounted'
      <3> SUFFICES ASSUME NEW d \in Changes, change'[d].pc = "set", NEW p \in Grantees,
                          change'[d].next[p] # NoGrant, share[p] = NoGrant
                   PROVE  (change'[d].to = p /\ ~change'[d].must) \/ p \in change'[d].gone
        BY <1>0 DEF Accounted
      <3>1. CASE d = c
        BY <3>1, <2>3, <2>8
      <3>2. CASE d # c
        BY <3>2, <2>4 DEF ShareInv, Accounted
      <3> QED  BY <3>1, <3>2
    <2>10. UpToDate'
      <3> SUFFICES ASSUME NEW d \in Changes, change'[d].pc = "set", change'[d].clean
                   PROVE  change'[d].next = [share EXCEPT ![change'[d].to] = change'[d].rights]
        BY <1>0 DEF UpToDate
      <3>1. CASE d = c
        BY <3>1, <2>3
      <3>2. CASE d # c
        BY <3>2, <2>4 DEF ShareInv, UpToDate
      <3> QED  BY <3>1, <3>2
    <2> QED  BY <2>5, <2>7, <2>9, <2>10 DEF ShareInv
  <1> QED  BY <1>1, <1>2

\* The stored map is replaced by new, and everybody under way remembers what
\* that took away: what they hold is accounted for, and no longer current.
Remembers(old, new, lost) ==
  /\ new.pc = "set" =>
       /\ old.pc = "set"
       /\ new.to = old.to /\ new.rights = old.rights
       /\ new.must = old.must /\ new.next = old.next
       /\ new.clean = FALSE /\ new.gone = old.gone \cup lost
  /\ new.pc = "get" => new = old

\* A new map keeps the invariant if its rights were given and the others remember.
LEMMA ReplaceStep ==
  ASSUME ShareInv, NEW new \in [Grantees -> Rights], share' = new, given' = given,
         \A p \in Grantees : Earns(p, new[p]),
         change' \in [Changes -> ChangeType],
         \A d \in Changes :
           Remembers(change[d], change'[d], {p \in Grantees : share[p] # NoGrant /\ new[p] = NoGrant})
  PROVE  ShareInv'
  <1>0. \A d \in Changes :
          /\ change'[d].pc = "set" =>
               /\ change[d].pc = "set"
               /\ change'[d].to = change[d].to /\ change'[d].rights = change[d].rights
               /\ change'[d].must = change[d].must /\ change'[d].next = change[d].next
               /\ change'[d].clean = FALSE
               /\ change'[d].gone = change[d].gone
                    \cup {p \in Grantees : share[p] # NoGrant /\ new[p] = NoGrant}
          /\ change'[d].pc = "get" => change'[d] = change[d]
    BY DEF Remembers
  <1>1. ShareShapes'
    BY <1>0 DEF ShareInv, ShareShapes, Asking
  <1>2. Earned'
    BY <1>0 DEF ShareInv, Earned, Earns, Asking
  <1>3. Accounted'
    <2> SUFFICES ASSUME NEW d \in Changes, change'[d].pc = "set", NEW p \in Grantees,
                        change'[d].next[p] # NoGrant, new[p] = NoGrant
                 PROVE  (change'[d].to = p /\ ~change'[d].must) \/ p \in change'[d].gone
      BY DEF Accounted
    <2>1. CASE share[p] # NoGrant
      BY <1>0, <2>1
    <2>2. CASE share[p] = NoGrant
      BY <1>0, <2>2 DEF ShareInv, Accounted
    <2> QED  BY <2>1, <2>2
  <1>4. UpToDate'
    BY <1>0 DEF UpToDate
  <1> QED  BY <1>1, <1>2, <1>3, <1>4 DEF ShareInv

\* A request that holds a map, once the grants of lost were taken away.
Outdated(ch, lost) == [ch EXCEPT !.clean = FALSE, !.gone = @ \cup lost]

\* What a write changes in the other requests under way.
LEMMA OutdatedFields ==
  ASSUME NEW ch \in ChangeType, NEW lost \in SUBSET Grantees
  PROVE  /\ Outdated(ch, lost) \in ChangeType
         /\ Outdated(ch, lost).pc = ch.pc
         /\ ch.pc = "set" => Remembers(ch, Outdated(ch, lost), lost)
         /\ ch.pc # "set" => Remembers(ch, ch, lost)
  <1>1. ch.gone \cup lost \in SUBSET Grantees
    BY DEF ChangeType
  <1>2. /\ Outdated(ch, lost) \in ChangeType
        /\ Outdated(ch, lost).pc = ch.pc
        /\ Outdated(ch, lost).to = ch.to /\ Outdated(ch, lost).rights = ch.rights
        /\ Outdated(ch, lost).must = ch.must /\ Outdated(ch, lost).next = ch.next
        /\ Outdated(ch, lost).clean = FALSE
        /\ Outdated(ch, lost).gone = ch.gone \cup lost
    BY <1>1 DEF Outdated, ChangeType
  <1> QED  BY <1>2 DEF Remembers

\* CalendarSet keeps the invariant.
LEMMA WriteMapStep ==
  ASSUME ShareInv, NEW c \in Changes, CalendarSet(c)
  PROVE  ShareInv'
  <1> DEFINE new == change[c].next
             lost == {p \in Grantees : share[p] # NoGrant /\ new[p] = NoGrant}
             Then(d) == IF change[d].pc = "set" THEN Outdated(change[d], lost) ELSE change[d]
  <1>1. /\ change[c].pc = "set" /\ share' = new /\ given' = given
        /\ new \in [Grantees -> Rights]
        /\ \A p \in Grantees : Earns(p, new[p])
    BY DEF CalendarSet, ShareInv, ShareShapes, Earned
  <1>2. PICK at \in {"ok", "error"} : change' = [Overtaken(c, new) EXCEPT ![c] = Answer(at)]
    BY <1>1 DEF CalendarSet
  <1>3. /\ change' = [d \in Changes |-> IF d = c THEN Answer(at) ELSE Then(d)]
        /\ lost \in SUBSET Grantees
    BY <1>2 DEF Overtaken, Outdated
  <1>4. Answer(at) \in ChangeType /\ Answer(at).pc = at
    BY DEF Answer, NoChange, ChangeType, Rights
  <1>5. \A d \in Changes : change[d] \in ChangeType
    BY DEF ShareInv, ShareShapes
  <1>6. lost = {p \in Grantees : share[p] # NoGrant /\ new[p] = NoGrant}
    OBVIOUS
  <1> HIDE DEF new, lost
  <1>7. change' \in [Changes -> ChangeType]
    BY <1>3, <1>4, <1>5, OutdatedFields
  <1>8. ASSUME NEW d \in Changes PROVE Remembers(change[d], change'[d], lost)
    <2>1. CASE d = c
      <3>1. change'[d].pc \in {"ok", "error"}
        BY <1>3, <1>4, <2>1
      <3> QED  BY <3>1 DEF Remembers
    <2>2. CASE d # c
      <3>1. change'[d] = Then(d)
        BY <1>3, <2>2
      <3> QED  BY <1>3, <1>5, <3>1, OutdatedFields
    <2> QED  BY <2>1, <2>2
  <1> QED  BY <1>1, <1>6, <1>7, <1>8, ReplaceStep

\* A share taken away by the owner's other client keeps the invariant.
LEMMA RevokeStep ==
  ASSUME ShareInv, OwnerRevokes
  PROVE  ShareInv'
  <1>1. PICK p \in Grantees :
          /\ share[p] # NoGrant
          /\ share' = [share EXCEPT ![p] = NoGrant]
          /\ change' = [d \in Changes |->
               IF change[d].pc = "set" THEN Outdated(change[d], {p}) ELSE change[d]]
          /\ given' = given
    BY DEF OwnerRevokes, Outdated
  <1> DEFINE new == [share EXCEPT ![p] = NoGrant]
  <1>2. new \in [Grantees -> Rights] /\ \A q \in Grantees : Earns(q, new[q])
    BY <1>1 DEF ShareInv, ShareShapes, Rights, Earned, Earns
  <1>3. {q \in Grantees : share[q] # NoGrant /\ new[q] = NoGrant} = {p}
    BY <1>1 DEF ShareInv, ShareShapes
  <1>4. /\ \A d \in Changes : change[d] \in ChangeType
        /\ {p} \in SUBSET Grantees
        /\ share' = new
    BY <1>1 DEF ShareInv, ShareShapes
  <1> HIDE DEF new
  <1>5. change' \in [Changes -> ChangeType]
    BY <1>1, <1>4, OutdatedFields
  <1>6. ASSUME NEW d \in Changes PROVE Remembers(change[d], change'[d], {p})
    <2>1. change'[d] = IF change[d].pc = "set" THEN Outdated(change[d], {p}) ELSE change[d]
      BY <1>1
    <2> QED  BY <1>4, <2>1, OutdatedFields
  <1>7. \A d \in Changes :
          Remembers(change[d], change'[d], {q \in Grantees : share[q] # NoGrant /\ new[q] = NoGrant})
    BY <1>3, <1>6
  <1>8. given' = given
    BY <1>1
  <1> QED  BY <1>2, <1>4, <1>5, <1>7, <1>8, ReplaceStep

\* Each step on the map of grants keeps the invariant.
LEMMA ShareNextInv == ShareInv /\ [ShareNext]_shareVars => ShareInv'
  <1> SUFFICES ASSUME ShareInv, [ShareNext]_shareVars PROVE ShareInv'
    OBVIOUS
  <1>1. ASSUME NEW c \in Changes, CreateCalendarPermission(c) PROVE ShareInv'
    BY <1>1, CreateStep
  <1>2. ASSUME NEW c \in Changes, UpdateCalendarPermission(c) PROVE ShareInv'
    BY <1>2, UpdateStep
  <1>3. ASSUME NEW c \in Changes, DeleteCalendarPermission(c) PROVE ShareInv'
    BY <1>3, DeleteStep
  <1>4. ASSUME NEW c \in Changes, SetShare(c) PROVE ShareInv'
    BY <1>4, ReadStep
  <1>5. ASSUME NEW c \in Changes, CalendarSet(c) PROVE ShareInv'
    BY <1>5, WriteMapStep
  <1>6. ASSUME NEW c \in Changes, CallFails(c) PROVE ShareInv'
    BY <1>6, AnswerStep DEF CallFails
  <1>7. CASE OwnerRevokes
    BY <1>7, RevokeStep
  <1>8. CASE UNCHANGED shareVars
    BY <1>8 DEF shareVars, ShareInv, ShareShapes, Earned, Earns, Accounted, UpToDate, Asking
  <1> QED  BY <1>1, <1>2, <1>3, <1>4, <1>5, <1>6, <1>7, <1>8 DEF ShareNext

\* Only the write of the map, or its failure, turns a request that held one into
\* an answered one.
LEMMA OnlyWriteAnswers ==
  ASSUME ShareInv, ShareNext, NEW c \in Changes, change[c].pc = "set", change'[c].pc \in {"ok", "error"}
  PROVE  CalendarSet(c) \/ (change'[c].pc = "error" /\ share' = share)
  <1>1. ASSUME NEW d \in Changes, CreateCalendarPermission(d) PROVE FALSE
    BY <1>1 DEF CreateCalendarPermission, Ask, Goto, Answer, NoChange, ShareInv, ShareShapes
  <1>2. ASSUME NEW d \in Changes, UpdateCalendarPermission(d) PROVE FALSE
    BY <1>2 DEF UpdateCalendarPermission, Ask, Goto, Answer, NoChange, ShareInv, ShareShapes
  <1>3. ASSUME NEW d \in Changes, DeleteCalendarPermission(d) PROVE FALSE
    BY <1>3 DEF DeleteCalendarPermission, Ask, Goto, NoChange, ShareInv, ShareShapes
  <1>4. ASSUME NEW d \in Changes, SetShare(d) PROVE FALSE
    BY <1>4 DEF SetShare, Goto, Answer, NoChange, ShareInv, ShareShapes, ChangeType
  <1>5. ASSUME NEW d \in Changes, CallFails(d) PROVE change'[c].pc = "error" /\ share' = share
    BY <1>5 DEF CallFails, Goto, Answer, NoChange, ShareInv, ShareShapes
  <1>6. ASSUME OwnerRevokes PROVE FALSE
    <2>1. PICK p : change' = [d \in Changes |->
               IF change[d].pc = "set"
               THEN [change[d] EXCEPT !.clean = FALSE, !.gone = @ \cup {p}] ELSE change[d]]
      BY <1>6 DEF OwnerRevokes
    <2>2. change'[c] = [change[c] EXCEPT !.clean = FALSE, !.gone = change[c].gone \cup {p}]
      BY <2>1
    <2>3. change'[c].pc = change[c].pc
      BY <2>2 DEF ShareInv, ShareShapes, ChangeType
    <2> QED  BY <2>3
  <1>7. ASSUME NEW d \in Changes, d # c, CalendarSet(d) PROVE FALSE
    <2>1. change'[c] = Overtaken(d, share')[c]
      BY <1>7 DEF CalendarSet, Overtaken, ShareInv, ShareShapes
    <2>2. change'[c].pc = change[c].pc
      BY <2>1 DEF Overtaken, ShareInv, ShareShapes, ChangeType
    <2> QED  BY <2>2
  <1> QED  BY <1>1, <1>2, <1>3, <1>4, <1>5, <1>6, <1>7 DEF ShareNext

\* The invariant of the map of grants holds throughout.
LEMMA ShareInvariant == ShareSpec => []ShareInv
  BY ShareInitInv, ShareNextInv, PTL DEF ShareSpec

-----------------------------------------------------------------------------

\* Nobody holds a right to write, delete or share that was not given, by a role
\* that means it or by another client, for any number of requests that overtake
\* each other and any role a body may name (roleToRights, setShare).
THEOREM Asked == ShareSpec => []WriteAsked
  <1>1. ShareInv => WriteAsked
    BY DEF ShareInv, Earned, Earns, WriteAsked
  <1> QED  BY <1>1, ShareInvariant, PTL

\* No PATCH, and no request that read the map after a revocation, brings a
\* revoked grant back (setShare with requireExisting).
THEOREM StaysRevoked == ShareSpec => NoComeback
  <1> DEFINE Back == \A p \in Grantees :
       (share[p] = NoGrant /\ share'[p] # NoGrant) =>
         \E c \in Changes :
           /\ change[c].pc = "set" /\ change'[c].pc \in {"ok", "error"}
           /\ \/ change[c].to = p /\ ~change[c].must
              \/ p \in change[c].gone
  <1>1. ShareInv /\ [ShareNext]_shareVars => [Back]_shareVars
    <2> SUFFICES ASSUME ShareInv, ShareNext, NEW p \in Grantees,
                        share[p] = NoGrant, share'[p] # NoGrant
                 PROVE  \E c \in Changes :
                          /\ change[c].pc = "set" /\ change'[c].pc \in {"ok", "error"}
                          /\ \/ change[c].to = p /\ ~change[c].must
                             \/ p \in change[c].gone
      OBVIOUS
    <2>1. ~OwnerRevokes
      BY DEF OwnerRevokes, ShareInv, ShareShapes
    <2>2. PICK c \in Changes : CalendarSet(c)
      BY <2>1 DEF ShareNext, CreateCalendarPermission, UpdateCalendarPermission,
                  DeleteCalendarPermission, SetShare, CallFails
    <2>3. change[c].pc = "set" /\ change[c].next[p] # NoGrant
      BY <2>2 DEF CalendarSet
    <2>4. change'[c].pc \in {"ok", "error"}
      BY <2>2 DEF CalendarSet, Overtaken, Answer, NoChange
    <2> QED  BY <2>3, <2>4 DEF ShareInv, Accounted
  <1> QED  BY <1>1, ShareInvariant, PTL DEF ShareSpec, NoComeback

\* A request nobody overtook changes the grant it names and no other, although
\* it writes the whole map back (setShare).
THEOREM ChangesOne == ShareSpec => OneGrant
  <1> DEFINE Asks(c) == [share EXCEPT ![change[c].to] = change[c].rights]
             One == \A c \in Changes :
               (change[c].pc = "set" /\ change'[c].pc \in {"ok", "error"} /\ change[c].clean) =>
                 share' = Asks(c) \/ (change'[c].pc = "error" /\ share' = share)
  <1>1. ShareInv /\ [ShareNext]_shareVars => [One]_shareVars
    <2> SUFFICES ASSUME ShareInv, ShareNext, NEW c \in Changes,
                        change[c].pc = "set", change'[c].pc \in {"ok", "error"}, change[c].clean
                 PROVE  share' = Asks(c) \/ (change'[c].pc = "error" /\ share' = share)
      OBVIOUS
    <2>1. CalendarSet(c) => share' = Asks(c)
      BY DEF CalendarSet, ShareInv, UpToDate
    <2> QED  BY <2>1, OnlyWriteAnswers
  <1> QED  BY <1>1, ShareInvariant, PTL DEF ShareSpec, OneGrant

-----------------------------------------------------------------------------
(***************************************************************************)
(* Delta queries: a deltaLink stands for what its client has, for any      *)
(* number of items and changes and for each of the six backends.           *)
(***************************************************************************)

Calls ==
  [pc : {"idle", "query", "fetch", "answer"}, full : BOOLEAN, next : Nat,
   todo : SUBSET Items, changed : [Items -> Nat], removed : SUBSET Items]

\* Types, and what the counter of changes is to the items and tokens: nothing is
\* newer than now, and an item has a version from its creation on.
Counted ==
  /\ now \in Nat
  /\ box \in [Items -> {"none", "here", "both", "away", "gone"}]
  /\ last \in [Items -> 0 .. now]
  /\ since \in Nat
  /\ link \in 0 .. now
  /\ mirror \in [Items -> Nat]
  /\ call \in Calls
  /\ call.next <= now
  /\ unsaid \subseteq Items
  /\ \A i \in Items : box[i] = "none" <=> last[i] = 0
  /\ \A i \in Items : box[i] = "none" => mirror[i] = 0

\* An incremental IMAP fetch decides only at the FETCH what it reports.
Undecided == backend = "imap" /\ ~ call.full

\* The items a request will report if it ends well: all of them in a full answer,
\* else those touched after the client's token.
Due(i) == call.full \/ last[i] > link

\* What the request under way holds about an item that has not changed since the
\* request's next token: it is fetched or still to be fetched when it is due, it
\* is a tombstone when it is gone, and it is left alone otherwise.
Holds(i) ==
  /\ Shown(i) =>
       /\ i \notin call.removed
       /\ Due(i) => call.changed[i] = last[i] \/ (call.pc = "fetch" /\ i \in call.todo)
       /\ ~ Due(i) => call.changed[i] = 0 /\ i \notin call.todo
  /\ box[i] \in {"none", "gone"} =>
       /\ call.changed[i] = 0
       /\ ~ call.full /\ Due(i) => i \in call.removed
  /\ box[i] = "none" => i \notin call.todo

\* The request at each of its points.
Underway ==
  /\ call.pc = "query" => backend = "jmap mail" /\ call.full
  /\ call.pc = "query" => call.changed = Nothing /\ call.removed = {}
  /\ call.pc = "fetch" /\ Undecided => call.changed = Nothing
  /\ call.pc = "answer" \/ (call.pc = "fetch" /\ ~ Undecided) =>
       \A i \in Items : last[i] <= call.next => Holds(i)

\* Mirrored, item by item.
Agreed(i) ==
  link # 0 /\ last[i] <= link =>
    /\ Shown(i) => mirror[i] = last[i]
    /\ box[i] \in {"none", "gone"} => mirror[i] = 0 \/ i \in unsaid

MirrorInv == \A i \in Items : Agreed(i)

DeltaInv == Counted /\ Underway /\ MirrorInv

\* Membership in the sets the model is built from.
LEMMA FolderSets ==
  ASSUME NEW i \in Items
  PROVE  /\ \A t : i \in After(t) <=> last[i] > t
         /\ i \in Here <=> box[i] \in {"here", "both"}
         /\ Shown(i) => i \in Here
         /\ backend # "jmap calendar" => (i \in Here <=> Shown(i))
         /\ i \in Gone <=> box[i] = "gone"
BY DEF After, Here, Gone, Shown

\* In the initial state nothing is known and nothing asked.
LEMMA DeltaInitInv == DeltaInit => DeltaInv
<1>. SUFFICES ASSUME DeltaInit PROVE DeltaInv
  OBVIOUS
<1>1. Nothing \in [Items -> Nat] /\ NoCall \in Calls
  BY DEF Nothing, NoCall, Calls
<1>2. Counted
  BY <1>1 DEF DeltaInit, Counted, NoCall, Nothing
<1>3. Underway /\ MirrorInv
  BY DEF DeltaInit, Underway, MirrorInv, Agreed, Shown, NoCall
<1>. QED  BY <1>2, <1>3 DEF DeltaInv

\* What the arguments of a first call must be for the request to hold its items.
BegunRight(full, tok, todo, removed, at) ==
  \A i \in Items : last[i] <= tok =>
    /\ Shown(i) =>
         /\ i \notin removed
         /\ full \/ last[i] > link => at = "fetch" /\ i \in todo
         /\ ~ (full \/ last[i] > link) => i \notin todo
    /\ box[i] \in {"none", "gone"} => (~ full /\ last[i] > link => i \in removed)
    /\ box[i] = "none" => i \notin todo

\* A first call leaves everything but the request alone, so a request that is
\* well formed and holds what it should keeps the invariant.
LEMMA FirstCallStep ==
  ASSUME DeltaInv, NEW full \in BOOLEAN, NEW tok \in Nat, NEW todo \in SUBSET Items,
         NEW removed \in SUBSET Items, NEW at \in {"query", "fetch", "answer"},
         tok <= now, Begin(full, tok, todo, removed, at),
         at = "query" => backend = "jmap mail" /\ full /\ removed = {},
         at = "answer" \/ (at = "fetch" /\ ~ (backend = "imap" /\ ~ full)) =>
           BegunRight(full, tok, todo, removed, at)
  PROVE  DeltaInv'
<1>0. Counted /\ MirrorInv
  BY DEF DeltaInv
<1>1. /\ call' = [pc |-> at, full |-> full, next |-> tok, todo |-> todo,
                  changed |-> Nothing, removed |-> removed]
      /\ UNCHANGED <<backend, box, last, now, since, mirror, link, unsaid>>
  BY DEF Begin
<1>2. Nothing \in [Items -> Nat] /\ Nothing' = Nothing /\ \A i \in Items : Nothing[i] = 0
  BY DEF Nothing
<1>3. call' \in Calls /\ call'.next = tok
  BY <1>1, <1>2 DEF Calls
<1>4. Counted'
  BY <1>0, <1>1, <1>3 DEF Counted
<1>5. Underway'
  <2>1. /\ call'.pc = at /\ call'.full = full /\ call'.next = tok /\ call'.todo = todo
        /\ call'.changed = Nothing /\ call'.removed = removed
    BY <1>1
  <2>2. ASSUME NEW i \in Items, last'[i] <= call'.next,
               at = "answer" \/ (at = "fetch" /\ ~ (backend = "imap" /\ ~ full))
        PROVE  Holds(i)'
    <3>1. last[i] <= tok /\ Nothing[i] = 0
      BY <1>1, <1>2, <2>1, <2>2
    <3>2. Due(i)' <=> full \/ last[i] > link
      BY <1>1, <2>1 DEF Due
    <3>3. /\ Shown(i) =>
               /\ i \notin removed
               /\ full \/ last[i] > link => at = "fetch" /\ i \in todo
               /\ ~ (full \/ last[i] > link) => i \notin todo
          /\ box[i] \in {"none", "gone"} => (~ full /\ last[i] > link => i \in removed)
          /\ box[i] = "none" => i \notin todo
      BY <2>2, <3>1 DEF BegunRight
    <3>. QED  BY <1>1, <2>1, <3>1, <3>2, <3>3, Zenon DEF Holds, Shown
  <2>3. Undecided' <=> backend = "imap" /\ ~ full
    BY <1>1, <2>1 DEF Undecided
  <2>. QED  BY <1>1, <1>2, <2>1, <2>2, <2>3, Zenon DEF Underway
<1>6. MirrorInv'
  BY <1>1 DEF DeltaInv, MirrorInv, Agreed, Shown
<1>. QED  BY <1>4, <1>5, <1>6 DEF DeltaInv

\* A later call leaves everything but the request's items alone: what it finds
\* and what it leaves to the next one must cover what was still to be fetched.
LEMMA FetchStep ==
  ASSUME DeltaInv, NEW found \in SUBSET Items, NEW removed \in SUBSET Items,
         NEW left \in SUBSET Items, Fetch(found, removed, left),
         left # {} => backend # "imap",
         \A i \in Items : last[i] <= call.next =>
           /\ Shown(i) =>
                /\ i \notin removed
                /\ Due(i) => i \in found \/ i \in left \/ call.changed[i] = last[i]
                /\ ~ Due(i) => i \notin found /\ i \notin left /\ call.changed[i] = 0
           /\ box[i] \in {"none", "gone"} =>
                /\ i \notin found /\ call.changed[i] = 0
                /\ ~ call.full /\ Due(i) => i \in removed
           /\ box[i] = "none" => i \notin left
  PROVE  DeltaInv'
<1>0. Counted /\ MirrorInv
  BY DEF DeltaInv
<1>1. /\ call' = [call EXCEPT !.pc = Fetching(left), !.todo = left,
                             !.changed = Fetched(found), !.removed = removed]
      /\ UNCHANGED <<backend, box, last, now, since, mirror, link, unsaid>>
  BY DEF Fetch
<1>2. Fetching(left) \in {"fetch", "answer"} /\ (Fetching(left) = "answer" <=> left = {})
  BY DEF Fetching
<1>3. /\ Fetched(found) \in [Items -> Nat]
      /\ \A i \in Items : Fetched(found)[i] = IF i \in found THEN last[i] ELSE call.changed[i]
  BY <1>0 DEF Fetched, Counted, Calls
<1>4. call' \in Calls
  BY <1>0, <1>1, <1>2, <1>3 DEF Counted, Calls
<1>5. /\ call'.pc = Fetching(left) /\ call'.full = call.full /\ call'.next = call.next
      /\ call'.todo = left /\ call'.changed = Fetched(found) /\ call'.removed = removed
  BY <1>0, <1>1 DEF Counted, Calls
<1>6. Counted'
  BY <1>0, <1>1, <1>4, <1>5 DEF Counted
<1>7. ASSUME NEW i \in Items, last'[i] <= call'.next
      PROVE  Holds(i)'
  <2>1. last[i] <= call.next
    BY <1>1, <1>5, <1>7
  <2>2. Due(i)' <=> Due(i)
    BY <1>1, <1>5 DEF Due
  <2>3. Fetched(found)[i] = IF i \in found THEN last[i] ELSE call.changed[i]
    BY <1>3
  <2>. QED  BY <1>1, <1>2, <1>5, <2>1, <2>2, <2>3 DEF Holds, Shown
<1>8. call'.pc = "fetch" => ~ Undecided'
  BY <1>1, <1>2, <1>5 DEF Undecided
<1>9. Underway'
  BY <1>2, <1>5, <1>7, <1>8 DEF Underway
<1>10. MirrorInv'
  BY <1>0, <1>1 DEF MirrorInv, Agreed, Shown
<1>. QED  BY <1>6, <1>9, <1>10 DEF DeltaInv

\* The first call of each backend.
LEMMA FirstCalls ==
  ASSUME DeltaInv, Select \/ JmapChanges \/ EmailState \/ SyncCollection
  PROVE  DeltaInv'
<1>0. Counted
  BY DEF DeltaInv
<1>1. /\ now \in Nat /\ link \in Nat /\ link <= now /\ since \in Nat
      /\ \A i \in Items : last[i] \in Nat /\ last[i] <= now
      /\ \A i \in Items : box[i] = "none" <=> last[i] = 0
  BY <1>0 DEF Counted
<1>2. Here \in SUBSET Items /\ Gone \in SUBSET Items
  BY DEF Here, Gone
<1>3. Initial \in BOOLEAN
  BY <1>1 DEF Initial
<1>4. now \in Nat /\ now <= now
  BY <1>1
<1>5. CASE Select
  <2>. DEFINE todo == IF Initial THEN Here ELSE Items
  <2>1. backend = "imap" /\ Begin(Initial, now, todo, {}, "fetch")
    BY <1>5 DEF Select
  <2>2. todo \in SUBSET Items /\ {} \in SUBSET Items
    BY <1>2
  <2>3. Initial => BegunRight(Initial, now, todo, {}, "fetch")
    BY <1>1, <2>1, FolderSets DEF BegunRight
  <2>. HIDE DEF todo
  <2>. QED  BY <1>1, <1>3, <2>1, <2>2, <2>3, FirstCallStep
<1>6. CASE JmapChanges
  <2>1. PICK up \in link .. now, again \in SUBSET After(link) :
          /\ backend \in Jmap
          /\ again \subseteq After(up)
          /\ Begin(FALSE, up, ((After(link) \ After(up)) \ Gone) \cup again,
                   (After(link) \ After(up)) \cap Gone,
                   Fetching(((After(link) \ After(up)) \ Gone) \cup again))
    BY <1>6, Zenon DEF JmapChanges
  <2>. DEFINE page == After(link) \ After(up)
              todo == (page \ Gone) \cup again
              at   == Fetching(todo)
  <2>2. up \in Nat /\ up <= now
    BY <1>1
  <2>3. todo \in SUBSET Items /\ page \cap Gone \in SUBSET Items
    BY DEF After
  <2>4. at \in {"query", "fetch", "answer"} /\ at # "query" /\ (todo # {} => at = "fetch")
    BY DEF Fetching
  <2>5. BegunRight(FALSE, up, todo, page \cap Gone, at)
    <3>1. SUFFICES ASSUME NEW i \in Items, last[i] <= up
                   PROVE  /\ Shown(i) =>
                               /\ i \notin page \cap Gone
                               /\ last[i] > link => at = "fetch" /\ i \in todo
                               /\ ~ (last[i] > link) => i \notin todo
                          /\ box[i] \in {"none", "gone"} =>
                               (last[i] > link => i \in page \cap Gone)
                          /\ box[i] = "none" => i \notin todo
      BY DEF BegunRight
    <3>2. i \in page <=> last[i] > link
      BY <1>1, <2>2, <3>1 DEF After
    <3>3. i \in again => last[i] > link
      <4>1. again \subseteq After(link)
        OBVIOUS
      <4>. QED  BY <4>1, Zenon DEF After
    <3>4. (i \in Gone <=> box[i] = "gone") /\ (box[i] = "none" => ~ (last[i] > link))
      BY <1>1 DEF Gone
    <3>. QED  BY <2>4, <3>2, <3>3, <3>4 DEF Shown
  <2>. DEFINE full == FALSE
  <2>6. full \in BOOLEAN /\ Begin(full, up, todo, page \cap Gone, at)
    BY <2>1
  <2>7. BegunRight(full, up, todo, page \cap Gone, at)
    BY <2>5
  <2>. HIDE DEF page, todo, at, full
  <2>. QED  BY <2>2, <2>3, <2>4, <2>6, <2>7, FirstCallStep
<1>7. CASE EmailState
  <2>1. backend = "jmap mail" /\ Begin(TRUE, now, {}, {}, "query")
    BY <1>7 DEF EmailState
  <2>. DEFINE full  == TRUE
              empty == {}
  <2>2. full \in BOOLEAN /\ full /\ empty = {} /\ empty \in SUBSET Items
    OBVIOUS
  <2>3. Begin(full, now, empty, empty, "query")
    BY <2>1
  <2>. HIDE DEF full, empty
  <2>. QED  BY <1>4, <2>1, <2>2, <2>3, FirstCallStep
<1>8. CASE SyncCollection
  <2>. DEFINE todo    == Here \cap After(link)
              removed == IF link = 0 THEN {} ELSE Gone \cap After(link)
              at      == Fetching(todo)
  <2>1. Begin(link = 0, now, todo, removed, at) /\ backend # "jmap calendar"
    BY <1>8 DEF SyncCollection, Dav
  <2>2. todo \in SUBSET Items /\ removed \in SUBSET Items
    BY <1>2
  <2>3. at \in {"query", "fetch", "answer"} /\ at # "query" /\ (todo # {} => at = "fetch")
    BY DEF Fetching
  <2>4. BegunRight(link = 0, now, todo, removed, at)
    <3>1. SUFFICES ASSUME NEW i \in Items
                   PROVE  /\ Shown(i) =>
                               /\ i \notin removed
                               /\ link = 0 \/ last[i] > link => at = "fetch" /\ i \in todo
                               /\ ~ (link = 0 \/ last[i] > link) => i \notin todo
                          /\ box[i] \in {"none", "gone"} =>
                               (~ (link = 0) /\ last[i] > link => i \in removed)
                          /\ box[i] = "none" => i \notin todo
      BY DEF BegunRight
    <3>2. i \in todo <=> Shown(i) /\ last[i] > link
      BY <2>1, FolderSets
    <3>3. i \in removed <=> link # 0 /\ box[i] = "gone" /\ last[i] > link
      BY FolderSets
    <3>4. Shown(i) => box[i] \notin {"none", "gone"}
      BY DEF Shown
    <3>5. /\ Shown(i) /\ link = 0 => last[i] > link
          /\ box[i] = "none" => ~ (last[i] > link)
      BY <1>1, <3>4
    <3>. QED  BY <2>3, <3>2, <3>3, <3>4, <3>5
  <2>. DEFINE full == link = 0
  <2>5. full \in BOOLEAN /\ Begin(full, now, todo, removed, at)
    BY <2>1
  <2>6. BegunRight(full, now, todo, removed, at)
    BY <2>4
  <2>. HIDE DEF todo, removed, at, full
  <2>. QED  BY <1>4, <2>2, <2>3, <2>5, <2>6, FirstCallStep
<1>. QED  BY <1>5, <1>6, <1>7, <1>8

\* The initial query of JMAP mail: all messages of the folder are to be fetched.
LEMMA QueryStep ==
  ASSUME DeltaInv, QueryEmailIDs
  PROVE  DeltaInv'
<1>0. Counted /\ MirrorInv /\ Underway
  BY DEF DeltaInv
<1>1. /\ call' = [call EXCEPT !.pc = Fetching(Here), !.todo = Here]
      /\ UNCHANGED <<backend, box, last, now, since, mirror, link, unsaid>>
  BY DEF QueryEmailIDs
<1>2. /\ backend = "jmap mail" /\ call.full /\ call.removed = {}
      /\ \A i \in Items : call.changed[i] = 0
  BY <1>0 DEF QueryEmailIDs, Underway, Nothing
<1>3. Fetching(Here) \in {"fetch", "answer"} /\ (Here # {} => Fetching(Here) = "fetch")
  BY DEF Fetching
<1>4. call' \in Calls
  BY <1>0, <1>1, <1>3 DEF Counted, Calls, Here
<1>5. /\ call'.pc = Fetching(Here) /\ call'.full = call.full /\ call'.next = call.next
      /\ call'.todo = Here /\ call'.changed = call.changed /\ call'.removed = call.removed
  BY <1>0, <1>1 DEF Counted, Calls
<1>6. Counted'
  BY <1>0, <1>1, <1>4, <1>5 DEF Counted
<1>7. ASSUME NEW i \in Items
      PROVE  Holds(i)'
  <2>1. (i \in Here <=> Shown(i)) /\ (i \in Here => Fetching(Here) = "fetch")
    BY <1>2, <1>3, FolderSets
  <2>. QED  BY <1>1, <1>2, <1>5, <2>1 DEF Holds, Due, Shown
<1>8. Underway'
  <2>1. ~ Undecided' /\ call'.pc # "query"
    BY <1>1, <1>2, <1>3, <1>5 DEF Undecided
  <2>. QED  BY <1>1, <1>2, <1>5, <1>7, <2>1 DEF Underway
<1>9. MirrorInv'
  BY <1>0, <1>1 DEF MirrorInv, Agreed, Shown
<1>. QED  BY <1>6, <1>8, <1>9 DEF DeltaInv

\* The fetches of each backend.
LEMMA Fetches ==
  ASSUME DeltaInv, FetchDelta \/ GetEmails \/ MultiGetCalendar \/ GetAddressObject
  PROVE  DeltaInv'
<1>0. Counted /\ Underway
  BY DEF DeltaInv
<1>1. /\ link \in Nat /\ call.next \in Nat /\ call.todo \in SUBSET Items
      /\ call.removed \in SUBSET Items /\ call.full \in BOOLEAN
      /\ \A i \in Items : last[i] \in Nat
      /\ \A i \in Items : box[i] = "none" <=> last[i] = 0
  BY <1>0 DEF Counted, Calls
<1>2. Here \in SUBSET Items /\ Gone \in SUBSET Items
  BY DEF Here, Gone
<1>3. call.pc = "fetch"
  BY DEF FetchDelta, GetEmails, MultiGetCalendar, GetAddressObject, Fetch
<1>4. ~ Undecided => \A i \in Items : last[i] <= call.next => Holds(i)
  BY <1>0, <1>3 DEF Underway
<1>5. CASE FetchDelta /\ ~ call.full
  <2>. DEFINE found   == Here \cap After(link)
              removed == Gone \cap After(link)
              left    == {}
  <2>1. Fetch(found, removed, left)
    BY <1>5 DEF FetchDelta
  <2>2. found \in SUBSET Items /\ removed \in SUBSET Items /\ left \in SUBSET Items /\ left = {}
    BY <1>2
  <2>3. \A i \in Items : call.changed[i] = 0
    BY <1>0, <1>3, <1>5 DEF Underway, Undecided, FetchDelta, Nothing
  <2>4. \A i \in Items : /\ i \in found <=> Shown(i) /\ Due(i)
                         /\ i \in removed <=> box[i] = "gone" /\ Due(i)
                         /\ box[i] = "none" => ~ Due(i)
    <3>. SUFFICES ASSUME NEW i \in Items
                  PROVE  /\ i \in found <=> Shown(i) /\ Due(i)
                         /\ i \in removed <=> box[i] = "gone" /\ Due(i)
                         /\ box[i] = "none" => ~ Due(i)
      OBVIOUS
    <3>1. Due(i) <=> last[i] > link
      BY <1>5 DEF Due
    <3>2. box[i] = "none" => ~ (last[i] > link)
      BY <1>1
    <3>3. (i \in Here <=> Shown(i)) /\ (i \in Gone <=> box[i] = "gone")
      BY <1>5, FolderSets DEF FetchDelta
    <3>4. i \in After(link) <=> last[i] > link
      BY DEF After
    <3>. QED  BY <3>1, <3>2, <3>3, <3>4, Zenon
  <2>5. \A i \in Items : Shown(i) => box[i] \notin {"none", "gone"}
    BY DEF Shown
  <2>. HIDE DEF found, removed, left
  <2>. QED  BY <2>1, <2>2, <2>3, <2>4, <2>5, FetchStep
<1>6. ASSUME ~ Undecided, NEW found \in SUBSET Items, NEW left \in SUBSET Items,
             NEW removed \in SUBSET Items, Fetch(found, removed, left),
             removed = call.removed \/ (call.full /\ removed = {}), left # {} => backend # "imap",
             \A i \in call.todo : Shown(i) => i \in found \cup left,
             found \subseteq call.todo \ Gone, left \subseteq call.todo
      PROVE  DeltaInv'
  <2>1. \A i \in Items : last[i] <= call.next =>
          /\ Shown(i) =>
               /\ i \notin removed
               /\ Due(i) => i \in found \/ i \in left \/ call.changed[i] = last[i]
               /\ ~ Due(i) => i \notin found /\ i \notin left /\ call.changed[i] = 0
          /\ box[i] \in {"none", "gone"} =>
               /\ i \notin found /\ call.changed[i] = 0
               /\ ~ call.full /\ Due(i) => i \in removed
          /\ box[i] = "none" => i \notin left
    <3>1. SUFFICES ASSUME NEW i \in Items, last[i] <= call.next
                   PROVE  /\ Shown(i) =>
                               /\ i \notin removed
                               /\ Due(i) => \/ i \in found \/ i \in left
                                           \/ call.changed[i] = last[i]
                               /\ ~ Due(i) => /\ i \notin found /\ i \notin left
                                             /\ call.changed[i] = 0
                          /\ box[i] \in {"none", "gone"} =>
                               /\ i \notin found /\ call.changed[i] = 0
                               /\ ~ call.full /\ Due(i) => i \in removed
                          /\ box[i] = "none" => i \notin left
      OBVIOUS
    <3>2. Holds(i)
      BY <1>4, <1>6, <3>1
    <3>3. (Shown(i) => box[i] \notin {"none", "gone"}) /\ (i \in Gone <=> box[i] = "gone")
      BY FolderSets DEF Shown
    <3>. QED  BY <1>6, <3>2, <3>3 DEF Holds
  <2>. QED  BY <1>1, <1>6, <2>1, FetchStep
<1>7. CASE FetchDelta /\ call.full
  <2>. DEFINE found == call.todo \cap Here
              none  == {}
  <2>1. Fetch(found, none, none)
    BY <1>7 DEF FetchDelta
  <2>2. /\ found \in SUBSET Items /\ none \in SUBSET Items /\ none = {}
        /\ found \subseteq call.todo \ Gone
    BY <1>1 DEF Here, Gone
  <2>3. \A i \in call.todo : Shown(i) => i \in found \cup none
    BY <1>1 DEF Shown, Here
  <2>4. ~ Undecided
    BY <1>7 DEF Undecided
  <2>. HIDE DEF found, none
  <2>. QED  BY <1>6, <1>7, <2>1, <2>2, <2>3, <2>4
<1>8. CASE GetEmails
  <2>. DEFINE found == IF call.full THEN call.todo \ Gone ELSE {i \in call.todo : Shown(i)}
              none  == {}
  <2>1. Fetch(found, call.removed, none)
    BY <1>8 DEF GetEmails
  <2>2. /\ found \in SUBSET Items /\ none \in SUBSET Items /\ none = {}
        /\ found \subseteq call.todo \ Gone
    BY <1>1 DEF Shown, Gone
  <2>3. \A i \in call.todo : Shown(i) => i \in found \cup none
    BY DEF Shown, Gone
  <2>4. ~ Undecided
    BY <1>8 DEF Undecided, GetEmails, Jmap
  <2>. HIDE DEF found, none
  <2>. QED  BY <1>1, <1>6, <2>1, <2>2, <2>3, <2>4
<1>9. CASE MultiGetCalendar
  <2>. DEFINE found == call.todo \cap Here
              none  == {}
  <2>1. Fetch(found, call.removed, none)
    BY <1>9 DEF MultiGetCalendar
  <2>2. /\ found \in SUBSET Items /\ none \in SUBSET Items /\ none = {}
        /\ found \subseteq call.todo \ Gone
    BY <1>1 DEF Here, Gone
  <2>3. \A i \in call.todo : Shown(i) => i \in found \cup none
    BY <1>1 DEF Shown, Here
  <2>4. ~ Undecided
    BY <1>9 DEF Undecided, MultiGetCalendar
  <2>. HIDE DEF found, none
  <2>. QED  BY <1>1, <1>6, <2>1, <2>2, <2>3, <2>4
<1>10. CASE GetAddressObject
  <2>1. PICK i \in call.todo \cap Here :
          backend = "carddav" /\ Fetch({i}, call.removed, call.todo \ {i})
    BY <1>10 DEF GetAddressObject
  <2>. DEFINE found == {i}
              left  == call.todo \ {i}
  <2>2. Fetch(found, call.removed, left) /\ backend # "imap"
    BY <2>1
  <2>3. /\ found \in SUBSET Items /\ left \in SUBSET Items
        /\ found \subseteq call.todo \ Gone /\ left \subseteq call.todo
    BY <1>1, <2>1 DEF Here, Gone
  <2>4. \A j \in call.todo : Shown(j) => j \in found \cup left
    OBVIOUS
  <2>5. ~ Undecided
    BY <2>2 DEF Undecided
  <2>. HIDE DEF found, left
  <2>. QED  BY <1>1, <1>6, <2>2, <2>3, <2>4, <2>5
<1>. QED  BY <1>5, <1>7, <1>8, <1>9, <1>10

\* The page is applied: what the request holds becomes what the client has.
LEMMA LinkStep ==
  ASSUME DeltaInv, WriteDelta
  PROVE  DeltaInv'
<1>0. Counted /\ MirrorInv /\ Underway
  BY DEF DeltaInv
<1>1. /\ call.pc = "answer" /\ link' = call.next /\ call' = NoCall
      /\ mirror' = [i \in Items |->
           IF i \in call.removed THEN 0
           ELSE IF call.changed[i] # 0 THEN call.changed[i] ELSE mirror[i]]
      /\ unsaid' = {i \in Items : /\ mirror'[i] # 0
                                  /\ call.changed[i] = 0
                                  /\ i \in unsaid \/ call.full}
      /\ UNCHANGED <<backend, box, last, now, since>>
  BY DEF WriteDelta
<1>2. /\ now \in Nat /\ link \in Nat /\ call.next \in Nat /\ call.next <= now
      /\ mirror \in [Items -> Nat] /\ call.changed \in [Items -> Nat]
      /\ \A i \in Items : last[i] \in Nat
      /\ \A i \in Items : box[i] = "none" <=> last[i] = 0
      /\ \A i \in Items : box[i] = "none" => mirror[i] = 0
  BY <1>0 DEF Counted, Calls
<1>3. \A i \in Items : last[i] <= call.next => Holds(i)
  BY <1>0, <1>1 DEF Underway
<1>4. mirror' \in [Items -> Nat]
  BY <1>1, <1>2
<1>5. \A i \in Items : mirror'[i] = IF i \in call.removed THEN 0
                                    ELSE IF call.changed[i] # 0 THEN call.changed[i] ELSE mirror[i]
  BY <1>1
<1>6. \A i \in Items : box[i] = "none" => mirror'[i] = 0
  <2>. SUFFICES ASSUME NEW i \in Items, box[i] = "none" PROVE mirror'[i] = 0
    OBVIOUS
  <2>1. Holds(i) /\ mirror[i] = 0
    BY <1>2, <1>3
  <2>2. call.changed[i] = 0
    BY <2>1 DEF Holds
  <2>. QED  BY <1>5, <2>1, <2>2
<1>7. call' \in Calls /\ call'.next = 0 /\ call'.pc = "idle"
  BY <1>1 DEF NoCall, Nothing, Calls
<1>8. link' \in 0 .. now' /\ unsaid' \subseteq Items
  BY <1>1, <1>2
<1>9. Counted'
  BY <1>0, <1>1, <1>4, <1>6, <1>7, <1>8 DEF Counted
<1>10. Underway'
  BY <1>7 DEF Underway
<1>11. ASSUME NEW i \in Items, call.next # 0, last[i] <= call.next
       PROVE  /\ Shown(i) => mirror'[i] = last[i]
              /\ box[i] \in {"none", "gone"} => mirror'[i] = 0 \/ i \in unsaid'
  <2>1. Holds(i) /\ Agreed(i)
    BY <1>0, <1>3, <1>11 DEF MirrorInv
  <2>2. ASSUME Shown(i) PROVE mirror'[i] = last[i]
    <3>1. last[i] # 0 /\ i \notin call.removed
      BY <1>2, <2>1, <2>2 DEF Holds, Shown
    <3>2. CASE Due(i)
      <4>1. call.changed[i] = last[i]
        BY <1>1, <2>1, <2>2, <3>2 DEF Holds
      <4>. QED  BY <1>5, <3>1, <4>1
    <3>3. CASE ~ Due(i)
      <4>1. call.changed[i] = 0 /\ link # 0 /\ last[i] <= link
        BY <1>2, <2>1, <2>2, <3>1, <3>3 DEF Holds, Due
      <4>2. mirror[i] = last[i]
        BY <2>1, <2>2, <4>1 DEF Agreed
      <4>. QED  BY <1>5, <3>1, <4>1, <4>2
    <3>. QED  BY <3>2, <3>3
  <2>3. ASSUME box[i] \in {"none", "gone"}, mirror'[i] # 0 PROVE i \in unsaid'
    <3>1. call.changed[i] = 0 /\ i \notin call.removed /\ mirror'[i] = mirror[i]
      <4>1. call.changed[i] = 0
        BY <2>1, <2>3 DEF Holds
      <4>. QED  BY <1>5, <2>3, <4>1
    <3>2. CASE call.full
      BY <1>1, <2>3, <3>1, <3>2
    <3>3. CASE ~ call.full
      <4>1. ~ Due(i)
        BY <2>1, <2>3, <3>1, <3>3 DEF Holds
      <4>2. last[i] <= link /\ box[i] # "none"
        BY <1>2, <1>6, <2>3, <4>1 DEF Due
      <4>3. link # 0
        BY <1>2, <4>2
      <4>4. i \in unsaid
        BY <2>1, <2>3, <3>1, <4>2, <4>3 DEF Agreed
      <4>. QED  BY <1>1, <2>3, <3>1, <4>4
    <3>. QED  BY <3>2, <3>3
  <2>. QED  BY <2>2, <2>3
<1>12. MirrorInv'
  BY <1>1, <1>11 DEF MirrorInv, Agreed, Shown
<1>. QED  BY <1>9, <1>10, <1>12 DEF DeltaInv

\* A request that fails, or a user without a collection, leaves the mirror alone.
LEMMA DeltaEndStep ==
  ASSUME DeltaInv, DeltaFails \/ NoCollection
  PROVE  DeltaInv'
<1>0. Counted /\ MirrorInv /\ Underway
  BY DEF DeltaInv
<1>1. CASE DeltaFails
  <2>1. call' = NoCall /\ UNCHANGED <<backend, box, last, now, since, mirror, link, unsaid>>
    BY <1>1 DEF DeltaFails
  <2>2. call' \in Calls /\ call'.next = 0 /\ call'.pc = "idle"
    BY <2>1 DEF NoCall, Nothing, Calls
  <2>3. Counted'
    BY <1>0, <2>1, <2>2 DEF Counted
  <2>. QED  BY <1>0, <2>1, <2>2, <2>3 DEF DeltaInv, Underway, MirrorInv, Agreed, Shown
<1>2. CASE NoCollection
  <2>1. /\ call.pc = "idle" /\ link' = 0
        /\ UNCHANGED <<backend, box, last, now, since, mirror, call, unsaid>>
    BY <1>2 DEF NoCollection
  <2>2. Counted'
    BY <1>0, <2>1 DEF Counted
  <2>. QED  BY <2>1, <2>2 DEF DeltaInv, Underway, MirrorInv, Agreed, Shown
<1>. QED  BY <1>1, <1>2

\* An item that changes is newer than every token there is, so that no request
\* and no link speaks of it any more; the others stay as they are.
LEMMA FolderStep ==
  ASSUME DeltaInv, ItemChanges \/ Recreate \/ Forget
  PROVE  DeltaInv'
<1>0. Counted /\ MirrorInv /\ Underway
  BY DEF DeltaInv
<1>1. /\ now \in Nat /\ link \in Nat /\ link <= now /\ call.next \in Nat /\ call.next <= now
      /\ last \in [Items -> 0 .. now] /\ since \in Nat
      /\ box \in [Items -> {"none", "here", "both", "away", "gone"}]
      /\ \A i \in Items : box[i] = "none" <=> last[i] = 0
      /\ \A i \in Items : box[i] = "none" => mirror[i] = 0
  BY <1>0 DEF Counted, Calls
<1>2. UNCHANGED <<backend, mirror, link, call, unsaid>>
  BY DEF ItemChanges, Recreate, Forget
<1>3. /\ now' \in Nat /\ now <= now' /\ since' \in Nat
      /\ last' \in [Items -> 0 .. now']
      /\ box' \in [Items -> {"none", "here", "both", "away", "gone"}]
  BY <1>1 DEF ItemChanges, Recreate, Forget
<1>4. ASSUME NEW i \in Items
      PROVE  \/ last'[i] = now + 1 /\ box'[i] # "none"
             \/ last'[i] = last[i] /\ box'[i] = box[i]
  <2>1. CASE ItemChanges
    <3>1. PICK j \in Items, to \in {"here", "both", "away", "gone"} :
            box' = [box EXCEPT ![j] = to] /\ last' = [last EXCEPT ![j] = now + 1]
      BY <2>1 DEF ItemChanges
    <3>. QED  BY <1>1, <3>1
  <2>2. CASE Recreate
    <3>1. /\ box' = [k \in Items |-> IF k \in Here THEN "gone" ELSE box[k]]
          /\ last' = [k \in Items |-> IF k \in Here THEN now + 1 ELSE last[k]]
      BY <2>2 DEF Recreate
    <3>. QED  BY <3>1
  <2>3. CASE Forget
    BY <2>3 DEF Forget
  <2>. QED  BY <2>1, <2>2, <2>3
<1>5. Counted'
  BY <1>0, <1>1, <1>2, <1>3, <1>4 DEF Counted
<1>6. ASSUME NEW i \in Items, last'[i] <= call.next \/ last'[i] <= link
      PROVE  last'[i] = last[i] /\ box'[i] = box[i]
  BY <1>1, <1>4, <1>6
<1>7. Underway'
  <2>1. ASSUME NEW i \in Items, last'[i] <= call'.next, Holds(i)
        PROVE  Holds(i)'
    <3>1. last'[i] = last[i] /\ box'[i] = box[i]
      BY <1>2, <1>6, <2>1
    <3>. QED  BY <1>2, <2>1, <3>1 DEF Holds, Due, Shown
  <2>2. ASSUME NEW i \in Items, last'[i] <= call'.next
        PROVE  last[i] <= call.next
    BY <1>2, <1>6, <2>2
  <2>3. Nothing' = Nothing /\ (Undecided' <=> Undecided)
    BY <1>2 DEF Nothing, Undecided
  <2>. QED  BY <1>0, <1>2, <2>1, <2>2, <2>3 DEF Underway
<1>8. MirrorInv'
  BY <1>0, <1>2, <1>6 DEF MirrorInv, Agreed, Shown
<1>. QED  BY <1>5, <1>7, <1>8 DEF DeltaInv

\* Every step keeps the invariant.
LEMMA DeltaNextInv == DeltaInv /\ [DeltaNext]_deltaVars => DeltaInv'
<1>1. ASSUME DeltaInv, UNCHANGED deltaVars PROVE DeltaInv'
  BY <1>1 DEF deltaVars, DeltaInv, Counted, Underway, MirrorInv, Agreed, Shown, Holds, Due, Undecided, Nothing
<1>. QED
  BY <1>1, FirstCalls, QueryStep, Fetches, LinkStep, DeltaEndStep, FolderStep DEF DeltaNext

\* A deltaLink stands for what its client has, for any number of items and of
\* changes, on each backend and however the calls of Client.Delta interleave with
\* the changes of the folder, lost answers and recreated folders.
THEOREM LinkStands == DeltaSpec => []Mirrored
<1>1. DeltaInv => Mirrored
  <2>. SUFFICES ASSUME DeltaInv, link # 0, NEW i \in Items \ After(link)
                PROVE  /\ Shown(i) => mirror[i] = last[i]
                       /\ box[i] \in {"none", "gone"} => mirror[i] = 0 \/ i \in unsaid
    BY DEF Mirrored
  <2>0. Counted /\ Agreed(i)
    BY DEF DeltaInv, MirrorInv
  <2>1. link \in Nat /\ last[i] \in Nat
    BY <2>0 DEF Counted
  <2>2. last[i] <= link
    BY <2>1 DEF After
  <2>. QED  BY <2>0, <2>2 DEF Agreed
<1>. QED  BY <1>1, DeltaInitInv, DeltaNextInv, PTL DEF DeltaSpec

=============================================================================
