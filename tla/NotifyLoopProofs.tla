-------------------------- MODULE NotifyLoopProofs --------------------------
(***************************************************************************)
(* The delivery loop skips no change and repeats none, for any number of   *)
(* subscriptions, items, changes and failures.                             *)
(***************************************************************************)
EXTENDS NotifyLoop, TLAPS

\* What holds of the loop's registers at each of its points: there is a batch
\* exactly while a fan-out is under way, and nobody was told more than the token.
BatchInv ==
  /\ pc \notin {"list", "post"} => ids = {} /\ todo = {}
  /\ pc = "list" => todo = {}
  /\ pc \in {"sync", "list", "post"} => after # "none"
  /\ \A s \in Subs, i \in Items : told[s][i] <= token

\* A POST tells the one subscription each item of the batch, up to the token.
LEMMA TriedType ==
  ASSUME TypeOK, NEW s \in Subs, Tried(s)
  PROVE  /\ told' \in [Subs -> [Items -> Nat]]
         /\ \A i \in Items : told'[s][i] = IF i \in ids THEN token ELSE told[s][i]
         /\ \A t \in Subs : t # s => told'[t] = told[t]
  BY DEF TypeOK, Tried

\* What a part of the log touches are items.
LEMMA TouchedType ==
  ASSUME TypeOK, LoopConstants, NEW a \in Nat, NEW b \in 0 .. state
  PROVE  Touched((a + 1) .. b) \subseteq Items
  BY DEF TypeOK, Touched, LoopConstants

\* Rest keeps the batch's registers typed.
LEMMA RestType ==
  ASSUME TypeOK, BatchInv, pc \in {"list", "post"}, NEW rest \in SUBSET Subs, Rest(rest)
  PROVE  /\ todo' \subseteq Subs
         /\ ids' \subseteq ids
         /\ pc' \in {"post", "read", "dial"}
         /\ pc' = "post" => rest # {} /\ ids' = ids /\ todo' = rest
         /\ pc' # "post" => rest = {} /\ ids' = {} /\ todo' = {}
  BY DEF TypeOK, BatchInv, Rest

\* The steps of the loop that touch neither batch nor token.
LEMMA QuietSteps ==
  ASSUME TypeOK, BatchInv, LoopConstants,
         \/ BaselineOK \/ WatchStarts \/ Enable \/ ReadFrame \/ ReadError \/ FireAll
         \/ Return \/ GiveUp \/ SyncFail \/ DialFail \/ Drop
         \/ (\E i \in Items : ItemChanges(i)) \/ Cancel \/ \E s \in Subs : Subscribe(s) \/ Lapse(s)
  PROVE  TypeOK' /\ BatchInv'
<1> USE DEF loopVars, sockVars, subVars
<1>1. CASE BaselineOK  BY <1>1 DEF BaselineOK, TypeOK, BatchInv, LoopConstants
<1>2. CASE WatchStarts \/ GiveUp  BY <1>2 DEF WatchStarts, GiveUp, TypeOK, BatchInv, LoopConstants
<1>3. CASE Enable  BY <1>3 DEF Enable, TypeOK, BatchInv, LoopConstants
<1>4. CASE DialFail  BY <1>4 DEF DialFail, TypeOK, BatchInv, LoopConstants
<1>5. CASE Drop  BY <1>5 DEF Drop, TypeOK, BatchInv, LoopConstants
<1>6. CASE ReadFrame  BY <1>6 DEF ReadFrame, TypeOK, BatchInv, LoopConstants
<1>7. CASE ReadError  BY <1>7 DEF ReadError, TypeOK, BatchInv, LoopConstants
<1>8. CASE FireAll  BY <1>8 DEF FireAll, TypeOK, BatchInv, LoopConstants
<1>9. CASE Return  BY <1>9 DEF Return, TypeOK, BatchInv, LoopConstants
<1>10. CASE SyncFail  BY <1>10 DEF SyncFail, TypeOK, BatchInv, LoopConstants
<1>11. ASSUME NEW i \in Items, ItemChanges(i)  PROVE TypeOK' /\ BatchInv'
  <2>1. Moment \in {"none", "baseline", "ended", "pushed", "down", "redial", "gap"}
    BY DEF Moment
  <2>2. log' \in [Changes -> 0 .. MaxItems] /\ \A k \in 1 .. state' : log'[k] \in Items
    BY <1>11 DEF ItemChanges, TypeOK, LoopConstants, Items, Changes
  <2> QED  BY <1>11, <2>1, <2>2 DEF ItemChanges, TypeOK, BatchInv, LoopConstants
<1>12. CASE Cancel  BY <1>12 DEF Cancel, TypeOK, BatchInv, LoopConstants
<1>13. ASSUME NEW s \in Subs, Subscribe(s)  PROVE TypeOK' /\ BatchInv'
  BY <1>13 DEF Subscribe, TypeOK, BatchInv, LoopConstants
<1>14. ASSUME NEW s \in Subs, Lapse(s)  PROVE TypeOK' /\ BatchInv'
  BY <1>14 DEF Lapse, TypeOK, BatchInv, LoopConstants
<1> QED
  BY <1>1, <1>2, <1>3, <1>4, <1>5, <1>6, <1>7, <1>8, <1>9, <1>10, <1>11, <1>12, <1>13, <1>14

\* Type correctness and the batch's discipline, step by step.
LEMMA BatchStep ==
  ASSUME TypeOK, BatchInv, LoopConstants, [Next]_vars
  PROVE  TypeOK' /\ BatchInv'
<1>1. ASSUME NEW next \in token .. state, SyncOK(next)  PROVE TypeOK' /\ BatchInv'
  <2>1. /\ pc = "sync" /\ token' = next /\ ids' = Touched((token + 1) .. next)
        /\ pc' = IF ids' = {} THEN after ELSE "list"
        /\ UNCHANGED <<ctx, state, log, born, after, todo, sock, frames, drops, subs, joined, told>>
    BY <1>1 DEF SyncOK, sockVars, subVars
  <2>2. token' \in 0 .. state /\ token \in Nat /\ token <= token'
    BY <2>1 DEF TypeOK, LoopConstants
  <2>3. ids' \subseteq Items
    BY <2>1, <2>2, TouchedType
  <2>4. odd' \subseteq {"failed", "truncated", "resync"}
    BY <1>1 DEF SyncOK, TypeOK
  <2>5. TypeOK'
    BY <2>1, <2>2, <2>3, <2>4 DEF TypeOK, BatchInv
  <2>6. \A s \in Subs, i \in Items : told'[s][i] <= token'
    BY <2>1, <2>2 DEF TypeOK, BatchInv
  <2> QED  BY <2>1, <2>5, <2>6 DEF BatchInv
<1>2. CASE Resync
  <2>1. /\ pc = "sync" /\ token' = state /\ ids' = Touched(1 .. state)
        /\ pc' = IF ids' = {} THEN after ELSE "list"
        /\ UNCHANGED <<ctx, state, log, born, after, todo, sock, frames, drops, subs, joined, told>>
    BY <1>2 DEF Resync, sockVars, subVars
  <2>2. token' \in 0 .. state /\ token <= token'
    BY <2>1 DEF TypeOK, LoopConstants
  <2>3. ids' \subseteq Items
    BY <2>1 DEF TypeOK, Touched
  <2>4. odd' \subseteq {"failed", "truncated", "resync"}
    BY <1>2 DEF Resync, TypeOK
  <2>5. TypeOK'
    BY <2>1, <2>2, <2>3, <2>4 DEF TypeOK, BatchInv
  <2>6. \A s \in Subs, i \in Items : told'[s][i] <= token'
    BY <2>1, <2>2 DEF TypeOK, BatchInv
  <2> QED  BY <2>1, <2>5, <2>6 DEF BatchInv
<1>3. CASE List
  <2>1. subs \in SUBSET Subs /\ pc \in {"list", "post"} /\ Rest(subs)
    BY <1>3 DEF List, TypeOK
  <2> QED  BY <1>3, <2>1, RestType DEF List, TypeOK, BatchInv, sockVars, subVars
<1>4. ASSUME NEW s \in Subs, PostOK(s) \/ PostFail(s)  PROVE TypeOK' /\ BatchInv'
  <2>1. todo \ {s} \in SUBSET Subs /\ pc \in {"list", "post"} /\ Rest(todo \ {s}) /\ Tried(s)
    BY <1>4 DEF PostOK, PostFail, TypeOK
  <2>2. UNCHANGED <<ctx, state, log, born, odd, after, token, sock, frames, drops, subs, joined>>
    BY <1>4 DEF PostOK, PostFail, sockVars
  <2>3. /\ told' \in [Subs -> [Items -> Nat]]
        /\ \A t \in Subs, i \in Items : told'[t][i] = token \/ told'[t][i] = told[t][i]
    BY <2>1, TriedType
  <2>4. \A t \in Subs, i \in Items : told'[t][i] <= token'
    BY <2>2, <2>3 DEF BatchInv, TypeOK
  <2>5. TypeOK'
    BY <2>1, <2>2, <2>3, RestType DEF TypeOK
  <2> QED  BY <2>1, <2>2, <2>4, <2>5, RestType DEF BatchInv, TypeOK
<1>5. CASE UNCHANGED vars
  BY <1>5 DEF vars, loopVars, sockVars, subVars, TypeOK, BatchInv
<1> QED
  BY <1>1, <1>2, <1>3, <1>4, <1>5, QuietSteps DEF Next, LoopStep, FaultStep, EnvStep

\* The types of the loop's variables are preserved by every step: frames are
\* read only when there is one, the token never passes the collection.
THEOREM TypeCorrect == Spec => []TypeOK
<1>1. Init => TypeOK /\ BatchInv
  BY LoopConstants DEF Init, TypeOK, BatchInv, LoopConstants, Items, Changes
<1>2. TypeOK /\ BatchInv /\ [Next]_vars => (TypeOK /\ BatchInv)'
  BY BatchStep, LoopConstants
<1> QED  BY <1>1, <1>2, PTL DEF Spec

\* No step makes the token pass a change whose item a subscription of the time
\* has not been POSTed and is not about to be.
LEMMA SkippedStep ==
  ASSUME TypeOK, BatchInv, LoopConstants, NoneSkipped, [Next]_vars
  PROVE  NoneSkipped'
<1> SUFFICES ASSUME NEW t \in subs', NEW k \in Changes, joined'[t] < k, k <= token'
             PROVE  told'[t][log'[k]] >= k \/ Pending(t, log[k])'
  BY DEF NoneSkipped, Changes
<1> DEFINE Goal == told'[t][log'[k]] >= k \/ Pending(t, log[k])'
<1>0. k \in Nat /\ k >= 1 /\ token \in Nat /\ token <= state /\ state \in Nat
  BY DEF Changes, TypeOK, LoopConstants
<1> USE DEF loopVars, sockVars, subVars
<1>1. CASE BaselineOK
  BY <1>0, <1>1 DEF BaselineOK, TypeOK
<1>2. ASSUME NEW next \in token .. state, SyncOK(next)  PROVE Goal
  <2>1. /\ pc = "sync" /\ token' = next /\ ids' = Touched((token + 1) .. next)
        /\ ids' # {} => pc' = "list"
        /\ subs' = subs /\ joined' = joined /\ told' = told /\ log' = log
    BY <1>2 DEF SyncOK
  <2>2. CASE k <= token
    BY <2>1, <2>2 DEF NoneSkipped, Pending, BatchInv
  <2>3. CASE token < k
    <3>1. log[k] \in ids'  BY <1>0, <2>1, <2>3 DEF Touched
    <3> QED  BY <2>1, <3>1 DEF Pending
  <2> QED  BY <1>0, <2>2, <2>3
<1>3. CASE Resync
  <2>1. /\ token' = state /\ ids' = Touched(1 .. state) /\ (ids' # {} => pc' = "list")
        /\ log' = log
    BY <1>3 DEF Resync
  <2>2. log[k] \in ids'  BY <1>0, <2>1 DEF Touched
  <2> QED  BY <2>1, <2>2 DEF Pending
<1>4. CASE List
  <2>1. /\ t \in subs /\ joined' = joined /\ told' = told /\ log' = log /\ token' = token
        /\ pc = "list" /\ Rest(subs)
    BY <1>4 DEF List
  <2>2. told[t][log[k]] >= k \/ log[k] \in ids
    BY <2>1 DEF NoneSkipped, Pending
  <2>3. todo' = subs /\ ids' = ids
    BY <2>1 DEF Rest
  <2> QED  BY <2>1, <2>2, <2>3 DEF Pending
<1>5. ASSUME NEW s \in Subs, PostOK(s) \/ PostFail(s)  PROVE Goal
  <2>1. /\ \A i \in Items : told'[s][i] = IF i \in ids THEN token ELSE told[s][i]
        /\ \A u \in Subs : u # s => told'[u] = told[u]
    <3>1. Tried(s)  BY <1>5 DEF PostOK, PostFail
    <3> QED  BY <3>1, TriedType
  <2>2. /\ t \in subs /\ subs' = subs /\ joined' = joined /\ log' = log /\ token' = token
        /\ pc = "post" /\ Rest(todo \ {s}) /\ s \in todo
    BY <1>5 DEF PostOK, PostFail
  <2>3. told[t][log[k]] >= k \/ (log[k] \in ids /\ t \in todo)
    BY <2>2 DEF NoneSkipped, Pending
  <2>4. log[k] \in Items /\ t \in Subs /\ told[t][log[k]] \in Nat /\ told[t][log[k]] <= token
    BY <1>0, <2>2 DEF TypeOK, BatchInv
  <2>5. CASE t = s  BY <1>0, <2>1, <2>2, <2>3, <2>4, <2>5
  <2>6. CASE t # s
    <3>1. told'[t] = told[t]
      BY <2>1, <2>4, <2>6
    <3>2. CASE t \in todo
      <4>1. t \in todo' /\ ids' = ids
        BY <2>2, <2>6, <3>2 DEF Rest
      <4> QED  BY <2>2, <2>3, <3>1, <4>1 DEF Pending
    <3>3. CASE t \notin todo
      BY <2>2, <2>3, <3>1, <3>3
    <3> QED  BY <3>2, <3>3
  <2> QED  BY <2>5, <2>6
<1>6. ASSUME NEW s \in Subs, Subscribe(s) \/ Lapse(s)  PROVE Goal
  <2>1. /\ token' = token /\ ids' = ids /\ pc' = pc /\ todo' = todo /\ told' = told /\ log' = log
    BY <1>6 DEF Subscribe, Lapse
  <2>2. t \in subs /\ joined[t] < k
    <3>1. CASE Subscribe(s)
      <4>1. t = s => joined'[t] = token  BY <3>1 DEF Subscribe, TypeOK
      <4>2. t # s  BY <1>0, <2>1, <4>1
      <4>3. t \in subs /\ t \in Subs  BY <3>1, <4>2 DEF Subscribe, TypeOK
      <4> QED  BY <3>1, <4>2, <4>3 DEF Subscribe, TypeOK
    <3>2. CASE Lapse(s)  BY <3>2 DEF Lapse
    <3> QED  BY <1>6, <3>1, <3>2
  <2> QED  BY <2>1, <2>2 DEF NoneSkipped, Pending
<1>7. ASSUME NEW i \in Items, ItemChanges(i)  PROVE Goal
  <2>1. /\ UNCHANGED <<pc, token, ids, todo, subs, joined, told>>
        /\ log' = [log EXCEPT ![state + 1] = i]
    BY <1>7 DEF ItemChanges
  <2>2. log'[k] = log[k]
    BY <1>0, <2>1 DEF TypeOK
  <2> QED  BY <2>1, <2>2 DEF NoneSkipped, Pending
<1>8. ASSUME UNCHANGED <<log, token, ids, todo, subs, joined, told>>,
             pc' = pc \/ pc # "list"
      PROVE  Goal
  BY <1>8 DEF NoneSkipped, Pending
<1>9. CASE \/ WatchStarts \/ GiveUp \/ Enable \/ DialFail \/ Drop \/ ReadFrame \/ ReadError
           \/ FireAll \/ Return \/ Cancel \/ SyncFail \/ UNCHANGED vars
  BY <1>8, <1>9 DEF WatchStarts, GiveUp, Enable, DialFail, Drop, ReadFrame, ReadError,
                    FireAll, Return, Cancel, SyncFail, vars
<1> QED
  BY <1>1, <1>2, <1>3, <1>4, <1>5, <1>6, <1>7, <1>9
  DEF Next, LoopStep, FaultStep, EnvStep

\* Failing syncs and POSTs, lost frames, reconnects and resyncs never make the
\* loop advance its token past a change without notifying who subscribed before.
THEOREM NoItemSkipped == Spec => []NoneSkipped
<1>1. Init => TypeOK /\ BatchInv /\ NoneSkipped
  BY LoopConstants
     DEF Init, TypeOK, BatchInv, NoneSkipped, LoopConstants, Items, Changes
<1>2. TypeOK /\ BatchInv /\ NoneSkipped /\ [Next]_vars => (TypeOK /\ BatchInv /\ NoneSkipped)'
  BY BatchStep, SkippedStep, LoopConstants
<1> QED  BY <1>1, <1>2, PTL DEF Spec

\* Item i was created or updated after subscription s was last told of it.
News(s, i) == \E k \in Changes : told[s][i] < k /\ k <= token /\ log[k] = i

\* No step puts an item into a batch that is not news to each subscription.
LEMMA OnceStep ==
  ASSUME TypeOK, BatchInv, LoopConstants, AtMostOnce, [Next]_vars
  PROVE  AtMostOnce'
<1> SUFFICES ASSUME "resync" \notin odd', NEW t \in Subs, NEW i \in Items, Pending(t, i)'
             PROVE  News(t, i)'
  BY DEF AtMostOnce, News
<1>a. "resync" \notin odd => (Pending(t, i) => News(t, i))
  BY DEF AtMostOnce, News
<1>b. told[t][i] \in Nat /\ told[t][i] <= token /\ token \in Nat /\ token <= state
      /\ state \in 0 .. MaxChanges
  BY DEF BatchInv, TypeOK, LoopConstants
<1> USE DEF loopVars, sockVars, subVars
<1>1. ASSUME NEW next \in token .. state, SyncOK(next)  PROVE News(t, i)'
  <2>1. /\ pc = "sync" /\ token' = next /\ ids' = Touched((token + 1) .. next)
        /\ todo' = todo /\ told' = told /\ log' = log
    BY <1>1 DEF SyncOK
  <2>2. i \in ids'
    BY DEF Pending
  <2>3. PICK k \in (token + 1) .. next : log[k] = i
    BY <2>1, <2>2 DEF Touched
  <2>4. k \in Changes /\ told[t][i] < k /\ k <= next
    BY <1>b, <2>3 DEF Changes, LoopConstants
  <2> QED  BY <2>1, <2>3, <2>4 DEF News
<1>2. CASE Resync  BY <1>2 DEF Resync
<1>3. CASE List
  <2>1. pc = "list" /\ Rest(subs) /\ UNCHANGED <<odd, token, log, told>>
    BY <1>3 DEF List
  <2>2. Pending(t, i)
    BY <2>1 DEF Pending, Rest
  <2> QED  BY <1>a, <2>1, <2>2 DEF News
<1>4. ASSUME NEW s \in Subs, PostOK(s) \/ PostFail(s)  PROVE News(t, i)'
  <2>1. /\ pc = "post" /\ Rest(todo \ {s}) /\ Tried(s) /\ UNCHANGED <<odd, after, token, log>>
    BY <1>4 DEF PostOK, PostFail
  <2>2. after # "none" /\ after \in {"none", "read", "dial"}
    BY <2>1 DEF BatchInv, TypeOK
  <2>3. t # s /\ t \in todo /\ i \in ids
    BY <2>1, <2>2 DEF Pending, Rest
  <2>4. told'[t] = told[t]
    BY <2>1, <2>3, TriedType
  <2> QED  BY <1>a, <2>1, <2>3, <2>4 DEF Pending, News
<1>5. ASSUME NEW j \in Items, ItemChanges(j)  PROVE News(t, i)'
  <2>1. /\ UNCHANGED <<odd, pc, token, ids, todo, told>>
        /\ log' = [log EXCEPT ![state + 1] = j]
    BY <1>5 DEF ItemChanges
  <2>2. \A k \in Changes : k <= token => log'[k] = log[k]
    BY <1>b, <2>1 DEF TypeOK, Changes, LoopConstants
  <2> QED  BY <1>a, <2>1, <2>2 DEF Pending, News
<1>6. CASE BaselineOK \/ SyncFail
  BY <1>6 DEF BaselineOK, SyncFail, Pending, BatchInv, TypeOK
<1>7. CASE \/ WatchStarts \/ GiveUp \/ Enable \/ DialFail \/ Drop \/ ReadFrame \/ ReadError
           \/ FireAll \/ Return \/ Cancel \/ UNCHANGED vars
           \/ \E s \in Subs : Subscribe(s) \/ Lapse(s)
  <2>1. UNCHANGED <<odd, log, token, ids, todo, told>> /\ (pc' = "list" => pc = "list")
    BY <1>7 DEF WatchStarts, GiveUp, Enable, DialFail, Drop, ReadFrame, ReadError,
                FireAll, Return, Cancel, Subscribe, Lapse, vars
  <2> QED  BY <1>a, <2>1 DEF Pending, News
<1> QED
  BY <1>1, <1>2, <1>3, <1>4, <1>5, <1>6, <1>7
  DEF Next, LoopStep, FaultStep, EnvStep

\* Coalesced signals, truncated answers and the re-sync after a reconnect notify
\* no subscription of an item twice for the same change of it, unless the server
\* forces a full resync.
THEOREM NoItemTwice == Spec => []AtMostOnce
<1>1. Init => TypeOK /\ BatchInv /\ AtMostOnce
  BY LoopConstants
     DEF Init, TypeOK, BatchInv, AtMostOnce, Pending, LoopConstants, Items, Changes
<1>2. TypeOK /\ BatchInv /\ AtMostOnce /\ [Next]_vars => (TypeOK /\ BatchInv /\ AtMostOnce)'
  BY BatchStep, OnceStep, LoopConstants
<1> QED  BY <1>1, <1>2, PTL DEF Spec

=============================================================================
