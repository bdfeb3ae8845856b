--------------------------- MODULE OutcomeProofs ----------------------------
(***************************************************************************)
(* What a call of generate_plan keeps in step, what it counts and what it  *)
(* says at its end, for every request, fabric and budget:                  *)
(*                                                                         *)
(* 1. The scheduling search keeps the records it changes in place in step  *)
(*    (search_order). The argument follows the stack: frame i remembers    *)
(*    the state the first i - 1 operations lead to and, once it has        *)
(*    committed one, which is the i-th. Operations that are ready together *)
(*    are never joined by an edge, so a commit skips every later sibling:  *)
(*    a frame that has committed once has nothing left to try, and taking  *)
(*    it back takes back the last entry of the order.                      *)
(* 2. The attempts of minimise_blocking_core are bounded.                  *)
(* 3. A published plan carries out the whole change: the order is cut into *)
(*    stages without losing an operation (schedule, run_attempt).          *)
(* 4. A refusal search_limit_exceeded names a budget that ran out.         *)
(* 5. A stop that comes before the decision keeps a call from publishing.  *)
(* 6. The plan published is one no verified candidate is preferred to.     *)
(***************************************************************************)
EXTENDS PlannerProofs, FunctionTheorems

(* The search keeps its records in step.                                   *)

\* The operations of a request that has been placed up to slot i.
Placed(order, i) == {order[j] : j \in 1 .. i}

\* The records of a search for an order of r: what SearchConsistent says of them.
OrderKept(r, s) ==
  /\ s.applied = ToSet(s.order)
  /\ \A i, j \in 1 .. Len(s.order) : s.order[i] = s.order[j] => i = j
  /\ s.state = Replay(r, r.state, s.order)
  /\ \A i \in 1 .. Len(s.order) :
       /\ Predecessors(r, s.order[i]) \subseteq Placed(s.order, i - 1)
       /\ Safe(r, Trajectory(r, r.state, s.order)[i])

\* A frame with no slot left to try.
Spent(f) == \A k \in f.next .. Len(f.ready) : k \in f.skipped

\* What the frames know: the state they were entered in, what they committed, and,
\* at the top while nothing is committed, operations that are still ready.
StackKept(r, s) ==
  LET top == Last(s.stack)
  IN  /\ \A i \in 1 .. Len(s.stack) :
           s.stack[i].entry = Trajectory(r, r.state, s.order)[i - 1]
      /\ \A i \in 1 .. Len(s.stack) - 1 : s.stack[i].chosen # 0
      /\ \A i \in 1 .. Len(s.stack) :
           s.stack[i].chosen # 0 => s.stack[i].chosen = s.order[i] /\ Spent(s.stack[i])
      /\ Len(s.order) = IF top.chosen = 0 THEN Len(s.stack) - 1 ELSE Len(s.stack)
      /\ top.chosen = 0 =>
           \A k \in 1 .. Len(top.ready) : top.ready[k] \in ReadyCandidates(r, s.applied)

\* The inductive invariant of the search.
OrderInv ==
  phase = "search" => OrderKept(req, search) /\ (Running => StackKept(req, search))

-----------------------------------------------------------------------------
\* Dropping the last entry leaves the others where they are.
LEMMA FrontEntries ==
  ASSUME NEW S, NEW seq \in Seq(S), Len(seq) # 0
  PROVE  Len(Front(seq)) = Len(seq) - 1 /\ \A i \in 1 .. Len(seq) - 1 : Front(seq)[i] = seq[i]
<1>1. Len(seq) \in Nat /\ Len(Front(seq)) = Len(seq) - 1
  BY FrontInSeq
<1>2. Len(seq) - 1 \in 0 .. Len(seq)
  BY <1>1
<1> DEFINE m == Len(seq) - 1
<1>3. SubSeq(seq, 1, m) = [i \in 1 .. m |-> seq[i]]
  BY <1>2, SubSeqRestrict DEF Restrict
<1>4. Front(seq) = SubSeq(seq, 1, m)
  BY DEF Front
<1> HIDE DEF m
<1>5. \A i \in 1 .. m : Front(seq)[i] = seq[i]
  BY <1>3, <1>4
<1> QED
  BY <1>1, <1>5 DEF m

\* One more step leads from the state reached so far to the next one.
LEMMA TrajectoryAppend ==
  ASSUME NEW r, NEW s, NEW seq, NEW e, IsSeq(seq)
  PROVE  /\ \A i \in 0 .. Len(seq) : Trajectory(r, s, Append(seq, e))[i] = Trajectory(r, s, seq)[i]
         /\ Trajectory(r, s, Append(seq, e))[Len(seq) + 1] = Apply(r, Replay(r, s, seq), e)
         /\ Replay(r, s, Append(seq, e)) = Apply(r, Replay(r, s, seq), e)
<1> DEFINE more == Append(seq, e)
<1>1. /\ Len(seq) \in Nat /\ Len(more) = Len(seq) + 1
      /\ \A i \in 1 .. Len(seq) : more[i] = seq[i]
      /\ more[Len(seq) + 1] = e
  BY SeqShape, AppendIsSeq
<1> HIDE DEF more
<1>2. Len(more) \in Nat /\ Len(seq) <= Len(more)
  BY <1>1
<1>3. \A i \in 0 .. Len(seq) : Trajectory(r, s, more)[i] = Trajectory(r, s, seq)[i]
  BY <1>1, <1>2, TrajectoryPrefix
<1>4. \A i \in 1 .. Len(more) :
        Trajectory(r, s, more)[i] = Apply(r, Trajectory(r, s, more)[i - 1], more[i])
  BY <1>2, TrajectoryUnfolds
<1>5. Len(seq) + 1 \in 1 .. Len(more) /\ Len(seq) \in 0 .. Len(seq) /\ Len(seq) + 1 - 1 = Len(seq)
  BY <1>1
<1>6. Trajectory(r, s, more)[Len(seq) + 1] = Apply(r, Trajectory(r, s, more)[Len(seq)], e)
  BY <1>1, <1>4, <1>5
<1>7. Trajectory(r, s, more)[Len(seq)] = Trajectory(r, s, seq)[Len(seq)]
  BY <1>3, <1>5
<1> QED
  BY <1>1, <1>3, <1>6, <1>7 DEF Replay, more

\* One step less leads to the states before it.
LEMMA TrajectoryFront ==
  ASSUME NEW r, NEW s, NEW S, NEW seq \in Seq(S), Len(seq) # 0
  PROVE  \A i \in 0 .. Len(seq) - 1 : Trajectory(r, s, Front(seq))[i] = Trajectory(r, s, seq)[i]
<1>1. Len(seq) \in Nat /\ Len(Front(seq)) \in Nat /\ Len(Front(seq)) = Len(seq) - 1
  BY FrontEntries
<1>2. \A i \in 1 .. Len(Front(seq)) : seq[i] = Front(seq)[i]
  BY <1>1, FrontEntries
<1> QED
  BY <1>1, <1>2, TrajectoryPrefix

-----------------------------------------------------------------------------
\* Operations that are ready together are joined by no edge of the request.
LEMMA ReadyIndependent ==
  ASSUME NEW r \in Requests, NEW q \in Relaxations(r), NEW applied,
         NEW a \in ReadyCandidates(q, applied), NEW b \in ReadyCandidates(q, applied)
  PROVE  Independent(q, a, b)
<1>1. /\ a \in Nodes(q) /\ b \in Nodes(q) /\ a \notin applied /\ b \notin applied
      /\ Predecessors(q, a) \subseteq applied /\ Predecessors(q, b) \subseteq applied
  BY DEF ReadyCandidates
<1>2. <<a, b>> \notin Edges(q) /\ <<b, a>> \notin Edges(q)
  BY <1>1 DEF Predecessors
<1> QED
  BY <1>1, <1>2 DEF Independent, Edges

\* The ready list of a new frame holds ready operations.
LEMMA NewFrameReady ==
  ASSUME NEW r \in Requests, NEW q \in Relaxations(r), NEW how \in ToSet(Strategies),
         NEW applied, NEW state
  PROVE  LET f == NewFrame(q, how, applied, state)
         IN  /\ f.chosen = 0 /\ f.entry = state
             /\ \A k \in 1 .. Len(f.ready) : f.ready[k] \in ReadyCandidates(q, applied)
<1> DEFINE ready == ReadyCandidates(q, applied)
           list == SortReady(q, how, ready)
<1>1. ready \in SUBSET (1 .. q.n)
  BY DEF ReadyCandidates, Nodes
<1> HIDE DEF ready
<1>2. Cardinality(ready) \in Nat /\ list \in [1 .. Cardinality(ready) -> ready]
  BY <1>1, SortReadyLists
<1> HIDE DEF list
<1>3. Len(list) = Cardinality(ready)
  BY <1>2, FunctionInSeq
<1>4. \A k \in 1 .. Len(list) : list[k] \in ready
  BY <1>2, <1>3
<1> QED
  BY <1>4 DEF NewFrame, ready, list

\* A search that starts keeps its records.
LEMMA StartKept ==
  ASSUME NEW r \in Requests, NEW q \in Relaxations(r), NEW how \in ToSet(Strategies)
  PROVE  OrderKept(q, StartSearch(q, how)) /\ StackKept(q, StartSearch(q, how))
<1> DEFINE frame == NewFrame(q, how, {}, q.state)
           s == StartSearch(q, how)
<1>1. /\ frame.chosen = 0 /\ frame.entry = q.state
      /\ \A k \in 1 .. Len(frame.ready) : frame.ready[k] \in ReadyCandidates(q, {})
  BY NewFrameReady
<1>2. s = [stack |-> <<frame>>, applied |-> {}, order |-> <<>>, state |-> q.state,
           outcome |-> "running"]
  BY DEF StartSearch
<1> HIDE DEF frame, s
<1>3. /\ s.stack = <<frame>> /\ s.applied = {} /\ s.order = <<>> /\ s.state = q.state
  BY <1>2
<1>4. Trajectory(q, q.state, <<>>)[0] = q.state
  BY EmptyIsSeq, TrajectoryUnfolds
<1>5. Len(s.stack) = 1 /\ s.stack[1] = frame /\ Last(s.stack) = frame
  BY <1>3 DEF Last
<1>6. OrderKept(q, s)
  <2>1. ToSet(<<>>) = {}
    BY DEF ToSet
  <2> QED
    BY <1>3, <1>4, <2>1, EmptyIsSeq DEF OrderKept, Replay
<1>7. StackKept(q, s)
  BY <1>1, <1>3, <1>4, <1>5, EmptyIsSeq DEF StackKept
<1> QED
  BY <1>6, <1>7 DEF s

-----------------------------------------------------------------------------
\* Taking an operation: it becomes the last entry of the order, its siblings are
\* skipped, and the new frame starts in the state it leads to.
LEMMA CommitKept ==
  ASSUME SearchInv, OrderKept(req, search), StackKept(req, search), SearchCommit
  PROVE  OrderKept(req, search') /\ StackKept(req, search')
<1> DEFINE slot == Min(Usable)
           o == Top.ready[slot]
           applied == search.applied \cup {o}
           state == Apply(req, search.state, o)
           skip == {j \in slot + 1 .. Len(Top.ready) : Independent(req, o, Top.ready[j])}
           closed == [Top EXCEPT !.next = slot + 1, !.chosen = o, !.skipped = @ \cup skip]
           frame == NewFrame(req, strategy, applied, state)
           front == Front(search.stack)
           stack == Append(Append(front, closed), frame)
           order == search.order
           more == Append(order, o)
           n == Len(order)
           m == Len(search.stack)
           t == Trajectory(req, req.state, order)
           u == Trajectory(req, req.state, more)
<1>1. /\ Running /\ Usable # {}
      /\ search' = [search EXCEPT !.stack = stack, !.applied = applied,
                                  !.order = Append(@, o), !.state = state]
  BY DEF SearchCommit, Continues
<1>2. /\ request \in Requests /\ req \in Relaxations(request) /\ strategy \in ToSet(Strategies)
      /\ search.stack \in Seq(Frame(req)) /\ search.order \in Seq(1 .. req.n)
      /\ search = [stack |-> search.stack, applied |-> search.applied, order |-> search.order,
                   state |-> search.state, outcome |-> search.outcome]
  BY DEF SearchInv, SearchTypeOK
<1>3. /\ Top \in Frame(req) /\ m \in Nat /\ m # 0 /\ Top = search.stack[m]
      /\ Candidates \subseteq 1 .. Len(Top.ready) /\ Usable \subseteq Nat
      /\ \A k \in Candidates : Top.ready[k] \in 1 .. req.n
  BY <1>1, SlotTypes DEF Top, Last
<1>4. slot \in Candidates /\ slot \in Usable /\ slot \in Nat
  BY <1>1, <1>3, MinInSet DEF Usable
<1> HIDE DEF slot
<1>5. /\ o \in 1 .. req.n /\ o # 0 /\ slot \in 1 .. Len(Top.ready) /\ Viable(search.state, o)
      /\ slot \in Top.next .. Len(Top.ready) /\ slot \notin Top.skipped
  BY <1>3, <1>4 DEF Candidates, Usable
<1>6. Top.chosen = 0
  BY <1>3, <1>5 DEF StackKept, Spent, Top
<1>7. o \in ReadyCandidates(req, search.applied) /\ n = m - 1
      /\ \A k \in 1 .. Len(Top.ready) : Top.ready[k] \in ReadyCandidates(req, search.applied)
  BY <1>3, <1>5, <1>6 DEF StackKept, Top
<1>8. Len(Top.ready) \in Nat /\ skip = slot + 1 .. Len(Top.ready)
  <2>1. Len(Top.ready) \in Nat
    BY <1>3, EntryOfSeq DEF Frame
  <2>2. \A j \in slot + 1 .. Len(Top.ready) : j \in 1 .. Len(Top.ready)
    BY <1>4, <2>1
  <2>3. \A j \in slot + 1 .. Len(Top.ready) : Independent(req, o, Top.ready[j])
    BY <1>2, <1>7, <2>2, ReadyIndependent
  <2> HIDE DEF o
  <2> QED
    BY <2>1, <2>3
<1>9. closed.entry = Top.entry /\ closed.chosen = o /\ Spent(closed)
  <2> HIDE DEF skip
  <2>1. /\ closed.entry = Top.entry /\ closed.chosen = o /\ closed.ready = Top.ready
        /\ closed.next = slot + 1 /\ closed.skipped = Top.skipped \cup skip
    BY <1>3 DEF Frame
  <2> QED
    BY <1>8, <2>1 DEF Spent
<1>10. /\ frame.chosen = 0 /\ frame.entry = state
       /\ \A k \in 1 .. Len(frame.ready) : frame.ready[k] \in ReadyCandidates(req, applied)
  BY <1>2, NewFrameReady
<1> HIDE DEF o, skip, closed, frame
<1>11. /\ n \in Nat /\ Len(more) = n + 1 /\ more[n + 1] = o
       /\ \A i \in 1 .. n : more[i] = order[i]
       /\ \A i \in 1 .. n : order[i] \in search.applied
  <2>1. search.applied = ToSet(order)
    BY DEF OrderKept
  <2> QED
    BY <1>2, <1>5, <2>1 DEF ToSet
<1>12. /\ \A i \in 0 .. n : u[i] = t[i]
       /\ u[n + 1] = state /\ Replay(req, req.state, more) = state
  <2>1. search.state = Replay(req, req.state, order)
    BY DEF OrderKept
  <2>2. state = Apply(req, Replay(req, req.state, order), o)
    BY <2>1
  <2>3. /\ \A i \in 0 .. n : u[i] = t[i]
        /\ u[n + 1] = Apply(req, Replay(req, req.state, order), o)
        /\ Replay(req, req.state, more) = Apply(req, Replay(req, req.state, order), o)
    <3> HIDE DEF state
    <3>1. IsSeq(order)
      BY <1>2 DEF IsSeq
    <3> QED
      BY <3>1, TrajectoryAppend
  <2> HIDE DEF state, t, u, more
  <2> QED
    BY <2>2, <2>3
<1>13. /\ Len(front) = m - 1 /\ Len(stack) = m + 1
       /\ \A i \in 1 .. m - 1 : stack[i] = search.stack[i]
       /\ stack[m] = closed /\ stack[m + 1] = frame
  <2>1. IsSeq(front) /\ Len(front) = m - 1 /\ \A i \in 1 .. m - 1 : front[i] = search.stack[i]
    BY <1>2, <1>3, FrontEntries, FrontInSeq DEF IsSeq
  <2> DEFINE one == Append(front, closed)
  <2>2. /\ IsSeq(one) /\ Len(one) = m - 1 + 1 /\ one[m - 1 + 1] = closed
        /\ \A i \in 1 .. m - 1 : one[i] = front[i]
    BY <2>1, AppendIsSeq
  <2>3. m - 1 + 1 = m
    BY <1>3
  <2> HIDE DEF one
  <2>4. /\ Len(Append(one, frame)) = m + 1 /\ Append(one, frame)[m + 1] = frame
        /\ \A i \in 1 .. m : Append(one, frame)[i] = one[i]
    BY <2>2, <2>3, AppendIsSeq
  <2>5. stack = Append(one, frame)
    BY DEF one
  <2> HIDE DEF stack, front
  <2> QED
    BY <1>3, <2>1, <2>2, <2>3, <2>4, <2>5
<1>14. /\ search'.stack = stack /\ search'.applied = applied /\ search'.order = more
       /\ search'.state = state
  BY <1>1, <1>2
<1>15. /\ \A i, j \in 1 .. n : order[i] = order[j] => i = j
       /\ \A i \in 1 .. n : /\ Predecessors(req, order[i]) \subseteq Placed(order, i - 1)
                            /\ Safe(req, t[i])
       /\ search.applied = ToSet(order)
  BY DEF OrderKept
<1>16. o \notin search.applied /\ Predecessors(req, o) \subseteq search.applied
       /\ Safe(req, state)
  BY <1>5, <1>7 DEF ReadyCandidates, Viable
<1> HIDE DEF stack, more, state, t, u
<1>17. \A i \in 1 .. n + 1 : Placed(more, i - 1) = Placed(order, i - 1)
  <2>1. \A i \in 1 .. n + 1 : \A j \in 1 .. i - 1 : more[j] = order[j]
    BY <1>11
  <2> QED
    BY <2>1 DEF Placed
<1>18. Placed(order, n) = search.applied
  BY <1>2, <1>15 DEF Placed, ToSet
<1>19. OrderKept(req, search')
  <2>1. applied = ToSet(more)
    <3>1. DOMAIN more = 1 .. n + 1
      BY <1>2, <1>5, <1>11 DEF more
    <3>2. ToSet(more) = {more[i] : i \in 1 .. n + 1} /\ search.applied = {order[i] : i \in 1 .. n}
      BY <1>15, <1>18, <3>1 DEF ToSet, Placed
    <3>3. 1 .. n + 1 = 1 .. n \cup {n + 1}
      BY <1>11
    <3> QED
      BY <1>11, <3>2, <3>3
  <2>2. \A i, j \in 1 .. Len(more) : more[i] = more[j] => i = j
    <3>1. \A i \in 1 .. n + 1 : i \in 1 .. n \/ i = n + 1
      BY <1>11
    <3> QED
      BY <1>11, <1>15, <1>16, <3>1
  <2>3. \A i \in 1 .. Len(more) :
          /\ Predecessors(req, more[i]) \subseteq Placed(more, i - 1)
          /\ Safe(req, u[i])
    <3> SUFFICES ASSUME NEW i \in 1 .. n + 1
                 PROVE  /\ Predecessors(req, more[i]) \subseteq Placed(order, i - 1)
                        /\ Safe(req, u[i])
      BY <1>11, <1>17
    <3>1. CASE i \in 1 .. n
      BY <1>11, <1>12, <1>15, <3>1
    <3>2. CASE i = n + 1
      <4>1. i - 1 = n
        BY <1>11, <3>2
      <4> QED
        BY <1>11, <1>12, <1>16, <1>18, <3>2, <4>1
    <3> QED
      BY <1>11, <3>1, <3>2
  <2> QED
    BY <1>12, <1>14, <2>1, <2>2, <2>3 DEF OrderKept, u
<1>20. StackKept(req, search')
  <2>1. Last(stack) = frame
    BY <1>3, <1>13 DEF Last
  <2>2. /\ \A i \in 1 .. m : search.stack[i].entry = t[i - 1]
        /\ \A i \in 1 .. m - 1 : search.stack[i].chosen # 0
        /\ \A i \in 1 .. m : search.stack[i].chosen # 0
             => search.stack[i].chosen = order[i] /\ Spent(search.stack[i])
    BY DEF StackKept, t
  <2>3. \A i \in 1 .. m + 1 : i \in 1 .. m - 1 \/ i = m \/ i = m + 1
    BY <1>3
  <2>4. m + 1 - 1 = m /\ n + 1 = m /\ Len(more) = m
    BY <1>3, <1>7, <1>11
  <2>5. \A i \in 1 .. m : i - 1 \in 0 .. n
    BY <1>3, <1>7
  <2>6. \A i \in 1 .. m + 1 : stack[i].entry = u[i - 1]
    <3> TAKE i \in 1 .. m + 1
    <3>1. CASE i \in 1 .. m - 1
      BY SMTT(60), <1>3, <1>12, <1>13, <2>2, <2>5, <3>1
    <3>2. CASE i = m
      <4>1. m \in 1 .. m
        BY <1>3
      <4> QED
        BY <1>3, <1>9, <1>12, <1>13, <2>2, <2>5, <3>2, <4>1
    <3>3. CASE i = m + 1
      BY <1>10, <1>12, <1>13, <2>4, <3>3
    <3> QED
      BY <2>3, <3>1, <3>2, <3>3
  <2>7. \A i \in 1 .. m : stack[i].chosen = more[i] /\ stack[i].chosen # 0 /\ Spent(stack[i])
    <3> TAKE i \in 1 .. m
    <3>1. CASE i \in 1 .. m - 1
      BY <1>3, <1>7, <1>11, <1>13, <2>2, <3>1
    <3>2. CASE i = m
      BY <1>5, <1>9, <1>11, <1>13, <2>4, <3>2
    <3> QED
      BY <1>3, <3>1, <3>2
  <2>8. stack[m + 1].chosen = 0
    BY <1>10, <1>13
  <2>9. \A i \in 1 .. m + 1 : i \in 1 .. m \/ i = m + 1
    BY <1>3
  <2>10. /\ Len(stack) = m + 1 /\ search'.order = more /\ search'.stack = stack
         /\ Len(stack) - 1 = m
    BY <1>13, <1>14, <2>4
  <2>11. \A i \in 1 .. Len(stack) : stack[i].entry = Trajectory(req, req.state, more)[i - 1]
    BY <2>6, <2>10 DEF u
  <2>12. \A i \in 1 .. Len(stack) - 1 : stack[i].chosen # 0
    BY <2>7, <2>10
  <2>13. \A i \in 1 .. Len(stack) :
           stack[i].chosen # 0 => stack[i].chosen = more[i] /\ Spent(stack[i])
    BY <2>7, <2>8, <2>9, <2>10
  <2>14. Len(more) = IF frame.chosen = 0 THEN Len(stack) - 1 ELSE Len(stack)
    BY <1>10, <2>4, <2>10
  <2> QED
    BY <1>10, <1>14, <2>1, <2>11, <2>12, <2>13, <2>14 DEF StackKept
<1> QED
  BY <1>19, <1>20

\* Going back: the top frame is dropped, and with it the operation it committed
\* last, which is the last one of the order.
LEMMA BacktrackKept ==
  ASSUME SearchInv, OrderKept(req, search), StackKept(req, search), SearchBacktrack
  PROVE  OrderKept(req, search') /\ (Running' => StackKept(req, search'))
<1> DEFINE order == search.order
           n == Len(order)
           m == Len(search.stack)
           stack == Front(search.stack)
           less == IF Top.chosen = 0 THEN order ELSE Front(order)
           t == Trajectory(req, req.state, order)
           u == Trajectory(req, req.state, less)
<1>1. /\ Running
      /\ search' = [search EXCEPT
                      !.stack = Front(@), !.state = Top.entry, !.applied = @ \ {Top.chosen},
                      !.order = IF Top.chosen = 0 THEN @ ELSE Front(@),
                      !.outcome = IF Len(search.stack) = 1 THEN "exhausted" ELSE @]
  BY DEF SearchBacktrack, Continues
<1>2. /\ search.stack \in Seq(Frame(req)) /\ search.order \in Seq(1 .. req.n)
      /\ search = [stack |-> search.stack, applied |-> search.applied, order |-> search.order,
                   state |-> search.state, outcome |-> search.outcome]
  BY DEF SearchInv, SearchTypeOK
<1>3. m \in Nat /\ m # 0 /\ Top = search.stack[m]
  BY <1>1, SlotTypes DEF Top, Last
<1>4. /\ search'.stack = stack /\ search'.state = Top.entry
      /\ search'.applied = search.applied \ {Top.chosen} /\ search'.order = less
      /\ search'.outcome = IF m = 1 THEN "exhausted" ELSE search.outcome
  BY <1>1, <1>2
<1>5. /\ \A i \in 1 .. m : search.stack[i].entry = t[i - 1]
      /\ \A i \in 1 .. m - 1 : search.stack[i].chosen # 0
      /\ \A i \in 1 .. m : search.stack[i].chosen # 0
           => search.stack[i].chosen = order[i] /\ Spent(search.stack[i])
      /\ n = IF Top.chosen = 0 THEN m - 1 ELSE m
  BY DEF StackKept, Top
<1>6. /\ search.applied = ToSet(order)
      /\ \A i, j \in 1 .. n : order[i] = order[j] => i = j
      /\ \A i \in 1 .. n : /\ Predecessors(req, order[i]) \subseteq Placed(order, i - 1)
                           /\ Safe(req, t[i])
  BY DEF OrderKept
<1>7. DOMAIN order = 1 .. n /\ n \in Nat /\ \A i \in 1 .. n : order[i] \in 1 .. req.n
  BY <1>2, EntryOfSeq
<1>8. /\ less \in Seq(1 .. req.n) /\ Len(less) = m - 1
      /\ \A i \in 1 .. m - 1 : less[i] = order[i]
      /\ \A i \in 0 .. m - 1 : u[i] = t[i]
  <2>1. CASE Top.chosen = 0
    BY <1>2, <1>5, <2>1
  <2>2. CASE Top.chosen # 0
    <3>1. n = m /\ n # 0 /\ less = Front(order)
      BY <1>3, <1>5, <2>2
    <3>2. Front(order) \in Seq(1 .. req.n)
      BY <1>2, FrontInSeq
    <3>3. /\ Len(Front(order)) = m - 1 /\ \A i \in 1 .. m - 1 : Front(order)[i] = order[i]
      BY <1>2, <3>1, FrontEntries
    <3>4. \A i \in 0 .. m - 1 : Trajectory(req, req.state, Front(order))[i] = t[i]
      BY <1>2, <3>1, TrajectoryFront
    <3> QED
      BY <3>1, <3>2, <3>3, <3>4
  <2> QED
    BY <2>1, <2>2
<1>9. DOMAIN less = 1 .. m - 1
  BY <1>8, EntryOfSeq
<1> HIDE DEF less, u, t
<1>10. search.applied \ {Top.chosen} = ToSet(less)
  <2>1. ToSet(less) = {order[i] : i \in 1 .. m - 1}
    BY <1>8, <1>9 DEF ToSet
  <2>2. ToSet(order) = {order[i] : i \in 1 .. n}
    BY <1>7 DEF ToSet
  <2>3. CASE Top.chosen = 0
    <3>1. 0 \notin ToSet(order) /\ n = m - 1
      BY <1>5, <1>7, <2>2, <2>3
    <3> QED
      BY <1>6, <2>1, <2>2, <2>3, <3>1
  <2>4. CASE Top.chosen # 0
    <3>1. n = m /\ Top.chosen = order[m] /\ m \in 1 .. m
      BY <1>3, <1>5, <2>4
    <3>2. 1 .. m = 1 .. m - 1 \cup {m} /\ m \notin 1 .. m - 1 /\ 1 .. m - 1 \subseteq 1 .. m
      BY <1>3
    <3>3. \A i \in 1 .. m - 1 : order[i] # order[m]
      BY <1>6, <3>1, <3>2
    <3> QED
      BY <1>6, <2>1, <2>2, <3>1, <3>2, <3>3
  <2> QED
    BY <2>3, <2>4
<1>11. OrderKept(req, search')
  <2>1. 1 .. m - 1 \subseteq 1 .. n /\ m - 1 \in 0 .. m - 1 /\ m \in 1 .. m
    BY <1>3, <1>5
  <2>2. \A i, j \in 1 .. Len(less) : less[i] = less[j] => i = j
    BY <1>6, <1>8, <2>1
  <2>3. Top.entry = Replay(req, req.state, less)
    BY <1>3, <1>5, <1>8, <2>1 DEF Replay, u
  <2>4. \A i \in 1 .. m - 1 : Placed(less, i - 1) = Placed(order, i - 1)
    <3>1. \A i \in 1 .. m - 1 : \A j \in 1 .. i - 1 : less[j] = order[j]
      BY <1>3, <1>8
    <3> QED
      BY <3>1 DEF Placed
  <2>5. \A i \in 1 .. m - 1 : i \in 0 .. m - 1
    BY <1>3
  <2>6. \A i \in 1 .. Len(less) : /\ Predecessors(req, less[i]) \subseteq Placed(less, i - 1)
                                  /\ Safe(req, u[i])
    BY <1>6, <1>8, <2>1, <2>4, <2>5
  <2> QED
    BY <1>4, <1>10, <2>2, <2>3, <2>6 DEF OrderKept, u
<1>12. ASSUME Running' PROVE StackKept(req, search')
  <2>1. m # 1
    BY <1>4, <1>12 DEF Running
  <2>2. Len(stack) = m - 1 /\ \A i \in 1 .. m - 1 : stack[i] = search.stack[i]
    BY <1>2, <1>3, FrontEntries
  <2>3. m - 1 \in 1 .. m - 1 /\ Last(stack) = search.stack[m - 1]
    <3>1. m - 1 \in 1 .. m - 1
      BY <1>3, <2>1
    <3> HIDE DEF stack
    <3> QED
      BY <2>2, <3>1 DEF Last
  <2>4. \A i \in 1 .. m - 1 : i \in 1 .. m /\ i - 1 \in 0 .. m - 1
    BY <1>3
  <2>5. /\ \A i \in 1 .. Len(stack) : stack[i].entry = u[i - 1]
        /\ \A i \in 1 .. Len(stack) :
             stack[i].chosen # 0 /\ stack[i].chosen = less[i] /\ Spent(stack[i])
    BY <1>5, <1>8, <2>2, <2>4
  <2>6. \A i \in 1 .. Len(stack) - 1 : i \in 1 .. Len(stack)
    BY <1>3, <2>2
  <2> HIDE DEF stack
  <2> QED
    BY <1>4, <1>5, <1>8, <2>2, <2>3, <2>5, <2>6 DEF StackKept, u
<1> QED
  BY <1>11, <1>12

\* Every step of the search keeps its records.
LEMMA StepKept ==
  ASSUME SearchInv, OrderKept(req, search), StackKept(req, search), SearchStep
  PROVE  OrderKept(req, search') /\ (Running' => StackKept(req, search'))
<1>1. ASSUME NEW x, x # "running", search' = [search EXCEPT !.outcome = x]
      PROVE  OrderKept(req, search') /\ ~Running'
  <2>1. /\ search'.applied = search.applied /\ search'.order = search.order
        /\ search'.state = search.state /\ search'.outcome = x
    BY <1>1 DEF SearchInv, SearchTypeOK
  <2> QED
    BY <1>1, <2>1 DEF OrderKept, Running
<1>2. CASE SearchCancelled
  BY <1>1, <1>2 DEF SearchCancelled
<1>3. CASE SearchComplete
  BY <1>1, <1>3 DEF SearchComplete
<1>4. CASE SearchLimit
  BY <1>1, <1>4 DEF SearchLimit
<1>5. CASE SearchCommit
  BY <1>5, CommitKept
<1>6. CASE SearchBacktrack
  BY <1>6, BacktrackKept
<1> QED
  BY <1>2, <1>3, <1>4, <1>5, <1>6 DEF SearchStep

-----------------------------------------------------------------------------
\* A search begins with its first candidate and goes on by its own steps only.
LEMMA NextOrderInv == TypeInv /\ OrderInv /\ [Next]_vars => OrderInv'
<1> SUFFICES ASSUME TypeInv, OrderInv, [Next]_vars, phase' = "search"
             PROVE  OrderKept(req', search') /\ (Running' => StackKept(req', search'))
  BY DEF OrderInv
<1>1. TypeInv'
  BY NextTypeInv
<1>2. CASE StartCandidate
  <2>1. search' = StartSearch(req', strategy')
    BY <1>2 DEF StartCandidate
  <2> QED
    BY <1>1, <2>1, StartKept DEF TypeInv, PlannerInv, WorkTypeOK
<1>3. CASE Searching
  <2>1. SearchInv
    BY DEF TypeInv, PlannerInv, WorkTypeOK, SearchInv
  <2>2. OrderKept(req, search) /\ (Running => StackKept(req, search)) /\ SearchStep
    BY <1>3 DEF OrderInv, Searching
  <2>3. Running /\ UNCHANGED req
    BY <2>2 DEF SearchStep, SearchCancelled, SearchComplete, SearchLimit, SearchCommit,
           SearchBacktrack, Continues
  <2> QED
    BY <2>1, <2>2, <2>3, StepKept
<1>4. CASE RequestStop \/ Returned \/ UNCHANGED vars
  <2>1. phase = "search" /\ UNCHANGED <<req, search>>
    BY <1>4 DEF RequestStop, Returned, vars
  <2> QED
    BY <2>1 DEF OrderInv, Running
<1>5. CASE PlannerStep /\ ~StartCandidate /\ ~Searching
  <2>1. phase' # "search"
    BY <1>5 DEF PlannerStep, Admit, RefuseInput, AttemptScheduled, AttemptConverged,
           AttemptBarred, LoopEnds, LoopCancelled, LoopOutOfAttempts, OrderFound,
           SearchStopped, OrderMissing, FlushBatch, JoinBatch, SplitBatch, CheckSingle,
           FlushLast, VerifyStructure, VerifyStage, SelectPlan, SettleMain, GrowCore,
           GrowthEnds, ShrinkCore, ShrinkEnds, SettleGrow, SettleShrink, EndAttempt, Return,
           RejectCandidate, Compressing, TryWithout, CoreFinished
  <2> QED
    BY <2>1
<1> QED
  BY <1>2, <1>3, <1>4, <1>5 DEF Next

\* As many operations are applied as the order has entries.
LEMMA DistinctCount ==
  ASSUME NEW S, NEW seq \in Seq(S), \A i, j \in 1 .. Len(seq) : seq[i] = seq[j] => i = j
  PROVE  Cardinality(ToSet(seq)) = Len(seq)
<1>1. Len(seq) \in Nat /\ DOMAIN seq = 1 .. Len(seq)
  BY EntryOfSeq
<1>2. ToSet(seq) = {seq[i] : i \in 1 .. Len(seq)}
  BY <1>1 DEF ToSet
<1>3. seq \in [1 .. Len(seq) -> ToSet(seq)]
  BY <1>1, <1>2
<1>4. seq \in Bijection(1 .. Len(seq), ToSet(seq))
  BY <1>2, <1>3 DEF Bijection, Injection, Surjection, IsInjective
<1>5. IsFiniteSet(1 .. Len(seq)) /\ Cardinality(1 .. Len(seq)) = Len(seq)
  BY <1>1, FS_Interval
<1> QED
  BY <1>4, <1>5, FS_Bijection DEF ExistsBijection

\* SearchConsistent for every instance: the applied flags, the recorded order and
\* the current state of search_order never drift apart, through every commit and
\* backtrack, and every prefix of the order is safe and has its predecessors before it.
THEOREM SearchKeepsItsRecords == Spec => []SearchConsistent
<1>1. Init => TypeInv /\ OrderInv
  BY InitTypeInv DEF Init, OrderInv
<1>2. TypeInv /\ OrderInv /\ [Next]_vars => TypeInv' /\ OrderInv'
  BY NextTypeInv, NextOrderInv
<1>3. TypeInv /\ OrderInv => SearchConsistent
  <2> SUFFICES ASSUME TypeInv, OrderInv, phase = "search" PROVE SearchConsistent
    BY DEF SearchConsistent
  <2>1. search.order \in Seq(1 .. req.n) /\ OrderKept(req, search)
    BY DEF TypeInv, WorkTypeOK, SearchTypeOK, OrderInv
  <2>2. DOMAIN search.order = 1 .. Len(search.order)
    BY <2>1, EntryOfSeq
  <2>3. Cardinality(ToSet(search.order)) = Len(search.order)
    BY <2>1, DistinctCount DEF OrderKept
  <2> QED
    BY <2>1, <2>2, <2>3 DEF SearchConsistent, OrderKept, Placed
<1> QED
  BY <1>1, <1>2, <1>3, PTL DEF Spec

-----------------------------------------------------------------------------
(* The attempts of the core minimisation are bounded.                      *)

\* seq lists elements of S, none of them twice.
Lists(seq, S) ==
  seq \in Seq(S) /\ \A i, j \in 1 .. Len(seq) : seq[i] = seq[j] => i = j

\* A list of distinct elements is no longer than the set it is taken from.
LEMMA ListLength ==
  ASSUME NEW S, NEW seq, IsFiniteSet(S), Lists(seq, S)
  PROVE  Len(seq) \in Nat /\ Cardinality(S) \in Nat /\ Len(seq) <= Cardinality(S)
<1>1. seq \in Seq(S) /\ Cardinality(ToSet(seq)) = Len(seq)
  BY DistinctCount DEF Lists
<1>2. Len(seq) \in Nat /\ ToSet(seq) \in SUBSET S
  BY <1>1, EntryOfSeq DEF ToSet
<1>3. Cardinality(ToSet(seq)) <= Cardinality(S) /\ Cardinality(S) \in Nat
  BY <1>2, FS_Subset, FS_CardinalityType
<1> QED
  BY <1>1, <1>2, <1>3

\* Appending a new element keeps the entries distinct.
LEMMA ListAppend ==
  ASSUME NEW S, NEW seq, Lists(seq, S), NEW e \in S, e \notin ToSet(seq)
  PROVE  Lists(Append(seq, e), S)
<1>1. seq \in Seq(S) /\ Append(seq, e) \in Seq(S) /\ IsSeq(seq)
  BY AppendInSeq DEF Lists, IsSeq
<1>2. /\ Len(seq) \in Nat /\ DOMAIN seq = 1 .. Len(seq)
      /\ Len(Append(seq, e)) = Len(seq) + 1 /\ Append(seq, e)[Len(seq) + 1] = e
      /\ \A i \in 1 .. Len(seq) : Append(seq, e)[i] = seq[i]
  BY <1>1, SeqShape, AppendIsSeq
<1>3. \A i \in 1 .. Len(seq) : seq[i] # e
  BY <1>2 DEF ToSet
<1>4. \A i \in 1 .. Len(seq) + 1 : i \in 1 .. Len(seq) \/ i = Len(seq) + 1
  BY <1>2
<1> QED
  BY <1>1, <1>2, <1>3, <1>4 DEF Lists

\* Removing an entry keeps the others distinct and makes the list shorter by one.
LEMMA ListRemove ==
  ASSUME NEW S, NEW seq, Lists(seq, S), NEW k \in 1 .. Len(seq)
  PROVE  Lists(RemoveAt(seq, k), S) /\ Len(RemoveAt(seq, k)) = Len(seq) - 1
<1> DEFINE n == Len(seq)
           a == SubSeq(seq, 1, k - 1)
           b == SubSeq(seq, k + 1, n)
<1>1. seq \in Seq(S) /\ n \in Nat /\ k \in Nat
  BY EntryOfSeq DEF Lists
<1>2. /\ 1 \in 1 .. n + 1 /\ k - 1 \in 1 - 1 .. n
      /\ k + 1 \in 1 .. n + 1 /\ n \in k + 1 - 1 .. n
  BY <1>1
<1>3. /\ a \in Seq(S) /\ Len(a) = k - 1
      /\ \A i \in 1 .. k - 1 : a[i] = seq[i]
  <2>1. /\ a \in Seq(S) /\ Len(a) = IF 1 <= k - 1 THEN k - 1 - 1 + 1 ELSE 0
        /\ \A i \in 1 .. k - 1 - 1 + 1 : a[i] = seq[1 + i - 1]
    BY <1>1, <1>2, SubSeqProperties
  <2>2. \A i \in 1 .. k - 1 : i \in 1 .. k - 1 - 1 + 1 /\ 1 + i - 1 = i
    BY <1>1
  <2> HIDE DEF a, n
  <2> QED
    BY <1>1, <2>1, <2>2
<1>4. /\ b \in Seq(S) /\ Len(b) = n - k
      /\ \A i \in 1 .. n - k : b[i] = seq[k + i]
  <2>1. /\ b \in Seq(S) /\ Len(b) = IF k + 1 <= n THEN n - (k + 1) + 1 ELSE 0
        /\ \A i \in 1 .. n - (k + 1) + 1 : b[i] = seq[k + 1 + i - 1]
    BY <1>1, <1>2, SubSeqProperties
  <2>2. \A i \in 1 .. n - k : i \in 1 .. n - (k + 1) + 1 /\ k + 1 + i - 1 = k + i
    BY <1>1
  <2> HIDE DEF b, n
  <2> QED
    BY <1>1, <2>1, <2>2 DEF n
<1> DEFINE c == a \o b
<1> HIDE DEF a, b
<1>5. /\ c \in Seq(S) /\ Len(c) = n - 1
      /\ \A i \in 1 .. n - 1 : c[i] = IF i < k THEN seq[i] ELSE seq[i + 1]
  <2>1. /\ c \in Seq(S) /\ Len(c) = Len(a) + Len(b)
        /\ \A i \in 1 .. Len(a) + Len(b) : c[i] = IF i <= Len(a) THEN a[i] ELSE b[i - Len(a)]
    BY <1>3, <1>4, ConcatProperties
  <2>2. Len(a) + Len(b) = n - 1
    BY <1>1, <1>3, <1>4
  <2>3. ASSUME NEW i \in 1 .. n - 1
        PROVE  c[i] = IF i < k THEN seq[i] ELSE seq[i + 1]
    <3>1. CASE i < k
      <4>1. i <= Len(a) /\ i \in 1 .. k - 1 /\ i \in 1 .. Len(a) + Len(b)
        BY <1>1, <1>3, <2>2, <3>1
      <4> QED
        BY <1>3, <2>1, <3>1, <4>1
    <3>2. CASE ~(i < k)
      <4>1. ~(i <= Len(a)) /\ i - Len(a) \in 1 .. n - k /\ i \in 1 .. Len(a) + Len(b)
        BY <1>1, <1>3, <2>2, <3>2
      <4>2. c[i] = b[i - Len(a)] /\ b[i - Len(a)] = seq[k + (i - Len(a))]
        BY <1>4, <2>1, <4>1
      <4>3. k + (i - Len(a)) = i + 1
        BY <1>1, <1>3
      <4> QED
        BY <3>2, <4>2, <4>3
    <3> QED
      BY <3>1, <3>2
  <2> HIDE DEF c
  <2> QED
    BY <2>1, <2>2, <2>3
<1>6. RemoveAt(seq, k) = c
  BY DEF RemoveAt, a, b
<1> HIDE DEF c
<1>7. \A i, j \in 1 .. n : seq[i] = seq[j] => i = j
  BY DEF Lists
<1>8. \A i \in 1 .. n - 1 : i \in 1 .. n /\ i + 1 \in 1 .. n
  BY <1>1
<1>9. \A i, j \in 1 .. n - 1 : c[i] = c[j] => i = j
  BY <1>1, <1>5, <1>7, <1>8
<1> QED
  BY <1>5, <1>6, <1>9 DEF Lists

\* A trial of the core minimisation is being planned.
Trying == core.mode # "off" /\ phase \notin {"core", "done"}

\* What is disabled are obligations of the caller, each once. Growing stays within its
\* budget; shrinking tries every obligation that was disabled when it began once, so the
\* trials made and those to come never exceed the budget by more than there are.
CoreInv ==
  LET budget == request.limits.core + Cardinality(request.enforced)
  IN  /\ Lists(core.disabled, request.enforced)
      /\ Trying => Lists(core.trial, request.enforced)
      /\ core.attempts \in Nat /\ core.attempts <= budget
      /\ core.mode \in {"off", "grow"} => core.attempts <= request.limits.core
      /\ core.mode = "shrink" /\ phase # "done" =>
           /\ core.next \in 1 .. Len(core.disabled) + 1
           /\ Trying => /\ core.next <= Len(core.disabled)
                        /\ Len(core.trial) = Len(core.disabled) - 1
           /\ core.attempts + Len(core.disabled) - core.next + (IF Trying THEN 0 ELSE 1) <= budget

\* The budget of the minimisation and the obligations it works on.
LEMMA CoreBudget ==
  ASSUME request \in Requests
  PROVE  /\ request.limits.core \in Nat /\ Cardinality(request.enforced) \in Nat
         /\ IsFiniteSet(request.enforced) /\ request.enforced \subseteq Nat
         /\ Lists(<<>>, request.enforced)
<1>1. request.limits.core \in Nat /\ IsFiniteSet(request.enforced) /\ request.enforced \subseteq Nat
  BY RequestAssumption
<1>2. Cardinality(request.enforced) \in Nat
  BY <1>1, FS_CardinalityType
<1>3. Lists(<<>>, request.enforced)
  BY EmptyIsSeq DEF Lists
<1> QED
  BY <1>1, <1>2, <1>3

\* A trial is charged once.
LEMMA TrialCharged ==
  ASSUME PlannerInv, CoreInv, NEW disabled, NEW next, TryWithout(disabled, next)
  PROVE  /\ core'.mode = core.mode /\ core'.disabled = core.disabled /\ core'.trial = disabled
         /\ core'.next = next /\ phase' = "begin"
         /\ core'.attempts \in Nat /\ core'.attempts <= core.attempts + 1
<1> DEFINE T == {core.attempts + 1, AttemptBound}
<1>1. T \subseteq Nat /\ T # {} /\ core.attempts + 1 \in T
  BY CoreBudget DEF PlannerInv, CoreInv, AttemptBound
<1> HIDE DEF T
<1>2. Min(T) \in Nat /\ Min(T) <= core.attempts + 1
  BY <1>1, MinInSet
<1>3. /\ core'.attempts = Min(T) /\ phase' = "begin"
      /\ core'.mode = core.mode /\ core'.disabled = core.disabled /\ core'.trial = disabled
      /\ core'.next = next
  <2>1. core' = [core EXCEPT !.trial = disabled, !.next = next, !.attempts = Min(T)]
        /\ phase' = "begin"
    BY DEF TryWithout, T
  <2> QED
    BY <2>1 DEF PlannerInv
<1> QED
  BY <1>2, <1>3

\* Every step keeps the account of the trials.
LEMMA NextCoreInv == PlannerInv /\ CoreInv /\ [Next]_vars => CoreInv'
<1> SUFFICES ASSUME PlannerInv, CoreInv, [Next]_vars PROVE CoreInv'
  OBVIOUS
<1> DEFINE budget == request.limits.core + Cardinality(request.enforced)
           disabled == core.disabled
<1>0. /\ UNCHANGED request
      /\ core = [mode |-> core.mode, disabled |-> core.disabled, trial |-> core.trial,
                 next |-> core.next, attempts |-> core.attempts, code |-> core.code]
      /\ request.limits.core \in Nat /\ Cardinality(request.enforced) \in Nat
      /\ IsFiniteSet(request.enforced) /\ request.enforced \subseteq Nat
      /\ Lists(<<>>, request.enforced) /\ budget \in Nat
  BY NextRequest, CoreBudget DEF PlannerInv, vars
<1>1. /\ Lists(disabled, request.enforced) /\ Len(disabled) \in Nat
      /\ Len(disabled) <= Cardinality(request.enforced)
  BY <1>0, ListLength DEF CoreInv
<1>2. ASSUME UNCHANGED core, phase \notin {"core", "done"}, phase' \notin {"core", "done"}
      PROVE  CoreInv'
  BY <1>0, <1>2 DEF CoreInv, Trying
<1>3. ASSUME UNCHANGED <<core, phase>> PROVE CoreInv'
  BY <1>0, <1>3 DEF CoreInv, Trying
<1>4. ASSUME phase' = "done", core'.mode = core.mode, core'.attempts = core.attempts,
             Lists(core'.disabled, request.enforced)
      PROVE  CoreInv'
  BY <1>0, <1>4 DEF CoreInv, Trying
<1>5. CASE GrowCore
  <2> DEFINE c == Min(Untried)
  <2>1. c \in Untried
    <3>1. Untried \subseteq Nat /\ Untried # {}
      BY <1>0, <1>5 DEF GrowCore, MayGrow, Untried
    <3> QED
      BY <3>1, MinInSet
  <2> HIDE DEF c
  <2>2. Lists(Append(disabled, c), request.enforced)
    BY <1>1, <2>1, ListAppend DEF Untried
  <2>3. TryWithout(Append(disabled, c), c) /\ core.mode = "grow"
        /\ core.attempts < request.limits.core
    BY <1>5 DEF GrowCore, MayGrow, c
  <2>4. /\ core'.mode = "grow" /\ core'.disabled = disabled /\ core'.trial = Append(disabled, c)
        /\ core'.attempts \in Nat /\ core'.attempts <= core.attempts + 1
    BY <2>3, TrialCharged
  <2>5. core.attempts \in Nat
    BY DEF CoreInv
  <2>6. core'.attempts <= request.limits.core /\ core'.attempts <= budget
    BY <1>0, <2>3, <2>4, <2>5
  <2> QED
    BY <1>0, <1>1, <2>2, <2>4, <2>6 DEF CoreInv, Trying
<1>6. CASE GrowthEnds
  <2>1. CASE disabled = <<>>
    <3>1. phase' = "done" /\ core' = [core EXCEPT !.disabled = <<>>]
      BY <1>6, <2>1 DEF GrowthEnds, CoreFinished, Return
    <3> QED
      BY <1>0, <1>4, <3>1
  <2>2. CASE disabled # <<>>
    <3>1. core' = [core EXCEPT !.mode = "shrink", !.next = 1] /\ phase' = phase
          /\ phase = "core" /\ core.mode = "grow"
      BY <1>6, <2>2 DEF GrowthEnds
    <3>2. /\ core'.mode = "shrink" /\ core'.next = 1 /\ core'.disabled = disabled
          /\ core'.attempts = core.attempts
      BY <1>0, <3>1
    <3>3. core.attempts \in Nat /\ core.attempts <= request.limits.core /\ core.attempts <= budget
      BY <3>1 DEF CoreInv
    <3>4. core.attempts + Len(disabled) - 1 + 1 <= budget /\ 1 \in 1 .. Len(disabled) + 1
      BY <1>0, <1>1, <3>3
    <3> QED
      BY <1>0, <1>1, <3>1, <3>2, <3>3, <3>4 DEF CoreInv, Trying
  <2> QED
    BY <2>1, <2>2
<1>7. CASE ShrinkCore
  <2> DEFINE rest == RemoveAt(disabled, core.next)
  <2>1. /\ TryWithout(rest, core.next) /\ core.mode = "shrink" /\ phase = "core"
        /\ core.next <= Len(disabled)
    BY <1>7 DEF ShrinkCore
  <2>2. /\ core.next \in 1 .. Len(disabled) + 1 /\ core.attempts \in Nat
        /\ core.attempts + Len(disabled) - core.next + 1 <= budget
    BY <2>1 DEF CoreInv, Trying
  <2>3. core.next \in 1 .. Len(disabled)
    BY <1>1, <2>1, <2>2
  <2>4. Lists(rest, request.enforced) /\ Len(rest) = Len(disabled) - 1
    BY <1>1, <2>3, ListRemove
  <2> HIDE DEF rest
  <2>5. /\ core'.mode = "shrink" /\ core'.disabled = disabled /\ core'.trial = rest
        /\ core'.next = core.next /\ phase' = "begin"
        /\ core'.attempts \in Nat /\ core'.attempts <= core.attempts + 1
    BY <2>1, TrialCharged
  <2>6. core'.attempts + Len(disabled) - core.next + 0 <= budget /\ core'.attempts <= budget
    BY <1>0, <1>1, <2>2, <2>3, <2>5
  <2> QED
    BY <1>0, <1>1, <2>1, <2>2, <2>4, <2>5, <2>6 DEF CoreInv, Trying
<1>8. CASE ShrinkEnds
  <2>1. phase' = "done" /\ core' = [core EXCEPT !.disabled = disabled]
    BY <1>8 DEF ShrinkEnds, CoreFinished, Return
  <2> QED
    BY <1>0, <1>1, <1>4, <2>1
<1>9. CASE SettleGrow
  <2>1. CASE Cancelled
    <3>1. phase' = "done" /\ core' = [core EXCEPT !.disabled = <<>>]
      BY <1>9, <2>1 DEF SettleGrow, CoreFinished, Return
    <3> QED
      BY <1>0, <1>4, <3>1
  <2>2. CASE ~Cancelled
    <3>1. /\ phase' = "core" /\ core.mode = "grow" /\ phase = "settle"
          /\ core' = IF Succeeded THEN [core EXCEPT !.disabled = core.trial, !.next = 1]
                     ELSE [core EXCEPT !.next = core.next + 1]
      BY <1>9, <2>2 DEF SettleGrow
    <3>2. Lists(core.trial, request.enforced)
      BY <3>1 DEF CoreInv, Trying
    <3>3. /\ core'.mode = "grow" /\ core'.attempts = core.attempts
          /\ core'.disabled \in {disabled, core.trial}
      BY <1>0, <3>1
    <3> QED
      BY <1>0, <1>1, <3>1, <3>2, <3>3 DEF CoreInv, Trying
  <2> QED
    BY <2>1, <2>2
<1>10. CASE SettleShrink
  <2>1. CASE Cancelled
    <3>1. phase' = "done" /\ core' = [core EXCEPT !.disabled = disabled]
      BY <1>10, <2>1 DEF SettleShrink, CoreFinished, Return
    <3> QED
      BY <1>0, <1>1, <1>4, <3>1
  <2>2. CASE ~Cancelled
    <3>1. /\ phase' = "core" /\ core.mode = "shrink" /\ phase = "settle"
          /\ core' = IF Succeeded THEN [core EXCEPT !.disabled = core.trial]
                     ELSE [core EXCEPT !.next = core.next + 1]
      BY <1>10, <2>2 DEF SettleShrink
    <3>2. /\ Lists(core.trial, request.enforced) /\ Len(core.trial) = Len(disabled) - 1
          /\ core.next \in 1 .. Len(disabled) + 1 /\ core.next <= Len(disabled)
          /\ core.attempts \in Nat /\ core.attempts <= budget
          /\ core.attempts + Len(disabled) - core.next + 0 <= budget
      BY <3>1 DEF CoreInv, Trying
    <3>3. core'.mode = "shrink" /\ core'.attempts = core.attempts
      BY <1>0, <3>1
    <3>4. \/ core'.disabled = core.trial /\ core'.next = core.next
          \/ core'.disabled = disabled /\ core'.next = core.next + 1
      BY <1>0, <3>1
    <3>5. /\ Lists(core'.disabled, request.enforced)
          /\ core'.next \in 1 .. Len(core'.disabled) + 1
          /\ core'.attempts + Len(core'.disabled) - core'.next + 1 <= budget
      BY SMTT(60), <1>0, <1>1, <3>2, <3>3, <3>4
    <3> QED
      BY <1>0, <3>1, <3>2, <3>3, <3>5 DEF CoreInv, Trying
  <2> QED
    BY <2>1, <2>2
<1>11. CASE SettleMain
  <2>1. CASE Succeeded \/ ~(attempt.code \in OrderingFailures /\ request.enforced # {})
    <3>1. phase' = "done" /\ core' = core
      BY <1>11, <2>1 DEF SettleMain, Return
    <3> QED
      BY <1>0, <1>1, <1>4, <3>1
  <2>2. CASE ~Succeeded /\ attempt.code \in OrderingFailures /\ request.enforced # {}
    <3>1. core' = [NoCore EXCEPT !.mode = "grow", !.code = attempt.code] /\ phase' = "core"
      BY <1>11, <2>2 DEF SettleMain
    <3>2. core'.mode = "grow" /\ core'.disabled = <<>> /\ core'.attempts = 0
      BY <3>1 DEF NoCore
    <3> QED
      BY <1>0, <3>1, <3>2 DEF CoreInv, Trying
  <2> QED
    BY <2>1, <2>2
<1>12. CASE RefuseInput
  <2>1. phase' = "done" /\ core' = core
    BY <1>12 DEF RefuseInput, Return
  <2> QED
    BY <1>0, <1>1, <1>4, <2>1
<1>13. CASE RequestStop \/ Returned \/ UNCHANGED vars
  <2>1. UNCHANGED <<core, phase>>
    BY <1>13 DEF RequestStop, Returned, vars
  <2> QED
    BY <1>3, <2>1
<1>14. CASE /\ PlannerStep
            /\ ~(GrowCore \/ GrowthEnds \/ ShrinkCore \/ ShrinkEnds)
            /\ ~(SettleGrow \/ SettleShrink \/ SettleMain \/ RefuseInput)
  <2>1. UNCHANGED core /\ phase \notin {"core", "done"} /\ phase' \notin {"core", "done"}
    BY <1>14 DEF PlannerStep, Admit, AttemptScheduled, AttemptConverged, AttemptBarred,
           LoopEnds, LoopCancelled, LoopOutOfAttempts, StartCandidate, Searching, OrderFound,
           SearchStopped, OrderMissing, FlushBatch, JoinBatch, SplitBatch, CheckSingle,
           FlushLast, VerifyStructure, VerifyStage, SelectPlan, EndAttempt, RejectCandidate,
           Compressing, compressUnchanged
  <2> QED
    BY <1>2, <2>1
<1> QED
  BY <1>5, <1>6, <1>7, <1>8, <1>9, <1>10, <1>11, <1>12, <1>13, <1>14 DEF Next

\* minimise_blocking_core, whose second pass checks no budget although docs/CLI.md:629 says
\* the core then stops shrinking, overruns max_core_minimisation_attempts by at most one
\* attempt per obligation.
THEOREM CoreOverrunIsBounded == Spec => []CoreOverrunBounded
<1>1. Init => CoreInv
  <2> SUFFICES ASSUME Init PROVE CoreInv
    OBVIOUS
  <2>1. /\ request \in Requests /\ phase = "admit" /\ core.mode = "off" /\ core.disabled = <<>>
        /\ core.attempts = 0
    BY DEF Init, NoCore
  <2> QED
    BY <2>1, CoreBudget DEF CoreInv, Trying
<1>2. CoreInv => CoreOverrunBounded
  BY DEF CoreInv, CoreOverrunBounded
<1> QED
  BY <1>1, <1>2, NextCoreInv, PlannerInvariant, PTL DEF Spec

-----------------------------------------------------------------------------
(* A published plan carries out the whole change.                          *)

\* What is placed in a list of stages.
StagedOps(stages) == UNION {ToSet(stages[k].steps) : k \in 1 .. Len(stages)}

\* The stages carry out every operation of r and no other, and none is too wide.
Complete(r, stages) ==
  /\ StagedOps(stages) = Nodes(r)
  /\ \A k \in 1 .. Len(stages) : Len(stages[k].steps) <= r.limits.width

\* The order is cut up to the operation the compression is at: what comes before it
\* is in a stage or in the batch, and nothing else is.
Cut(r, order, s) ==
  /\ StagedOps(s.stages) \cup ToSet(s.batch)
       = Placed(order, IF s.at = "single" THEN s.pos ELSE s.pos - 1)
  /\ s.at = "single" => s.batch = <<order[s.pos]>>
  /\ s.pos \in 1 .. Len(order) + 1
  /\ s.at # "next" => s.pos <= Len(order)
  /\ Len(s.batch) <= r.limits.width
  /\ \A k \in 1 .. Len(s.stages) : Len(s.stages[k].steps) <= r.limits.width

\* The inductive invariant: no operation gets lost on the way from the order into the
\* stages of a published plan.
CoverInv ==
  /\ phase \notin {"admit", "done"} => request.admit = "ok"
  /\ phase = "search" /\ search.outcome = "found" => search.applied = Nodes(req)
  /\ phase = "compress" => ToSet(search.order) = Nodes(req) /\ Cut(req, search.order, sched)
  /\ phase \in {"verify", "replay"} => Complete(req, sched.stages)
  /\ phase \in {"candidate", "search", "compress", "verify", "replay"} =>
       pick.best = Nothing \/ Complete(req, pick.best.stages)
  /\ phase = "settle" /\ core.mode = "off" =>
       attempt.kind = "failed" \/ Complete(req, attempt.stages)
  /\ phase = "done" => result.kind = "refusal" \/ Complete(request, result.stages)

\* Sorting a batch by identity neither loses nor repeats an operation.
LEMMA SortByIdKeeps ==
  ASSUME NEW r \in Requests, NEW q \in Relaxations(r), NEW batch \in Seq(1 .. q.n)
  PROVE  /\ SortById(q, batch) \in Seq(1 .. q.n)
         /\ Len(SortById(q, batch)) = Len(batch)
         /\ ToSet(SortById(q, batch)) = ToSet(batch)
<1> DEFINE p == CanonicalSlots(q, batch)
           n == Len(batch)
           sorted == SortById(q, batch)
<1>1. /\ n \in Nat /\ DOMAIN batch = 1 .. n /\ IsSeq(batch)
  BY EntryOfSeq DEF IsSeq
<1>2. p \in [1 .. n -> 1 .. n] /\ \A i, j \in 1 .. n : p[i] = p[j] => i = j
  BY CanonicalSlotsOrder DEF SlotOrders, IsInjective
<1>3. sorted = Interleaving(batch, p)
  BY DEF SortById
<1> HIDE DEF p, sorted
<1>4. IsSeq(sorted) /\ Len(sorted) = n /\ DOMAIN sorted = 1 .. n
  BY <1>1, <1>3, InterleavingIsSeq, SeqShape
<1>5. \A i \in 1 .. n : sorted[i] = batch[p[i]]
  BY <1>1, <1>3 DEF Interleaving
<1>6. \A k \in 1 .. n : \E i \in 1 .. n : p[i] = k
  <2>1. p \in Injection(1 .. n, 1 .. n)
    BY <1>2 DEF Injection, IsInjective
  <2>2. IsFiniteSet(1 .. n)
    BY <1>1, FS_Interval
  <2>3. p \in Surjection(1 .. n, 1 .. n)
    BY <2>1, <2>2, FS_Injection
  <2> QED
    BY <2>3 DEF Surjection
<1>7. ToSet(sorted) = {sorted[i] : i \in 1 .. n} /\ ToSet(batch) = {batch[i] : i \in 1 .. n}
  BY <1>1, <1>4 DEF ToSet
<1>8. \A i \in 1 .. n : sorted[i] \in {batch[k] : k \in 1 .. n}
  BY <1>2, <1>5
<1>9. \A k \in 1 .. n : batch[k] \in {sorted[i] : i \in 1 .. n}
  BY <1>5, <1>6
<1>10. ToSet(sorted) = ToSet(batch)
  BY <1>7, <1>8, <1>9
<1> QED
  BY <1>4, <1>10, SortByIdInSeq DEF sorted

\* A new stage adds its operations.
LEMMA StageAdds ==
  ASSUME NEW stages, NEW stage, IsSeq(stages)
  PROVE  /\ StagedOps(Append(stages, stage)) = StagedOps(stages) \cup ToSet(stage.steps)
         /\ \A w : /\ \A k \in 1 .. Len(stages) : Len(stages[k].steps) <= w
                   /\ Len(stage.steps) <= w
                   => \A k \in 1 .. Len(Append(stages, stage)) :
                        Len(Append(stages, stage)[k].steps) <= w
<1> DEFINE n == Len(stages)
           more == Append(stages, stage)
<1>1. /\ n \in Nat /\ Len(more) = n + 1 /\ more[n + 1] = stage
      /\ \A i \in 1 .. n : more[i] = stages[i]
  BY SeqShape, AppendIsSeq
<1> HIDE DEF more
<1>2. \A k \in 1 .. n + 1 : k \in 1 .. n \/ k = n + 1
  BY <1>1
<1>3. n + 1 \in 1 .. n + 1 /\ \A k \in 1 .. n : k \in 1 .. n + 1
  BY <1>1
<1>4. StagedOps(more) = StagedOps(stages) \cup ToSet(stage.steps)
  <2>1. ASSUME NEW o \in StagedOps(more) PROVE o \in StagedOps(stages) \cup ToSet(stage.steps)
    <3>1. PICK k \in 1 .. n + 1 : o \in ToSet(more[k].steps)
      BY <1>1, <2>1 DEF StagedOps
    <3> QED
      BY <1>1, <1>2, <3>1 DEF StagedOps
  <2>2. ASSUME NEW o \in StagedOps(stages) PROVE o \in StagedOps(more)
    <3>1. PICK k \in 1 .. n : o \in ToSet(stages[k].steps)
      BY <2>2 DEF StagedOps
    <3>2. o \in ToSet(more[k].steps) /\ k \in 1 .. Len(more)
      BY <1>1, <1>3, <3>1
    <3> QED
      BY <3>2 DEF StagedOps
  <2>3. ToSet(stage.steps) \subseteq StagedOps(more)
    BY <1>1, <1>3 DEF StagedOps
  <2> QED
    BY <2>1, <2>2, <2>3
<1> QED
  BY <1>1, <1>2, <1>4 DEF more

\* A batch that is flushed is staged and not lost.
LEMMA FlushCovers ==
  ASSUME TypeInv, phase = "compress", Cut(req, search.order, sched),
         NEW permutations, NEW batch, NEW at, Flush(permutations, batch, at)
  PROVE  /\ sched'.pos = sched.pos /\ sched'.batch = batch /\ sched'.at = at
         /\ StagedOps(sched'.stages) = StagedOps(sched.stages) \cup ToSet(sched.batch)
         /\ \A k \in 1 .. Len(sched'.stages) : Len(sched'.stages[k].steps) <= req.limits.width
         /\ \E stage : /\ sched'.stages = Append(sched.stages, stage)
                      /\ ToSet(stage.steps) = ToSet(sched.batch)
<1> DEFINE steps == SortById(req, sched.batch)
           stage == [steps |-> steps, basis |-> sched.state, permutations |-> permutations]
<1>1. /\ sched = [pos |-> sched.pos, batch |-> sched.batch, at |-> sched.at,
                  state |-> sched.state, stages |-> sched.stages]
      /\ sched.batch \in Seq(1 .. req.n) /\ IsSeq(sched.stages)
      /\ request \in Requests /\ req \in Relaxations(request)
  BY ScheduleParts DEF TypeInv, WorkTypeOK, PlannerInv, Scheduled
<1>2. Len(steps) = Len(sched.batch) /\ ToSet(steps) = ToSet(sched.batch)
  BY <1>1, SortByIdKeeps
<1>3. sched' = [sched EXCEPT !.batch = batch, !.at = at,
                             !.state = Replay(req, sched.state, steps),
                             !.stages = Append(sched.stages, stage)]
  BY DEF Flush
<1> HIDE DEF steps
<1>4. stage.steps = steps
  OBVIOUS
<1> HIDE DEF stage
<1>5. /\ sched'.pos = sched.pos /\ sched'.batch = batch /\ sched'.at = at
      /\ sched'.stages = Append(sched.stages, stage)
  BY <1>1, <1>3
<1>6. StagedOps(sched'.stages) = StagedOps(sched.stages) \cup ToSet(sched.batch)
  BY <1>1, <1>2, <1>4, <1>5, StageAdds
<1>7. \A k \in 1 .. Len(sched'.stages) : Len(sched'.stages[k].steps) <= req.limits.width
  BY <1>1, <1>2, <1>4, <1>5, StageAdds DEF Cut
<1> QED
  BY <1>2, <1>4, <1>5, <1>6, <1>7

\* One more operation of the order.
LEMMA PlacedNext ==
  ASSUME NEW order, NEW i, i \in Nat
  PROVE  Placed(order, i + 1) = Placed(order, i) \cup {order[i + 1]}
<1>1. \A j \in 1 .. i + 1 : j \in 1 .. i \/ j = i + 1
  OBVIOUS
<1>2. i + 1 \in 1 .. i + 1 /\ \A j \in 1 .. i : j \in 1 .. i + 1
  OBVIOUS
<1> QED
  BY <1>1, <1>2 DEF Placed

\* What the actions of the compression rely on.
LEMMA CutFacts ==
  ASSUME TypeInv, CoverInv, phase = "compress"
  PROVE  /\ sched = [pos |-> sched.pos, batch |-> sched.batch, at |-> sched.at,
                     state |-> sched.state, stages |-> sched.stages]
         /\ sched.pos \in Nat \ {0} /\ sched.pos - 1 \in Nat /\ Len(search.order) \in Nat
         /\ IsSeq(sched.batch) /\ Len(sched.batch) \in Nat
         /\ req.limits.width \in Nat \ {0}
         /\ Cut(req, search.order, sched) /\ ToSet(search.order) = Nodes(req)
         /\ Placed(search.order, sched.pos)
              = Placed(search.order, sched.pos - 1) \cup {search.order[sched.pos]}
<1>1. /\ sched = [pos |-> sched.pos, batch |-> sched.batch, at |-> sched.at,
                  state |-> sched.state, stages |-> sched.stages]
      /\ sched.pos \in Nat \ {0} /\ sched.batch \in Seq(1 .. req.n)
      /\ search.order \in Seq(1 .. req.n)
      /\ request \in Requests /\ req \in Relaxations(request)
  BY ScheduleParts DEF TypeInv, WorkTypeOK, PlannerInv, SearchTypeOK
<1>2. sched.pos - 1 \in Nat /\ sched.pos - 1 + 1 = sched.pos
  BY <1>1
<1>3. Len(search.order) \in Nat /\ Len(sched.batch) \in Nat /\ IsSeq(sched.batch)
  BY <1>1, EntryOfSeq DEF IsSeq
<1>4. req.limits = request.limits /\ request.limits.width \in Nat
  BY <1>1, RequestFacts
<1>5. request.limits.width # 0
  BY <1>1, CodeAssumption DEF CoverInv
<1>6. Placed(search.order, sched.pos)
        = Placed(search.order, sched.pos - 1) \cup {search.order[sched.pos]}
  BY <1>2, PlacedNext
<1>7. Cut(req, search.order, sched) /\ ToSet(search.order) = Nodes(req)
  BY DEF CoverInv
<1> QED
  BY <1>1, <1>2, <1>3, <1>4, <1>5, <1>6, <1>7

\* Every action of the compression keeps the cut, or rejects the candidate, and the last
\* one leaves stages that carry out the whole change.
LEMMA CompressCovers ==
  ASSUME TypeInv, CoverInv, FlushBatch \/ JoinBatch \/ SplitBatch \/ CheckSingle \/ FlushLast
  PROVE  \/ phase' = "candidate" /\ UNCHANGED sched /\ pick'.best = pick.best
         \/ phase' = "compress" /\ Cut(req, search.order, sched') /\ UNCHANGED pick
         \/ phase' = "verify" /\ Complete(req, sched'.stages) /\ UNCHANGED pick
<1> DEFINE order == search.order
           width == req.limits.width
<1>1. phase = "compress" /\ compressUnchanged
  BY DEF FlushBatch, JoinBatch, SplitBatch, CheckSingle, FlushLast, Compressing
<1>2. /\ sched = [pos |-> sched.pos, batch |-> sched.batch, at |-> sched.at,
                  state |-> sched.state, stages |-> sched.stages]
      /\ sched.pos \in Nat \ {0} /\ sched.pos - 1 \in Nat /\ Len(order) \in Nat
      /\ IsSeq(sched.batch) /\ Len(sched.batch) \in Nat
      /\ width \in Nat \ {0}
      /\ Cut(req, order, sched) /\ ToSet(order) = Nodes(req)
      /\ Placed(order, sched.pos) = Placed(order, sched.pos - 1) \cup {order[sched.pos]}
  BY <1>1, CutFacts
<1>3. ASSUME NEW limit, RejectCandidate(limit)
      PROVE  phase' = "candidate" /\ pick'.best = pick.best
  BY <1>3 DEF RejectCandidate, TypeInv, PlannerInv
<1>4. ASSUME NEW permutations, NEW batch, NEW at, Flush(permutations, batch, at)
      PROVE  /\ sched'.pos = sched.pos /\ sched'.batch = batch /\ sched'.at = at
             /\ StagedOps(sched'.stages) = StagedOps(sched.stages) \cup ToSet(sched.batch)
             /\ \A k \in 1 .. Len(sched'.stages) : Len(sched'.stages[k].steps) <= width
  BY <1>1, <1>2, <1>4, FlushCovers
<1>5. ToSet(<<>>) = {} /\ Len(<<>>) = 0
  BY EmptyIsSeq, SeqShape DEF ToSet
<1>6. \A o : ToSet(<<o>>) = {o} /\ Len(<<o>>) = 1
  <2> TAKE o
  <2>1. Len(<<o>>) = 1 /\ DOMAIN <<o>> = 1 .. 1 /\ <<o>>[1] = o
    BY SingletonIsSeq, SeqShape
  <2> QED
    BY <2>1 DEF ToSet
<1>7. CASE FlushBatch
  <2>1. CASE Check(sched.batch).verdict = "ok"
    <3>1. /\ Flush(Check(sched.batch).permutations, <<>>, "next")
          /\ UNCHANGED <<phase, pick>> /\ sched.at = "next" /\ sched.pos <= Len(order)
      BY <1>7, <2>1 DEF FlushBatch, Compressing, Pending
    <3>2. Cut(req, order, sched')
      BY <1>2, <1>4, <1>5, <3>1 DEF Cut
    <3> QED
      BY <1>1, <3>1, <3>2
  <2>2. CASE Check(sched.batch).verdict # "ok"
    BY <1>3, <1>7, <2>2 DEF FlushBatch
  <2> QED
    BY <2>1, <2>2
<1>8. CASE JoinBatch
  <2> DEFINE trial == Append(sched.batch, Operation)
  <2>0. sched.at = "next" /\ sched.pos <= Len(order) /\ ~MustFlush
    BY <1>8 DEF JoinBatch, Compressing, Pending
  <2>1. CASE Check(trial).verdict = "ok"
    <3>1. sched' = [sched EXCEPT !.batch = trial, !.pos = sched.pos + 1]
          /\ UNCHANGED <<phase, pick>>
      BY <1>8, <2>1 DEF JoinBatch
    <3>2. /\ Len(trial) = Len(sched.batch) + 1
          /\ ToSet(trial) = ToSet(sched.batch) \cup {order[sched.pos]}
      <4>1. /\ IsSeq(trial) /\ Len(trial) = Len(sched.batch) + 1
            /\ \A i \in 1 .. Len(sched.batch) : trial[i] = sched.batch[i]
            /\ trial[Len(sched.batch) + 1] = order[sched.pos]
        BY <1>2, AppendIsSeq DEF Operation
      <4> HIDE DEF trial
      <4>2. /\ DOMAIN trial = 1 .. Len(sched.batch) + 1
            /\ DOMAIN sched.batch = 1 .. Len(sched.batch)
        BY <1>2, <4>1, SeqShape
      <4>3. \A i \in 1 .. Len(sched.batch) + 1 :
              i \in 1 .. Len(sched.batch) \/ i = Len(sched.batch) + 1
        BY <1>2
      <4>4. /\ Len(sched.batch) + 1 \in 1 .. Len(sched.batch) + 1
            /\ \A i \in 1 .. Len(sched.batch) : i \in 1 .. Len(sched.batch) + 1
        BY <1>2
      <4> QED
        BY <4>1, <4>2, <4>3, <4>4 DEF ToSet
    <3>3. Len(sched.batch) + 1 <= width
      <4>1. CASE sched.batch = <<>>
        BY <1>2, <1>5, <4>1
      <4>2. CASE sched.batch # <<>>
        BY <1>2, <2>0, <4>2 DEF MustFlush
      <4> QED
        BY <4>1, <4>2
    <3> HIDE DEF trial
    <3>4. /\ sched'.batch = trial /\ sched'.pos = sched.pos + 1 /\ sched'.at = "next"
          /\ sched'.stages = sched.stages
      <4>1. [sched EXCEPT !.batch = trial]
              = [pos |-> sched.pos, batch |-> trial, at |-> sched.at,
                 state |-> sched.state, stages |-> sched.stages]
        BY <1>2
      <4>2. sched' = [[sched EXCEPT !.batch = trial] EXCEPT !.pos = sched.pos + 1]
        BY <3>1
      <4> QED
        BY <2>0, <4>1, <4>2
    <3>5. /\ sched'.pos \in 1 .. Len(order) + 1 /\ sched'.pos - 1 = sched.pos
      BY <1>2, <2>0, <3>4
    <3>6. Cut(req, order, sched')
      BY <1>2, <2>0, <3>2, <3>3, <3>4, <3>5 DEF Cut
    <3> QED
      BY <1>1, <3>1, <3>6
  <2>2. CASE Check(trial).verdict = "unsafe" /\ sched.batch # <<>>
    <3>1. sched' = [sched EXCEPT !.at = "split"] /\ UNCHANGED <<phase, pick>>
      BY <1>8, <2>2 DEF JoinBatch
    <3>2. /\ sched'.batch = sched.batch /\ sched'.pos = sched.pos /\ sched'.at = "split"
          /\ sched'.stages = sched.stages
      BY <1>2, <3>1
    <3>3. Cut(req, order, sched')
      BY <1>2, <2>0, <3>2 DEF Cut
    <3> QED
      BY <1>1, <3>1, <3>3
  <2>3. CASE /\ Check(trial).verdict # "ok"
             /\ ~(Check(trial).verdict = "unsafe" /\ sched.batch # <<>>)
    BY <1>3, <1>8, <2>3 DEF JoinBatch
  <2> QED
    BY <2>1, <2>2, <2>3
<1>9. CASE SplitBatch
  <2>1. CASE Check(sched.batch).verdict = "ok"
    <3>1. /\ Flush(Check(sched.batch).permutations, <<Operation>>, "single")
          /\ UNCHANGED <<phase, pick>> /\ sched.at = "split"
      BY <1>9, <2>1 DEF SplitBatch, Compressing
    <3>2. /\ sched'.pos = sched.pos /\ sched'.batch = <<Operation>> /\ sched'.at = "single"
          /\ StagedOps(sched'.stages) = Placed(order, sched.pos - 1)
          /\ \A k \in 1 .. Len(sched'.stages) : Len(sched'.stages[k].steps) <= width
      BY ZenonT(60), <1>2, <1>4, <3>1 DEF Cut
    <3>3. /\ StagedOps(sched'.stages) \cup ToSet(sched'.batch) = Placed(order, sched.pos)
          /\ Len(sched'.batch) <= width
      BY <1>2, <1>6, <3>2 DEF Operation
    <3>4. Cut(req, order, sched')
      BY <1>2, <3>1, <3>2, <3>3 DEF Cut, Operation
    <3> QED
      BY <1>1, <3>1, <3>4
  <2>2. CASE Check(sched.batch).verdict # "ok"
    BY <1>3, <1>9, <2>2 DEF SplitBatch
  <2> QED
    BY <2>1, <2>2
<1>10. CASE CheckSingle
  <2>1. CASE Check(sched.batch).verdict = "ok"
    <3>1. sched' = [sched EXCEPT !.pos = sched.pos + 1, !.at = "next"]
          /\ UNCHANGED <<phase, pick>> /\ sched.at = "single"
      BY <1>10, <2>1 DEF CheckSingle, Compressing
    <3>2. /\ sched'.batch = sched.batch /\ sched'.pos = sched.pos + 1 /\ sched'.at = "next"
          /\ sched'.stages = sched.stages
      <4>1. [sched EXCEPT !.pos = sched.pos + 1]
              = [pos |-> sched.pos + 1, batch |-> sched.batch, at |-> sched.at,
                 state |-> sched.state, stages |-> sched.stages]
        BY <1>2
      <4>2. sched' = [[sched EXCEPT !.pos = sched.pos + 1] EXCEPT !.at = "next"]
        BY <3>1
      <4> QED
        BY <4>1, <4>2
    <3>3. sched'.pos \in 1 .. Len(order) + 1 /\ sched'.pos - 1 = sched.pos
      BY <1>2, <3>1, <3>2 DEF Cut
    <3>4. Cut(req, order, sched')
      BY <1>2, <3>1, <3>2, <3>3 DEF Cut
    <3> QED
      BY <1>1, <3>1, <3>4
  <2>2. CASE Check(sched.batch).verdict # "ok"
    BY <1>3, <1>10, <2>2 DEF CheckSingle
  <2> QED
    BY <2>1, <2>2
<1>11. CASE FlushLast
  <2>1. CASE Check(sched.batch).verdict = "ok"
    <3>1. /\ Flush(Check(sched.batch).permutations, <<>>, "next")
          /\ phase' = "verify" /\ UNCHANGED pick /\ sched.at = "next" /\ ~(sched.pos <= Len(order))
      BY <1>11, <2>1 DEF FlushLast, Compressing, Pending
    <3>2. sched.pos - 1 = Len(order)
      BY <1>2, <3>1 DEF Cut
    <3>3. Placed(order, Len(order)) = ToSet(order)
      <4>1. DOMAIN order = 1 .. Len(order)
        BY EntryOfSeq DEF TypeInv, WorkTypeOK, SearchTypeOK
      <4> QED
        BY <4>1 DEF Placed, ToSet
    <3>4. Complete(req, sched'.stages)
      BY <1>2, <1>4, <3>1, <3>2, <3>3 DEF Cut, Complete
    <3> QED
      BY <3>1, <3>4
  <2>2. CASE Check(sched.batch).verdict # "ok"
    BY <1>3, <1>11, <2>2 DEF FlushLast
  <2> QED
    BY <2>1, <2>2
<1> QED
  BY <1>7, <1>8, <1>9, <1>10, <1>11

\* What has been staged stays what it was in steps that touch neither order nor stages.
LEMMA CoverUnchanged ==
  ASSUME CoverInv, UNCHANGED <<req, request, search, phase, pick, sched, attempt, core, result>>
  PROVE  CoverInv'
  BY DEF CoverInv

\* Every step keeps account of what is staged.
LEMMA NextCoverInv == TypeInv /\ OrderInv /\ CoverInv /\ [Next]_vars => CoverInv'
<1> SUFFICES ASSUME TypeInv, OrderInv, CoverInv, [Next]_vars PROVE CoverInv'
  OBVIOUS
<1> USE DEF Nothing, Failed, Refusal, PlanOf
<1>0. /\ UNCHANGED request /\ request \in Requests
      /\ core.mode = "off" => req = request
  BY NextRequest DEF TypeInv, PlannerInv, vars
<1>1. ASSUME UNCHANGED <<searchVars, request, sched>>, pick'.best = pick.best,
             phase \in {"candidate", "search", "compress", "verify", "replay"},
             phase' = "candidate"
      PROVE  CoverInv'
  BY <1>1 DEF CoverInv, searchVars
<1>2. ASSUME phase' = "done", result'.kind = "refusal", UNCHANGED request PROVE CoverInv'
  BY <1>2 DEF CoverInv
<1>3. ASSUME phase' \in {"begin", "core"}, phase \notin {"admit", "done"} PROVE CoverInv'
  BY <1>0, <1>3 DEF CoverInv
<1>4. ASSUME phase \in {"begin", "candidate", "search"}, phase' = "settle",
             attempt'.kind = "failed"
      PROVE  CoverInv'
  BY <1>0, <1>4 DEF CoverInv
<1>5. CASE Admit
  BY <1>5 DEF CoverInv, Admit, searchVars
<1>6. CASE RefuseInput
  BY <1>0, <1>2, <1>6 DEF RefuseInput, Return
<1>7. CASE AttemptScheduled
  BY <1>7 DEF CoverInv, AttemptScheduled, NoPick, searchVars
<1>8. CASE AttemptConverged
  <2>1. Gate(req) = "converged" /\ phase = "begin" /\ phase' = "settle"
        /\ attempt' = [kind |-> "plan", stages |-> <<>>, trace |-> <<req.state>>]
        /\ UNCHANGED <<req, core>>
    BY <1>8 DEF AttemptConverged, EndAttempt, searchVars
  <2>2. attempt'.stages = <<>>
    BY <2>1
  <2>3. ASSUME core.mode = "off" PROVE Complete(req, <<>>)
    <3>1. Nodes(req) = {}
      BY <1>0, <2>1, <2>3, CodeAssumption DEF Gate
    <3>2. StagedOps(<<>>) = {} /\ 1 .. Len(<<>>) = {}
      BY EmptyIsSeq DEF StagedOps
    <3> QED
      BY <3>1, <3>2 DEF Complete
  <2> QED
    BY <1>0, <2>1, <2>2, <2>3 DEF CoverInv
<1>9. CASE AttemptBarred
  BY <1>4, <1>9 DEF AttemptBarred, EndAttempt
<1>10. CASE LoopEnds
  <2>1. phase = "candidate" /\ phase' = "settle" /\ UNCHANGED <<req, core>>
        /\ ((attempt' = pick.best /\ pick.best # Nothing) \/ attempt'.kind = "failed")
    BY <1>10 DEF LoopEnds, EndAttempt, searchVars
  <2> QED
    BY <1>0, <2>1 DEF CoverInv
<1>11. CASE LoopCancelled
  BY <1>4, <1>11 DEF LoopCancelled, EndAttempt
<1>12. CASE LoopOutOfAttempts
  BY <1>4, <1>12 DEF LoopOutOfAttempts, EndAttempt
<1>13. CASE StartCandidate
  <2>1. search'.outcome # "found"
    BY <1>13 DEF StartCandidate, StartSearch
  <2> QED
    BY <1>13, <2>1 DEF CoverInv, StartCandidate
<1>14. CASE Searching
  <2>1. /\ phase = "search" /\ SearchStep
        /\ UNCHANGED <<req, request, phase, pick, sched, report, attempt, core, result>>
    BY <1>14 DEF Searching, SearchStep, SearchCancelled, SearchComplete, SearchLimit,
                 SearchCommit, SearchBacktrack
  <2>2. Running /\ search.outcome = "running"
    BY <2>1 DEF SearchStep, SearchCancelled, SearchComplete, SearchLimit, SearchCommit,
           SearchBacktrack, Continues, Running
  <2>3. search = [stack |-> search.stack, applied |-> search.applied, order |-> search.order,
                  state |-> search.state, outcome |-> search.outcome]
    BY DEF TypeInv, WorkTypeOK, SearchTypeOK
  <2>4. search'.outcome = "found" => search'.applied = Nodes(req)
    <3>1. CASE SearchComplete
      <4>1. search' = [search EXCEPT !.outcome = "found"] /\ search.applied = Nodes(req)
        BY <3>1 DEF SearchComplete
      <4> QED
        BY <2>3, <4>1
    <3>2. CASE ~SearchComplete
      <4>1. search'.outcome # "found"
        BY <2>1, <2>2, <2>3, <3>2
           DEF SearchStep, SearchCancelled, SearchLimit, SearchCommit, SearchBacktrack
      <4> QED
        BY <4>1
    <3> QED
      BY <3>1, <3>2
  <2> QED
    BY <2>1, <2>4 DEF CoverInv
<1>15. CASE OrderFound
  <2>1. /\ phase = "search" /\ phase' = "compress" /\ search.outcome = "found"
        /\ sched' = NoSchedule /\ UNCHANGED <<req, search, request, pick, core>>
    BY <1>15 DEF OrderFound, searchVars
  <2>2. ToSet(search.order) = Nodes(req)
    BY <2>1 DEF CoverInv, OrderInv, OrderKept
  <2>3. Len(search.order) \in Nat
    BY EntryOfSeq DEF TypeInv, WorkTypeOK, SearchTypeOK
  <2>4. req.limits.width \in Nat
    BY <1>0, RequestFacts DEF TypeInv, WorkTypeOK
  <2>5. Cut(req, search.order, NoSchedule)
    <3>1. Len(<<>>) = 0 /\ ToSet(<<>>) = {} /\ StagedOps(<<>>) = {}
      BY EmptyIsSeq, SeqShape DEF ToSet, StagedOps
    <3>2. NoSchedule = [pos |-> 1, batch |-> <<>>, at |-> "next", state |-> req.state,
                        stages |-> <<>>]
      BY DEF NoSchedule
    <3>3. Placed(search.order, 1 - 1) = {}
      BY DEF Placed
    <3> QED
      BY <2>3, <2>4, <3>1, <3>2, <3>3 DEF Cut
  <2> QED
    BY <2>1, <2>2, <2>5 DEF CoverInv
<1>16. CASE SearchStopped
  BY <1>4, <1>16 DEF SearchStopped, EndAttempt
<1>17. CASE OrderMissing
  BY <1>1, <1>17 DEF OrderMissing, RejectCandidate, TypeInv, PlannerInv
<1>18. CASE FlushBatch \/ JoinBatch \/ SplitBatch \/ CheckSingle \/ FlushLast
  <2>1. phase = "compress" /\ UNCHANGED <<req, search, request, attempt, core, result>>
    BY <1>18 DEF FlushBatch, JoinBatch, SplitBatch, CheckSingle, FlushLast, Compressing,
                 compressUnchanged
  <2> QED
    BY <1>18, <2>1, CompressCovers DEF CoverInv
<1>19. CASE VerifyStructure
  <2>1. CASE PlanStructure(req, sched.stages) /\ Safe(req, req.state)
    BY <1>19, <2>1 DEF VerifyStructure, CoverInv, searchVars
  <2>2. CASE ~(PlanStructure(req, sched.stages) /\ Safe(req, req.state))
    BY <1>1, <1>19, <2>2 DEF VerifyStructure, RejectCandidate, TypeInv, PlannerInv
  <2> QED
    BY <2>1, <2>2
<1>20. CASE VerifyStage
  <2>1. CASE StageVerified(req, Last(report.trace), sched.stages[report.next])
    BY <1>20, <2>1 DEF VerifyStage, CoverInv, searchVars
  <2>2. CASE ~StageVerified(req, Last(report.trace), sched.stages[report.next])
    BY <1>1, <1>20, <2>2 DEF VerifyStage, RejectCandidate, TypeInv, PlannerInv
  <2> QED
    BY <2>1, <2>2
<1>21. CASE SelectPlan
  <2>1. /\ phase = "replay" /\ phase' = "candidate"
        /\ UNCHANGED <<req, search, request, sched, attempt, core, result>>
        /\ pick'.best = pick.best \/ pick'.best.stages = sched.stages
    BY <1>21 DEF SelectPlan, searchVars, TypeInv, PlannerInv
  <2> QED
    BY <2>1 DEF CoverInv
<1>22. CASE SettleMain
  <2>1. CASE Succeeded
    <3>1. phase' = "done" /\ result' = attempt /\ phase = "settle" /\ core.mode = "off"
          /\ attempt.kind # "failed" /\ UNCHANGED request
      BY <1>0, <1>22, <2>1 DEF SettleMain, Return, Succeeded
    <3> QED
      BY <1>0, <3>1 DEF CoverInv
  <2>2. CASE ~Succeeded
    BY <1>0, <1>2, <1>3, <1>22, <2>2 DEF SettleMain, Return
  <2> QED
    BY <2>1, <2>2
<1>23. CASE GrowCore \/ ShrinkCore
  BY <1>3, <1>23 DEF GrowCore, ShrinkCore, TryWithout
<1>24. CASE GrowthEnds
  <2>1. CASE core.disabled = <<>>
    BY <1>0, <1>2, <1>24, <2>1 DEF GrowthEnds, CoreFinished, Return
  <2>2. CASE core.disabled # <<>>
    BY <1>3, <1>24, <2>2 DEF GrowthEnds
  <2> QED
    BY <2>1, <2>2
<1>25. CASE ShrinkEnds
  BY <1>0, <1>2, <1>25 DEF ShrinkEnds, CoreFinished, Return
<1>26. CASE SettleGrow \/ SettleShrink
  <2>1. CASE Cancelled
    BY <1>0, <1>2, <1>26, <2>1 DEF SettleGrow, SettleShrink, CoreFinished, Return
  <2>2. CASE ~Cancelled
    BY <1>3, <1>26, <2>2 DEF SettleGrow, SettleShrink
  <2> QED
    BY <2>1, <2>2
<1>27. CASE RequestStop \/ Returned \/ UNCHANGED vars
  <2>1. UNCHANGED <<req, request, search, phase, pick, sched, attempt, core, result>>
    BY <1>27 DEF RequestStop, Returned, vars
  <2> QED
    BY <2>1, CoverUnchanged
<1> QED
  BY <1>5, <1>6, <1>7, <1>8, <1>9, <1>10, <1>11, <1>12, <1>13, <1>14, <1>15, <1>16, <1>17,
     <1>18, <1>19, <1>20, <1>21, <1>22, <1>23, <1>24, <1>25, <1>26, <1>27
     DEF Next, PlannerStep

\* Stages that carry out every operation of r and pass Plan::verify_structure hold every
\* operation at one place, and both ends of an edge in the right order.
LEMMA CompletePlaces ==
  ASSUME NEW r \in Requests, NEW stages, IsSeq(stages),
         \A k \in 1 .. Len(stages) : IsSeq(stages[k].steps),
         PlanStructure(r, stages), Complete(r, stages)
  PROVE  /\ {At(stages, p) : p \in Places(stages)} = Nodes(r)
         /\ Cardinality(Places(stages)) = Cardinality(Nodes(r))
         /\ \A k \in DOMAIN stages : Len(stages[k].steps) \in 1 .. r.limits.width
         /\ \A e \in Edges(r), k, l \in DOMAIN stages :
              e[1] \in ToSet(stages[k].steps) /\ e[2] \in ToSet(stages[l].steps) => k < l
<1>1. DOMAIN stages = 1 .. Len(stages) /\ Len(stages) \in Nat
  BY SeqShape
<1>2. \A p : p \in Places(stages) <=>
             \E k \in 1 .. Len(stages) : \E i \in DOMAIN stages[k].steps : p = <<k, i>>
  BY <1>1 DEF Places
<1>3. \A k, i : At(stages, <<k, i>>) = stages[k].steps[i]
  BY DEF At
<1>4. ASSUME NEW o, NEW k \in 1 .. Len(stages), o \in ToSet(stages[k].steps)
      PROVE  \E p \in Places(stages) : p[1] = k /\ At(stages, p) = o
  <2>1. PICK i \in DOMAIN stages[k].steps : stages[k].steps[i] = o
    BY <1>4 DEF ToSet
  <2>2. <<k, i>> \in Places(stages) /\ <<k, i>>[1] = k /\ At(stages, <<k, i>>) = o
    BY <1>2, <1>3, <2>1
  <2> QED
    BY <2>2
<1>5. {At(stages, p) : p \in Places(stages)} = Nodes(r)
  <2>1. ASSUME NEW p \in Places(stages) PROVE At(stages, p) \in StagedOps(stages)
    <3>1. PICK k \in 1 .. Len(stages) : \E i \in DOMAIN stages[k].steps : p = <<k, i>>
      BY <1>2
    <3>2. PICK i \in DOMAIN stages[k].steps : p = <<k, i>>
      BY <3>1
    <3>3. At(stages, p) \in ToSet(stages[k].steps)
      BY <1>3, <3>2 DEF ToSet
    <3> QED
      BY <3>3 DEF StagedOps
  <2>2. ASSUME NEW o \in StagedOps(stages) PROVE \E p \in Places(stages) : At(stages, p) = o
    <3>1. PICK k \in 1 .. Len(stages) : o \in ToSet(stages[k].steps)
      BY DEF StagedOps
    <3> QED
      BY <1>4, <3>1
  <2> QED
    BY <2>1, <2>2 DEF Complete
<1>6. \A a, b \in Places(stages) : At(stages, a) = At(stages, b) => a = b
  BY DEF PlanStructure
<1>7. Cardinality(Places(stages)) = Cardinality(Nodes(r))
  <2> DEFINE f == [p \in Places(stages) |-> At(stages, p)]
  <2>1. f \in Bijection(Places(stages), Nodes(r))
    <3>1. f \in [Places(stages) -> Nodes(r)]
      BY <1>5
    <3>2. f \in Injection(Places(stages), Nodes(r))
      BY <1>6, <3>1 DEF Injection, IsInjective
    <3>3. f \in Surjection(Places(stages), Nodes(r))
      BY <1>5, <3>1 DEF Surjection
    <3> QED
      BY <3>2, <3>3 DEF Bijection
  <2>2. ExistsBijection(Nodes(r), Places(stages))
    BY <2>1, Fun_ExistsBijSymmetric DEF ExistsBijection
  <2>3. IsFiniteSet(Nodes(r))
    <3>1. Nodes(r) \in SUBSET (1 .. r.n) /\ r.n \in Nat
      BY RequestAssumption DEF Nodes
    <3>2. IsFiniteSet(1 .. r.n)
      BY <3>1, FS_Interval
    <3> QED
      BY <3>1, <3>2, FS_Subset
  <2> QED
    BY <2>2, <2>3, FS_Bijection
<1>8. ASSUME NEW k \in 1 .. Len(stages) PROVE Len(stages[k].steps) \in 1 .. r.limits.width
  <2>1. IsSeq(stages[k].steps) /\ stages[k].steps # <<>>
    BY <1>1 DEF PlanStructure
  <2>2. Len(stages[k].steps) \in Nat /\ Len(stages[k].steps) # 0
    <3>1. PICK S : stages[k].steps \in Seq(S)
      BY <2>1 DEF IsSeq
    <3> QED
      BY <2>1, <3>1, EmptySeqLength
  <2>3. Len(stages[k].steps) <= r.limits.width /\ r.limits.width \in Nat
    BY RequestAssumption DEF Complete
  <2> QED
    BY <2>2, <2>3
<1>9. ASSUME NEW e \in Edges(r), NEW k \in 1 .. Len(stages), NEW l \in 1 .. Len(stages),
             e[1] \in ToSet(stages[k].steps), e[2] \in ToSet(stages[l].steps)
      PROVE  k < l
  <2>1. PICK p \in Places(stages) : p[1] = k /\ At(stages, p) = e[1]
    BY <1>4, <1>9
  <2>2. PICK q \in Places(stages) : q[1] = l /\ At(stages, q) = e[2]
    BY <1>4, <1>9
  <2>3. PICK a, b \in Places(stages) :
          a[1] < b[1] /\ At(stages, a) = e[1] /\ At(stages, b) = e[2]
    BY DEF PlanStructure
  <2>4. a = p /\ b = q
    BY <1>6, <2>1, <2>2, <2>3
  <2> QED
    BY <2>1, <2>2, <2>3, <2>4
<1> QED
  BY <1>1, <1>5, <1>7, <1>8, <1>9

\* PlanComplete for every instance: whatever order the search finds and however schedule
\* cuts it into stages, a published plan stages every derived operation once, keeps the
\* stage width, and puts the source of every dependency in an earlier stage.
THEOREM PlansAreComplete == Spec => []PlanComplete
<1>1. Init => TypeInv /\ OrderInv /\ CoverInv
  BY InitTypeInv DEF Init, OrderInv, CoverInv
<1>2. TypeInv /\ OrderInv /\ CoverInv /\ [Next]_vars => TypeInv' /\ OrderInv' /\ CoverInv'
  BY NextTypeInv, NextOrderInv, NextCoverInv
<1>3. TypeInv /\ CoverInv => PlanComplete
  <2> SUFFICES ASSUME TypeInv, CoverInv, Published PROVE PlanComplete
    BY DEF PlanComplete
  <2>1. request \in Requests /\ Verified(request, result) /\ Complete(request, result.stages)
    BY DEF TypeInv, PlannerInv, CoverInv, Published, Nothing
  <2>2. DOMAIN result.stages = 1 .. Len(result.stages)
    BY <2>1, SeqShape DEF Verified
  <2> QED
    BY <2>1, <2>2, CompletePlaces DEF PlanComplete, Staged, Verified
<1> QED
  BY <1>1, <1>2, <1>3, PTL DEF Spec

-----------------------------------------------------------------------------
(* A change is refused for its size only when a budget ran out.            *)

\* The search or the replays of verify_stage were charged more than the caller allows.
OverBudget(d) == d.visits > request.limits.visits \/ d.perms > request.limits.perms

\* Some budget of the call is exhausted, or the change has too many steps.
RanOut(d) ==
  \/ OverBudget(d)
  \/ d.attempts >= request.limits.attempts
  \/ Cardinality(Nodes(request)) > request.limits.steps

\* The inductive invariant: whoever says "limit" to the candidate loop has overdrawn a
\* budget, and nothing in a call gives any of it back.
LimitInv ==
  /\ phase \in {"candidate", "search", "compress", "verify", "replay"} /\ pick.limit =>
       OverBudget(diag)
  /\ phase = "search" /\ search.outcome = "limit" => OverBudget(diag)
  /\ phase = "settle" /\ core.mode = "off" =>
       (attempt.kind = "failed" /\ attempt.code = "search_limit_exceeded" => RanOut(diag))
  /\ core.mode # "off" => core.code \in OrderingFailures
  /\ phase = "done" /\ result = Refusal("search_limit_exceeded", {}) => RanOut(diag)

\* What is overdrawn stays overdrawn.
LEMMA OverBudgetStays ==
  ASSUME request \in Requests, UNCHANGED request, diag \in Diagnostics, diag' \in Diagnostics,
         diag.visits <= diag'.visits, diag.perms <= diag'.perms,
         OverBudget(diag)
  PROVE  OverBudget(diag)'
<1>1. /\ diag.visits \in Nat /\ diag.perms \in Nat /\ diag'.visits \in Nat /\ diag'.perms \in Nat
  BY DEF Diagnostics
<1>2. request.limits.visits \in Nat /\ request.limits.perms \in Nat
  BY RequestAssumption
<1> QED
  BY <1>1, <1>2 DEF OverBudget

\* The search is charged for what it looks at, and stops for the budget only when it
\* has overdrawn it.
LEMMA SearchCharges ==
  ASSUME SearchInv, SearchStep
  PROVE  /\ diag.visits <= diag'.visits /\ diag.perms <= diag'.perms
         /\ search'.outcome = "limit" => diag'.visits > req.limits.visits
<1>1. /\ diag = [visits |-> diag.visits, perms |-> diag.perms, attempts |-> diag.attempts]
      /\ diag.visits \in Nat /\ diag.perms \in Nat /\ req.limits.visits \in Nat
  BY RequestFacts DEF SearchInv, Diagnostics
<1>2. search = [stack |-> search.stack, applied |-> search.applied, order |-> search.order,
                state |-> search.state, outcome |-> search.outcome]
  BY DEF SearchInv, SearchTypeOK
<1>3. ASSUME UNCHANGED diag PROVE diag.visits <= diag'.visits /\ diag.perms <= diag'.perms
  BY <1>1, <1>3
<1>4. ASSUME NEW v \in Nat, diag.visits <= v, diag' = [diag EXCEPT !.visits = v]
      PROVE  diag.visits <= diag'.visits /\ diag.perms <= diag'.perms /\ diag'.visits = v
  BY <1>1, <1>4
<1>5. CASE SearchCancelled
  BY <1>2, <1>3, <1>5 DEF SearchCancelled
<1>6. CASE SearchComplete
  BY <1>2, <1>3, <1>6 DEF SearchComplete
<1>7. CASE SearchLimit
  <2> DEFINE most == Max({diag.visits, req.limits.visits})
  <2>1. most \in Nat /\ diag.visits <= most /\ req.limits.visits <= most
    BY <1>1, MaxOfTwo
  <2>2. diag' = [diag EXCEPT !.visits = most + 1]
    BY <1>7 DEF SearchLimit, Exceeding
  <2> HIDE DEF most
  <2>3. most + 1 \in Nat /\ diag.visits <= most + 1 /\ most + 1 > req.limits.visits
    BY <1>1, <2>1
  <2> QED
    BY <1>4, <2>2, <2>3
<1>8. CASE SearchCommit \/ SearchBacktrack
  <2>1. Running /\ diag' = [diag EXCEPT !.visits = Charged]
    BY <1>8 DEF SearchCommit, SearchBacktrack, Continues
  <2>2. Charged \in Nat /\ diag.visits <= Charged
    BY <2>1, SlotTypes
  <2>3. search'.outcome # "limit"
    BY <1>2, <1>8, <2>1 DEF SearchCommit, SearchBacktrack, Running
  <2> HIDE DEF Charged
  <2> QED
    BY <1>4, <2>1, <2>2, <2>3
<1> QED
  BY <1>5, <1>6, <1>7, <1>8 DEF SearchStep

\* The actions of the compression are charged, and reject a candidate for a budget only
\* when the check they made has overdrawn it.
LEMMA CompressCharges ==
  ASSUME TypeInv, FlushBatch \/ JoinBatch \/ SplitBatch \/ CheckSingle \/ FlushLast
  PROVE  /\ diag.visits <= diag'.visits /\ diag.perms <= diag'.perms
         /\ phase' = phase \/ phase' = "verify" \/ phase' = "candidate"
         /\ pick'.limit => pick.limit \/ OverBudget(diag)'
<1>1. request \in Requests /\ WorkTypeOK /\ req.limits = request.limits
  BY RequestFacts DEF TypeInv, PlannerInv, WorkTypeOK
<1>2. Charges(req, diag, Check(sched.batch))
  BY <1>1, ScheduleParts, CheckType
<1>3. ASSUME RejectCandidate(FALSE) PROVE phase' = "candidate" /\ (pick'.limit => pick.limit)
  BY <1>3 DEF RejectCandidate, TypeInv, PlannerInv
<1>4. CASE FlushBatch \/ SplitBatch \/ CheckSingle \/ FlushLast
  <2>1. diag' = Check(sched.batch).diag
    BY <1>4 DEF FlushBatch, SplitBatch, CheckSingle, FlushLast
  <2>2. RejectCandidate(FALSE) \/ (UNCHANGED pick /\ (phase' = phase \/ phase' = "verify"))
    BY <1>4 DEF FlushBatch, SplitBatch, CheckSingle, FlushLast
  <2> QED
    BY <1>2, <1>3, <2>1, <2>2 DEF Charges
<1>5. CASE JoinBatch
  <2> DEFINE trial == Append(sched.batch, Operation)
  <2>1. Charges(req, diag, Check(trial))
    <3>1. trial \in Seq(1 .. req.n)
      BY <1>1, <1>5, ScheduleParts, AppendInSeq DEF JoinBatch, Pending
    <3> QED
      BY <1>1, <3>1, CheckType
  <2>2. /\ diag' = Check(trial).diag
        /\ \/ RejectCandidate(Check(trial).verdict = "limit")
           \/ UNCHANGED pick /\ phase' = phase
        /\ UNCHANGED request
    BY <1>5 DEF JoinBatch, compressUnchanged
  <2> HIDE DEF trial
  <2>3. ASSUME RejectCandidate(Check(trial).verdict = "limit")
        PROVE  phase' = "candidate" /\ (pick'.limit => pick.limit \/ OverBudget(diag)')
    <3>1. phase' = "candidate" /\ (pick'.limit => pick.limit \/ Check(trial).verdict = "limit")
      BY <2>3 DEF RejectCandidate, TypeInv, PlannerInv
    <3>2. Check(trial).verdict = "limit" => OverBudget(diag)'
      BY <1>1, <2>1, <2>2 DEF Charges, OverBudget
    <3> QED
      BY <3>1, <3>2
  <2> QED
    BY <2>1, <2>2, <2>3 DEF Charges
<1> QED
  BY <1>4, <1>5

\* No step gives back what is charged, or names a budget that is left.
LEMMA NextLimitInv == TypeInv /\ LimitInv /\ [Next]_vars => LimitInv'
<1> SUFFICES ASSUME TypeInv, LimitInv, [Next]_vars PROVE LimitInv'
  OBVIOUS
<1> USE DEF Nothing
<1>0. /\ UNCHANGED request /\ request \in Requests /\ req.limits = request.limits
      /\ core.mode = "off" => req = request
      /\ diag \in Diagnostics /\ diag' \in Diagnostics
      /\ diag.visits \in Nat /\ diag.perms \in Nat
  <2>1. TypeInv'
    BY NextTypeInv
  <2> QED
    BY <2>1, NextRequest, RequestFacts DEF TypeInv, PlannerInv, WorkTypeOK, vars, Diagnostics
<1>1. ASSUME UNCHANGED <<diag, core>>, phase' \notin {"search", "settle", "done"},
             phase' \in {"candidate", "compress", "verify", "replay"} /\ pick'.limit =>
               OverBudget(diag)
      PROVE  LimitInv'
  BY <1>0, <1>1 DEF LimitInv, OverBudget
<1>2. ASSUME UNCHANGED <<diag, core>>, phase' = "settle",
             core.mode = "off" /\ attempt' = Failed("search_limit_exceeded") => RanOut(diag),
             attempt'.kind = "failed" => attempt' = Failed(attempt'.code)
      PROVE  LimitInv'
  <2>1. core.mode = "off" /\ attempt'.kind = "failed" /\ attempt'.code = "search_limit_exceeded"
          => RanOut(diag)
    BY <1>2
  <2>2. RanOut(diag)' <=> RanOut(diag)
    BY <1>0, <1>2 DEF RanOut, OverBudget
  <2> QED
    BY <1>2, <2>1, <2>2 DEF LimitInv
<1>3. \A code : Failed(code).kind = "failed" /\ Failed(code).code = code
  BY DEF Failed
<1>4. ASSUME UNCHANGED diag, phase' = "done", core'.code = core.code, core'.mode = core.mode,
             result' = Refusal("search_limit_exceeded", {}) => RanOut(diag)
      PROVE  LimitInv'
  <2>1. RanOut(diag)' <=> RanOut(diag)
    BY <1>0, <1>4 DEF RanOut, OverBudget
  <2> QED
    BY <1>4, <2>1 DEF LimitInv
<1>5. \A code, blocking : Refusal(code, blocking) = Refusal("search_limit_exceeded", {})
                            => code = "search_limit_exceeded"
  BY DEF Refusal
<1>6. CASE Admit
  BY <1>1, <1>6 DEF Admit, searchVars
<1>7. CASE RefuseInput
  <2>1. request.admit # "search_limit_exceeded"
    BY <1>0, CodeAssumption
  <2> QED
    BY <1>4, <1>5, <1>7, <2>1 DEF RefuseInput, Return, searchVars
<1>8. CASE AttemptScheduled
  BY <1>1, <1>8 DEF AttemptScheduled, NoPick, searchVars
<1>9. CASE AttemptConverged
  BY <1>2, <1>9 DEF AttemptConverged, EndAttempt, searchVars, PlanOf, Failed
<1>10. CASE AttemptBarred
  <2>1. phase' = "settle" /\ attempt' = Failed(Gate(req)) /\ UNCHANGED <<diag, core>>
    BY <1>10 DEF AttemptBarred, EndAttempt, searchVars
  <2>2. core.mode = "off" /\ Gate(req) = "search_limit_exceeded" => RanOut(diag)
    BY <1>0, CodeAssumption DEF Gate, RanOut
  <2> HIDE DEF Gate
  <2>3. attempt' = Failed("search_limit_exceeded") => Gate(req) = "search_limit_exceeded"
    BY <1>3, <2>1
  <2> QED
    BY <1>2, <1>3, <2>1, <2>2, <2>3
<1>11. CASE LoopEnds
  <2>1. phase = "candidate" /\ phase' = "settle" /\ UNCHANGED <<diag, core>>
        /\ attempt' = IF pick.best # Nothing THEN pick.best
                      ELSE IF pick.limit THEN Failed("search_limit_exceeded")
                      ELSE Failed("no_safe_ordering")
    BY <1>11 DEF LoopEnds, EndAttempt, searchVars
  <2>2. pick.limit => RanOut(diag)
    BY <2>1 DEF LimitInv, RanOut
  <2>3. pick.best # Nothing => pick.best.kind = "plan"
    BY <2>1 DEF TypeInv, PlannerInv, Verified
  <2>4. "plan" # "failed" /\ "no_safe_ordering" # "search_limit_exceeded"
    OBVIOUS
  <2> QED
    BY <1>2, <1>3, <2>1, <2>2, <2>3, <2>4
<1>12. CASE LoopCancelled
  BY <1>2, <1>3, <1>12 DEF LoopCancelled, EndAttempt, searchVars
<1>13. CASE LoopOutOfAttempts
  <2>1. RanOut(diag)
    BY <1>0, <1>13 DEF LoopOutOfAttempts, RanOut
  <2> QED
    BY <1>2, <1>3, <1>13, <2>1 DEF LoopOutOfAttempts, EndAttempt, searchVars
<1>14. CASE StartCandidate
  <2>1. /\ phase = "candidate" /\ phase' = "search" /\ UNCHANGED <<pick, core>>
        /\ diag' = [diag EXCEPT !.attempts = @ + 1] /\ search'.outcome = "running"
    BY <1>14 DEF StartCandidate, StartSearch
  <2>2. diag'.visits = diag.visits /\ diag'.perms = diag.perms
    BY <1>0, <2>1 DEF Diagnostics
  <2>3. pick.limit => OverBudget(diag)'
    BY <1>0, <2>1, <2>2 DEF LimitInv, OverBudget
  <2> QED
    BY <2>1, <2>3 DEF LimitInv
<1>15. CASE Searching
  <2>1. /\ phase = "search" /\ SearchStep /\ SearchInv
        /\ UNCHANGED <<phase, pick, core>>
    BY <1>15 DEF Searching, TypeInv, PlannerInv, WorkTypeOK, SearchInv
  <2>2. /\ diag.visits <= diag'.visits /\ diag.perms <= diag'.perms
        /\ search'.outcome = "limit" => diag'.visits > req.limits.visits
    BY <2>1, SearchCharges
  <2>3. pick.limit => OverBudget(diag)'
    BY <1>0, <2>1, <2>2, OverBudgetStays DEF LimitInv
  <2>4. search'.outcome = "limit" => OverBudget(diag)'
    BY <1>0, <2>2 DEF OverBudget
  <2> QED
    BY <2>1, <2>3, <2>4 DEF LimitInv
<1>16. CASE OrderFound
  BY <1>1, <1>16 DEF OrderFound, searchVars, LimitInv
<1>17. CASE SearchStopped
  BY <1>2, <1>3, <1>17 DEF SearchStopped, EndAttempt, searchVars
<1>18. CASE OrderMissing
  <2>1. /\ phase = "search" /\ phase' = "candidate" /\ UNCHANGED <<diag, core>>
        /\ pick'.limit => pick.limit \/ search.outcome = "limit"
    BY <1>18 DEF OrderMissing, RejectCandidate, searchVars, TypeInv, PlannerInv
  <2> QED
    BY <1>1, <2>1 DEF LimitInv
<1>19. CASE FlushBatch \/ JoinBatch \/ SplitBatch \/ CheckSingle \/ FlushLast
  <2>1. phase = "compress" /\ UNCHANGED core
    BY <1>19 DEF FlushBatch, JoinBatch, SplitBatch, CheckSingle, FlushLast, Compressing,
                 compressUnchanged
  <2>2. /\ diag.visits <= diag'.visits /\ diag.perms <= diag'.perms
        /\ phase' = "compress" \/ phase' = "verify" \/ phase' = "candidate"
        /\ pick'.limit => pick.limit \/ OverBudget(diag)'
    BY <1>19, <2>1, CompressCharges
  <2>3. pick'.limit => OverBudget(diag)'
    BY <1>0, <2>1, <2>2, OverBudgetStays DEF LimitInv
  <2> QED
    BY <2>1, <2>2, <2>3 DEF LimitInv
<1>20. CASE VerifyStructure \/ VerifyStage
  <2>1. /\ phase \in {"verify", "replay"} /\ UNCHANGED <<diag, core>>
        /\ phase' \in {"candidate", "replay"} /\ (pick'.limit => pick.limit)
    BY <1>20 DEF VerifyStructure, VerifyStage, RejectCandidate, searchVars, TypeInv, PlannerInv
  <2> QED
    BY <1>1, <2>1 DEF LimitInv
<1>21. CASE SelectPlan
  <2>1. /\ phase = "replay" /\ UNCHANGED <<diag, core>>
        /\ phase' = "candidate" /\ (pick'.limit => pick.limit)
    BY <1>21 DEF SelectPlan, searchVars, TypeInv, PlannerInv
  <2> QED
    BY <1>1, <2>1 DEF LimitInv
<1>22. CASE SettleMain
  <2>1. phase = "settle" /\ core.mode = "off" /\ UNCHANGED diag
    BY <1>22 DEF SettleMain, searchVars
  <2>2. CASE Succeeded
    <3>1. phase' = "done" /\ result' = attempt /\ UNCHANGED core /\ attempt.kind = "plan"
      BY <1>22, <2>2 DEF SettleMain, Return, Succeeded
    <3>2. result' # Refusal("search_limit_exceeded", {})
      BY <3>1 DEF Refusal
    <3> QED
      BY <1>4, <2>1, <3>1, <3>2
  <2>3. CASE ~Succeeded /\ attempt.code \in OrderingFailures /\ request.enforced # {}
    <3>1. phase' = "core" /\ core' = [NoCore EXCEPT !.mode = "grow", !.code = attempt.code]
      BY <1>22, <2>3 DEF SettleMain
    <3>2. core'.mode = "grow" /\ core'.code = attempt.code
      BY <3>1 DEF NoCore
    <3> QED
      BY <2>3, <3>1, <3>2 DEF LimitInv
  <2>4. CASE ~Succeeded /\ ~(attempt.code \in OrderingFailures /\ request.enforced # {})
    <3>1. phase' = "done" /\ result' = Refusal(attempt.code, {}) /\ UNCHANGED core
      BY <1>22, <2>4 DEF SettleMain, Return
    <3>2. attempt.kind = "failed"
      BY <2>1, <2>4 DEF TypeInv, PlannerInv, Verified, Succeeded
    <3>3. attempt.code = "search_limit_exceeded" => RanOut(diag)
      BY <2>1, <3>2 DEF LimitInv
    <3> QED
      BY <1>4, <1>5, <2>1, <3>1, <3>3
  <2> QED
    BY <2>2, <2>3, <2>4
<1>23. ASSUME core.mode # "off", NEW disabled, CoreFinished(disabled), UNCHANGED diag
      PROVE  LimitInv'
  <2>1. /\ phase' = "done" /\ result' = Refusal(core.code, ToSet(disabled))
        /\ core'.code = core.code /\ core'.mode = core.mode
    BY <1>23 DEF CoreFinished, Return, TypeInv, PlannerInv
  <2>2. core.code # "search_limit_exceeded"
    BY <1>23 DEF LimitInv, OrderingFailures
  <2> QED
    BY <1>4, <1>5, <1>23, <2>1, <2>2
<1>24. ASSUME phase' \in {"begin", "core"}, core'.mode # "off" => core'.code \in OrderingFailures
      PROVE  LimitInv'
  BY <1>24 DEF LimitInv
<1>25. CASE GrowCore \/ ShrinkCore
  <2>1. phase' = "begin" /\ core'.code = core.code /\ core.mode # "off"
    BY <1>25 DEF GrowCore, ShrinkCore, TryWithout, TypeInv, PlannerInv
  <2> QED
    BY <1>24, <2>1 DEF LimitInv
<1>26. CASE GrowthEnds
  <2>0. core.mode # "off" /\ UNCHANGED diag
    BY <1>26 DEF GrowthEnds, coreUnchanged
  <2>1. CASE core.disabled = <<>>
    BY <1>23, <1>26, <2>0, <2>1 DEF GrowthEnds
  <2>2. CASE core.disabled # <<>>
    <3>1. phase' = "core" /\ core'.code = core.code
      BY <1>26, <2>2 DEF GrowthEnds, TypeInv, PlannerInv
    <3> QED
      BY <1>24, <2>0, <3>1 DEF LimitInv
  <2> QED
    BY <2>1, <2>2
<1>27. CASE ShrinkEnds
  BY <1>23, <1>27 DEF ShrinkEnds, coreUnchanged
<1>28. CASE SettleGrow \/ SettleShrink
  <2>0. core.mode # "off" /\ UNCHANGED diag
    BY <1>28 DEF SettleGrow, SettleShrink, coreUnchanged
  <2>1. CASE Cancelled
    BY <1>23, <1>28, <2>0, <2>1 DEF SettleGrow, SettleShrink
  <2>2. CASE ~Cancelled
    <3>1. phase' = "core" /\ core'.code = core.code
      BY <1>28, <2>2 DEF SettleGrow, SettleShrink, TypeInv, PlannerInv
    <3> QED
      BY <1>24, <2>0, <3>1 DEF LimitInv
  <2> QED
    BY <2>1, <2>2
<1>29. CASE RequestStop \/ Returned \/ UNCHANGED vars
  <2>1. UNCHANGED <<request, diag, search, phase, pick, attempt, core, result>>
    BY <1>29 DEF RequestStop, Returned, vars
  <2> QED
    BY <2>1 DEF LimitInv, OverBudget, RanOut
<1> QED
  BY <1>6, <1>7, <1>8, <1>9, <1>10, <1>11, <1>12, <1>13, <1>14, <1>15, <1>16, <1>17, <1>18,
     <1>19, <1>20, <1>21, <1>22, <1>25, <1>26, <1>27, <1>28, <1>29 DEF Next, PlannerStep

\* LimitRefusalTruthful for every instance: although four candidates, the replays of
\* verify_stage and the trials of the core minimisation share one set of budgets, a
\* refusal search_limit_exceeded is returned only when one of them has run out or the
\* change has more steps than the caller allows.
THEOREM LimitRefusalsAreTruthful == Spec => []LimitRefusalTruthful
<1>1. Init => TypeInv /\ LimitInv
  <2> SUFFICES ASSUME Init PROVE LimitInv
    BY InitTypeInv
  <2>1. phase = "admit" /\ core.mode = "off"
    BY DEF Init, NoCore
  <2> QED
    BY <2>1 DEF LimitInv
<1>2. TypeInv /\ LimitInv /\ [Next]_vars => TypeInv' /\ LimitInv'
  BY NextTypeInv, NextLimitInv
<1>3. TypeInv /\ LimitInv => LimitRefusalTruthful
  <2> SUFFICES ASSUME TypeInv, LimitInv, result = Refusal("search_limit_exceeded", {})
               PROVE  RanOut(diag)
    BY DEF LimitRefusalTruthful, RanOut, OverBudget
  <2>1. phase = "done"
    BY DEF TypeInv, PlannerInv, Refusal, Nothing
  <2> QED
    BY <2>1 DEF LimitInv
<1> QED
  BY <1>1, <1>2, <1>3, PTL DEF Spec

-----------------------------------------------------------------------------
(* A stop that comes before the decision is honoured.                      *)

\* The call will not publish: it is minimising a core, a stop that the search or the
\* candidate loop is about to see has been raised or seen, or it has refused already.
Doomed ==
  \/ core.mode # "off" /\ (phase = "done" => result.kind = "refusal")
  \/ stop /\ phase = "candidate" /\ MoreCandidates
  \/ stop /\ phase = "search" /\ search.outcome \in {"running", "cancelled"}
  \/ phase = "settle" /\ attempt = Failed("cancelled")
  \/ phase = "done" /\ result.kind = "refusal"

\* Minimising a core ends in a refusal.
LEMMA CoreStaysDoomed ==
  ASSUME PlannerInv, core.mode # "off", phase # "done", Next
  PROVE  Doomed'
<1>1. CASE GrowCore \/ ShrinkCore
  BY <1>1 DEF GrowCore, ShrinkCore, TryWithout, PlannerInv, Doomed
<1>2. ASSUME NEW disabled, CoreFinished(disabled) PROVE Doomed'
  BY <1>2 DEF CoreFinished, Return, Refusal, Doomed
<1>3. CASE GrowthEnds
  BY <1>2, <1>3 DEF GrowthEnds, PlannerInv, Doomed
<1>4. CASE ShrinkEnds
  BY <1>2, <1>4 DEF ShrinkEnds
<1>5. CASE SettleGrow \/ SettleShrink
  <2>1. CASE Cancelled
    BY <1>2, <1>5, <2>1 DEF SettleGrow, SettleShrink
  <2>2. CASE ~Cancelled
    BY <1>5, <2>2 DEF SettleGrow, SettleShrink, PlannerInv, Doomed
  <2> QED
    BY <2>1, <2>2
<1>6. CASE RefuseInput
  BY <1>6 DEF RefuseInput, Return, Refusal, Doomed
<1>7. CASE /\ ~(GrowCore \/ ShrinkCore \/ GrowthEnds \/ ShrinkEnds)
           /\ ~(SettleGrow \/ SettleShrink \/ RefuseInput)
  <2>1. UNCHANGED core /\ phase' # "done"
    BY <1>7 DEF Next, PlannerStep, Admit, AttemptScheduled, AttemptConverged, AttemptBarred,
           LoopEnds, LoopCancelled, LoopOutOfAttempts, StartCandidate, Searching, OrderFound,
           SearchStopped, OrderMissing, FlushBatch, JoinBatch, SplitBatch, CheckSingle,
           FlushLast, VerifyStructure, VerifyStage, SelectPlan, SettleMain, EndAttempt,
           RejectCandidate, Compressing, compressUnchanged, RequestStop, Returned, vars
  <2> QED
    BY <2>1 DEF Doomed
<1> QED
  BY <1>1, <1>3, <1>4, <1>5, <1>6, <1>7

\* A call that will not publish does not come to publish.
LEMMA NextDoomed == PlannerInv /\ SearchTypeOK /\ Doomed /\ [Next]_vars => Doomed'
<1> SUFFICES ASSUME PlannerInv, SearchTypeOK, Doomed, [Next]_vars PROVE Doomed'
  OBVIOUS
<1>1. CASE UNCHANGED vars
  BY <1>1 DEF vars, Doomed, MoreCandidates, CandidateCount
<1>2. CASE core.mode # "off" /\ phase # "done" /\ Next
  BY <1>2, CoreStaysDoomed
<1>3. CASE phase = "done" /\ Next
  <2>1. UNCHANGED vars
    BY <1>3 DEF Next, PlannerStep, Admit, RefuseInput, AttemptScheduled, AttemptConverged,
         AttemptBarred, LoopEnds, LoopCancelled, LoopOutOfAttempts, StartCandidate, Searching,
         OrderFound, SearchStopped, OrderMissing, Compressing, FlushBatch, JoinBatch,
         SplitBatch, CheckSingle, FlushLast, VerifyStructure, VerifyStage, SelectPlan,
         SettleMain, GrowCore, GrowthEnds, ShrinkCore, ShrinkEnds, SettleGrow, SettleShrink,
         RequestStop, Returned
  <2> QED
    BY <1>1, <2>1
<1>4. CASE core.mode = "off" /\ stop /\ phase = "candidate" /\ MoreCandidates /\ Next
  <2>1. LoopCancelled
    BY <1>4 DEF Next, PlannerStep, Admit, RefuseInput, AttemptScheduled, AttemptConverged,
         AttemptBarred, LoopEnds, LoopOutOfAttempts, StartCandidate, Searching,
         OrderFound, SearchStopped, OrderMissing, Compressing, FlushBatch, JoinBatch,
         SplitBatch, CheckSingle, FlushLast, VerifyStructure, VerifyStage, SelectPlan,
         SettleMain, GrowCore, GrowthEnds, ShrinkCore, ShrinkEnds, SettleGrow, SettleShrink,
         RequestStop, Returned
  <2> QED
    BY <2>1 DEF LoopCancelled, EndAttempt, Failed, Doomed
<1>5. CASE /\ core.mode = "off" /\ stop /\ phase = "search"
           /\ search.outcome \in {"running", "cancelled"} /\ Next
  <2>1. (Searching /\ SearchCancelled) \/ SearchStopped
    BY <1>5 DEF Next, PlannerStep, Admit, RefuseInput, AttemptScheduled, AttemptConverged,
         AttemptBarred, LoopEnds, LoopCancelled, LoopOutOfAttempts, StartCandidate, Searching,
         SearchStep, SearchComplete, SearchLimit, SearchCommit, SearchBacktrack, Continues,
         OrderFound, SearchStopped, OrderMissing, Compressing, FlushBatch, JoinBatch,
         SplitBatch, CheckSingle, FlushLast, VerifyStructure, VerifyStage, SelectPlan,
         SettleMain, GrowCore, GrowthEnds, ShrinkCore, ShrinkEnds, SettleGrow, SettleShrink,
         RequestStop, Returned
  <2>2. CASE Searching /\ SearchCancelled
    <3>1. /\ search' = [search EXCEPT !.outcome = "cancelled"]
          /\ stop' = stop /\ phase' = phase
      BY <2>2 DEF Searching, SearchCancelled
    <3>2. search'.outcome = "cancelled"
      BY <3>1 DEF SearchTypeOK
    <3> QED
      BY <1>5, <3>1, <3>2 DEF Doomed
  <2>3. CASE SearchStopped
    BY <2>3 DEF SearchStopped, EndAttempt, Failed, Doomed
  <2> QED
    BY <2>1, <2>2, <2>3
<1>6. CASE core.mode = "off" /\ phase = "settle" /\ attempt = Failed("cancelled") /\ Next
  <2>1. SettleMain \/ RequestStop
    BY <1>6 DEF Next, PlannerStep, Admit, RefuseInput, AttemptScheduled, AttemptConverged,
         AttemptBarred, LoopEnds, LoopCancelled, LoopOutOfAttempts, StartCandidate, Searching,
         OrderFound, SearchStopped, OrderMissing, Compressing, FlushBatch, JoinBatch,
         SplitBatch, CheckSingle, FlushLast, VerifyStructure, VerifyStage, SelectPlan,
         GrowCore, GrowthEnds, ShrinkCore, ShrinkEnds, SettleGrow, SettleShrink, Returned
  <2>2. CASE SettleMain
    <3>1. ~Succeeded /\ attempt.code \notin OrderingFailures
      BY <1>6 DEF Succeeded, Failed, OrderingFailures
    <3>2. phase' = "done" /\ result' = Refusal(attempt.code, {})
      BY <2>2, <3>1 DEF SettleMain, Return
    <3> QED
      BY <3>2 DEF Refusal, Doomed
  <2>3. CASE RequestStop
    BY <1>6, <2>3 DEF RequestStop, Doomed
  <2> QED
    BY <2>1, <2>2, <2>3
<1> QED
  BY <1>1, <1>2, <1>3, <1>4, <1>5, <1>6 DEF Doomed

\* StopHonoured for every instance: once the stop token is raised while search_order
\* still looks for an order, or before run_attempt starts a candidate, generate_plan never
\* publishes a plan, whatever it has verified before.
THEOREM StopsAreHonoured == Spec => StopHonoured
<1>1. TypeInv /\ Doomed /\ [Next]_vars => Doomed'
  BY NextDoomed DEF TypeInv, WorkTypeOK
<1>2. stop /\ Undecided => Doomed
  BY DEF Undecided, Doomed, Running
<1>3. TypeInv /\ Doomed => ~Published
  <2> SUFFICES ASSUME TypeInv, Doomed, result.kind = "plan" PROVE FALSE
    BY DEF Published
  <2>1. phase = "done"
    BY DEF TypeInv, PlannerInv, Nothing
  <2>2. result.kind = "refusal"
    BY <2>1 DEF Doomed
  <2> QED
    BY <2>2
<1>4. Spec => []TypeInv
  BY InitTypeInv, NextTypeInv, PTL DEF Spec
<1> QED
  BY <1>1, <1>2, <1>3, <1>4, PTL DEF Spec, StopHonoured

-----------------------------------------------------------------------------
(* The best candidate is published.                                        *)

\* Running totals of integers are integers.
LEMMA TotalsInInt ==
  ASSUME NEW n \in Nat, NEW charges \in [1 .. n -> Int]
  PROVE  Totals(0, charges)[n] \in Int
<1> DEFINE t == Totals(0, charges)
           Outside == {i \in 0 .. n : t[i] \notin Int}
<1>1. Len(charges) = n
  BY FunctionIsSeq
<1>2. PICK u : TotalUp(0, charges, u, n)
  BY TotalsExist
<1>3. t = [i \in 0 .. n |-> IF i = 0 THEN 0 ELSE t[i - 1] + charges[i]]
  BY <1>1, <1>2 DEF Totals, TotalUp
<1>4. t[0] = 0 /\ \A i \in 1 .. n : t[i] = t[i - 1] + charges[i]
  BY <1>3
<1> HIDE DEF t
<1>5. SUFFICES ASSUME Outside # {} PROVE FALSE
  BY DEF t
<1>6. PICK i \in Outside : \A j \in Outside : i <= j
  <2>1. Outside \subseteq Nat
    OBVIOUS
  <2> HIDE DEF Outside
  <2> QED
    BY <1>5, <2>1, LeastNat
<1>7. i \in 1 .. n
  BY <1>4, <1>6
<1>8. t[i - 1] \in Int
  BY <1>6, <1>7
<1>9. charges[i] \in Int
  BY <1>7
<1>10. t[i] \in Int
  BY <1>4, <1>7, <1>8, <1>9
<1> QED
  BY <1>6, <1>10

\* Among finitely many integers and zero one is largest, and Max picks an integer.
LEMMA LargestExists ==
  ASSUME NEW n \in Nat, NEW f \in [1 .. n -> Int]
  PROVE  Max({0} \cup {f[k] : k \in 1 .. n}) \in Int
<1> DEFINE upTo(m) == {0} \cup {f[k] : k \in 1 .. m}
           Largest(m, x) == x \in upTo(m) /\ \A y \in upTo(m) : x >= y
           Without == {m \in 0 .. n : ~\E x : Largest(m, x)}
<1>1. \A m \in 0 .. n : \A y \in upTo(m) : y \in Int
  OBVIOUS
<1>2. Largest(0, 0)
  OBVIOUS
<1>3. \A m \in 1 .. n : upTo(m) = upTo(m - 1) \cup {f[m]}
  <2> TAKE m \in 1 .. n
  <2>1. 1 .. m = (1 .. m - 1) \cup {m}
    OBVIOUS
  <2> QED
    BY <2>1
<1> HIDE DEF upTo
<1>4. ASSUME NEW m \in 1 .. n, NEW x, Largest(m - 1, x) PROVE \E z : Largest(m, z)
  <2>1. m - 1 \in 0 .. n
    OBVIOUS
  <2>2. x \in Int /\ f[m] \in Int /\ \A y \in upTo(m - 1) : y \in Int
    BY <1>1, <1>4, <2>1
  <2>3. CASE x >= f[m]
    <3>1. Largest(m, x)
      BY <1>3, <1>4, <2>3
    <3> QED
      BY <3>1
  <2>4. CASE ~(x >= f[m])
    <3>1. \A y \in upTo(m - 1) : f[m] >= y
      BY <1>4, <2>2, <2>4
    <3>2. f[m] >= f[m]
      BY <2>2
    <3>3. Largest(m, f[m])
      BY <1>3, <3>1, <3>2
    <3> QED
      BY <3>3
  <2> QED
    BY <2>3, <2>4
<1> HIDE DEF Largest
<1>5. Without = {}
  <2> SUFFICES ASSUME Without # {} PROVE FALSE
    OBVIOUS
  <2>1. Without \subseteq Nat
    OBVIOUS
  <2>2. PICK m \in Without : \A l \in Without : m <= l
    <3> HIDE DEF Without
    <3> QED
      BY <2>1, LeastNat
  <2>3. m \in 0 .. n /\ ~\E x : Largest(m, x)
    OBVIOUS
  <2>4. m \in 1 .. n
    BY <1>2, <2>3
  <2>5. m - 1 \in 0 .. n /\ m - 1 \notin Without
    <3>1. m - 1 \in 0 .. n /\ ~(m <= m - 1)
      BY <2>4
    <3> HIDE DEF Without
    <3> QED
      BY <2>2, <3>1
  <2>6. \E x : Largest(m - 1, x)
    BY <2>5
  <2> QED
    BY <1>4, <2>3, <2>4, <2>6
<1>6. PICK x : Largest(n, x)
  <2>1. n \in 0 .. n
    OBVIOUS
  <2> QED
    BY <1>5, <2>1
<1>7. Max(upTo(n)) \in upTo(n)
  BY <1>6 DEF Largest, Max
<1> QED
  BY <1>1, <1>7 DEF upTo

\* A plan over the operations of a request has a vector of integers, one per metric.
LEMMA VectorType ==
  ASSUME NEW r \in Requests, NEW q \in Relaxations(r), NEW plan,
         plan.stages \in Seq([steps : Seq(1 .. q.n), basis : States, permutations : Nat])
  PROVE  ObjectiveVector(q, plan) \in [1 .. Len(q.priority) -> Int]
<1> DEFINE n == Len(plan.stages)
           risk == [k \in 1 .. n |-> StageRisk(q, plan.stages[k])]
<1>1. q.priority = r.priority /\ q.n = r.n /\ q.risk = r.risk
  BY CodeAssumption, RequestAssumption DEF Relaxations
<1>2. Len(q.priority) \in Nat /\ DOMAIN q.priority = 1 .. Len(q.priority)
  BY <1>1, CodeAssumption, EntryOfSeq
<1>3. n \in Nat /\ DOMAIN plan.stages = 1 .. n
      /\ \A k \in 1 .. n : plan.stages[k].steps \in Seq(1 .. q.n)
  <2>1. n \in Nat /\ DOMAIN plan.stages = 1 .. n
        /\ \A k \in 1 .. n : plan.stages[k] \in
             [steps : Seq(1 .. q.n), basis : States, permutations : Nat]
    BY EntryOfSeq
  <2> QED
    BY <2>1
<1>4. ASSUME NEW k \in 1 .. n PROVE StageRisk(q, plan.stages[k]) \in Int
  <2> DEFINE steps == plan.stages[k].steps
             charges == [i \in DOMAIN steps |-> q.risk[steps[i]]]
  <2>1. Len(steps) \in Nat /\ DOMAIN steps = 1 .. Len(steps)
        /\ \A i \in 1 .. Len(steps) : steps[i] \in 1 .. q.n
    BY <1>3, EntryOfSeq
  <2>2. \A o \in 1 .. q.n : q.risk[o] \in Int
    BY <1>1, RequestAssumption
  <2>3. charges \in [1 .. Len(steps) -> Int]
    BY <2>1, <2>2
  <2>4. Totals(0, charges)[Len(steps)] \in Int
    <3> HIDE DEF charges
    <3> QED
      BY <2>1, <2>3, TotalsInInt
  <2> QED
    BY <2>4 DEF StageRisk
<1>5. risk \in [1 .. n -> Int]
  BY <1>4
<1>6. {StageRisk(q, plan.stages[k]) : k \in DOMAIN plan.stages} = {risk[k] : k \in 1 .. n}
  BY <1>3
<1>7. Max({0} \cup {StageRisk(q, plan.stages[k]) : k \in DOMAIN plan.stages}) \in Int
  <2> HIDE DEF risk
  <2> QED
    BY <1>3, <1>5, <1>6, LargestExists
<1>8. \A metric : Metric(q, metric, plan) \in Int
  BY <1>3, <1>7 DEF Metric
<1> QED
  BY <1>2, <1>8 DEF ObjectiveVector

\* No plan of a set is preferred to best.
Unbeaten(r, plans, best) == best \in plans /\ \A plan \in plans : ~Prefers(r, plan, best)

\* The plans of a set have vectors of one length.
Measured(r, plans) ==
  \A plan \in plans : ObjectiveVector(r, plan) \in [1 .. Len(r.priority) -> Int]

\* The plans the candidate loop has verified and the best of them; what an attempt
\* returns is that one, unless there was nothing to do.
BestInv ==
  /\ phase \in {"candidate", "search", "compress", "verify", "replay"} =>
       /\ Measured(req, pick.verified)
       /\ IF pick.best = Nothing THEN pick.verified = {}
          ELSE Unbeaten(req, pick.verified, pick.best)
  /\ phase = "settle" /\ Succeeded =>
       attempt.stages = <<>> \/ Unbeaten(req, pick.verified, attempt)
  /\ phase = "done" => BestPublished

\* Whichever way a verdict may fall, the best of the plans verified so far stays the best
\* once one more has been compared with it.
LEMMA VerdictKeepsBest ==
  ASSUME NEW r, Len(r.priority) \in Nat, NEW plans, NEW best, NEW plan,
         NEW wins \in Verdicts(r, plan, best),
         Measured(r, plans \cup {plan}),
         IF best = Nothing THEN plans = {} ELSE Unbeaten(r, plans, best)
  PROVE  Unbeaten(r, plans \cup {plan}, IF wins THEN plan ELSE best)
<1> DEFINE v(p) == ObjectiveVector(r, p)
           k == Len(r.priority)
<1>1. \A p \in plans \cup {plan} : v(p) \in [1 .. k -> Int]
  BY DEF Measured
<1>2. \A p, q : Prefers(r, p, q) <=> LexLess(v(p), v(q))
  BY DEF Prefers
<1> HIDE DEF v, k
<1>3. k \in Nat
  BY DEF k
<1>4. \A p \in plans \cup {plan} : ~Prefers(r, p, p)
  <2> SUFFICES ASSUME NEW p \in plans \cup {plan} PROVE ~LexLess(v(p), v(p))
    BY <1>2
  <2>1. \A i \in DOMAIN v(p) : v(p)[i] \in Int
    BY <1>1
  <2> QED
    BY <2>1, LexIrreflexive
<1>5. \A p, q, s \in plans \cup {plan} : Prefers(r, p, q) /\ Prefers(r, q, s) => Prefers(r, p, s)
  BY ZenonT(60), <1>1, <1>2, <1>3, LexTransitive
<1>6. \A p, q \in plans \cup {plan} : v(p) = v(q) \/ Prefers(r, p, q) \/ Prefers(r, q, p)
  BY <1>1, <1>2, <1>3, LexTotal
<1>7. CASE best = Nothing
  BY <1>4, <1>7 DEF Verdicts, Unbeaten
<1>8. CASE best # Nothing /\ wins
  <2>1. Unbeaten(r, plans, best) /\ best \in plans
    BY <1>8 DEF Unbeaten
  <2>2. ASSUME NEW p \in plans, Prefers(r, p, plan) PROVE FALSE
    <3>1. ~Prefers(r, p, best)
      BY <2>1 DEF Unbeaten
    <3>2. ~Prefers(r, plan, best)
      BY <1>5, <2>1, <2>2, <3>1
    <3>3. ~Prefers(r, best, plan)
      BY <1>8, <3>2 DEF Verdicts
    <3>4. v(plan) = v(best)
      BY <1>6, <2>1, <3>2, <3>3
    <3> QED
      BY <1>2, <2>2, <3>1, <3>4
  <2> QED
    BY <1>4, <1>8, <2>2 DEF Unbeaten
<1>9. CASE best # Nothing /\ ~wins
  <2>1. Unbeaten(r, plans, best)
    BY <1>9
  <2>2. ~Prefers(r, plan, best)
    BY <1>9 DEF Verdicts
  <2> QED
    BY <1>9, <2>1, <2>2 DEF Unbeaten
<1> QED
  BY <1>7, <1>8, <1>9

\* Every step keeps the best candidate the best.
LEMMA NextBestInv == TypeInv /\ BestInv /\ [Next]_vars => BestInv'
<1> SUFFICES ASSUME TypeInv, BestInv, [Next]_vars PROVE BestInv'
  OBVIOUS
<1> USE DEF Nothing
<1> DEFINE Loop == {"candidate", "search", "compress", "verify", "replay"}
<1>1. /\ request \in Requests /\ req \in Relaxations(request)
      /\ sched.stages \in Seq([steps : Seq(1 .. req.n), basis : States, permutations : Nat])
      /\ pick = [candidate |-> pick.candidate, limit |-> pick.limit, best |-> pick.best,
                 verified |-> pick.verified]
  BY DEF TypeInv, PlannerInv, WorkTypeOK, ScheduleTypeOK
<1>2. Len(req.priority) \in Nat
  <2>1. req.priority = request.priority
    BY <1>1, CodeAssumption DEF Relaxations
  <2>2. request.priority \in Seq(STRING)
    BY <1>1, CodeAssumption
  <2> QED
    BY <2>1, <2>2, EntryOfSeq
<1>3. UNCHANGED request
  BY NextRequest DEF vars
<1>4. ASSUME phase \in Loop, phase' \in Loop, UNCHANGED req,
             pick'.best = pick.best, pick'.verified = pick.verified
      PROVE  BestInv'
  BY <1>4 DEF BestInv, Unbeaten, Measured
<1>5. ASSUME phase' \in {"begin", "core"} PROVE BestInv'
  BY <1>5 DEF BestInv
<1>6. ASSUME phase' = "settle", attempt'.kind = "failed" PROVE BestInv'
  BY <1>6 DEF BestInv, Succeeded
<1>7. ASSUME phase' = "done", result'.kind = "refusal" PROVE BestInv'
  BY <1>7 DEF BestInv, BestPublished, Published
<1>8. CASE Admit
  BY <1>5, <1>8 DEF Admit
<1>9. CASE RefuseInput
  BY <1>7, <1>9 DEF RefuseInput, Return, Refusal
<1>10. CASE AttemptScheduled
  BY <1>10 DEF AttemptScheduled, NoPick, BestInv, Measured
<1>11. CASE AttemptConverged
  <2>1. phase' = "settle" /\ attempt'.stages = <<>>
    BY <1>11 DEF AttemptConverged, EndAttempt, PlanOf
  <2> QED
    BY <2>1 DEF BestInv
<1>12. CASE AttemptBarred
  BY <1>6, <1>12 DEF AttemptBarred, EndAttempt, Failed
<1>13. CASE LoopEnds
  <2>1. phase = "candidate" /\ phase' = "settle" /\ UNCHANGED <<req, pick>>
        /\ ((attempt' = pick.best /\ pick.best # Nothing) \/ attempt'.kind = "failed")
    BY <1>13 DEF LoopEnds, EndAttempt, searchVars, Failed
  <2>2. CASE attempt' = pick.best /\ pick.best # Nothing
    <3>1. Unbeaten(req, pick.verified, pick.best)
      BY <2>1, <2>2 DEF BestInv
    <3> QED
      BY <2>1, <2>2, <3>1 DEF BestInv, Unbeaten
  <2> QED
    BY <1>6, <2>1, <2>2
<1>14. CASE LoopCancelled \/ LoopOutOfAttempts
  BY <1>6, <1>14 DEF LoopCancelled, LoopOutOfAttempts, EndAttempt, Failed
<1>15. CASE StartCandidate \/ OrderFound
  BY <1>4, <1>15 DEF StartCandidate, OrderFound, searchVars
<1>16. CASE Searching
  <2>1. UNCHANGED <<req, pick, phase>> /\ phase = "search"
    BY <1>16 DEF Searching, SearchStep, SearchCancelled, SearchComplete, SearchLimit,
           SearchCommit, SearchBacktrack
  <2> QED
    BY <1>4, <2>1
<1>17. CASE SearchStopped
  BY <1>6, <1>17 DEF SearchStopped, EndAttempt, Failed
<1>18. ASSUME NEW limit, phase \in Loop, RejectCandidate(limit), UNCHANGED req PROVE BestInv'
  <2>1. pick'.best = pick.best /\ pick'.verified = pick.verified /\ phase' = "candidate"
    BY <1>1, <1>18 DEF RejectCandidate
  <2> QED
    BY <1>4, <1>18, <2>1
<1>19. CASE OrderMissing
  <2>1. phase \in Loop /\ RejectCandidate(search.outcome = "limit") /\ UNCHANGED req
    BY <1>19 DEF OrderMissing, searchVars
  <2> QED
    BY <1>18, <2>1
<1>20. CASE FlushBatch \/ JoinBatch \/ SplitBatch \/ CheckSingle \/ FlushLast
  <2>1. phase = "compress" /\ UNCHANGED req
    BY <1>20 DEF FlushBatch, JoinBatch, SplitBatch, CheckSingle, FlushLast, Compressing,
                 compressUnchanged
  <2>2. \/ \E limit : RejectCandidate(limit)
        \/ phase' \in {"compress", "verify"} /\ UNCHANGED pick
    BY <1>20, <2>1 DEF FlushBatch, JoinBatch, SplitBatch, CheckSingle, FlushLast
  <2> QED
    BY <1>4, <1>18, <2>1, <2>2
<1>21. CASE VerifyStructure \/ VerifyStage
  <2>1. /\ phase \in Loop /\ UNCHANGED req
        /\ \/ phase' \in Loop /\ UNCHANGED pick
           \/ RejectCandidate(FALSE)
    BY <1>21 DEF VerifyStructure, VerifyStage, searchVars
  <2>2. CASE phase' \in Loop /\ UNCHANGED pick
    <3>1. pick'.best = pick.best /\ pick'.verified = pick.verified
      BY <2>2
    <3> QED
      BY <1>4, <2>1, <2>2, <3>1
  <2>3. CASE RejectCandidate(FALSE)
    <3>1. PICK limit : limit = FALSE /\ RejectCandidate(limit)
      BY <2>3
    <3> QED
      BY <1>18, <2>1, <3>1
  <2> QED
    BY <2>1, <2>2, <2>3
<1>22. CASE SelectPlan
  <2> DEFINE plan == PlanOf(sched.stages, report.trace)
  <2>1. plan.stages = sched.stages /\ plan # Nothing
    BY DEF PlanOf
  <2> HIDE DEF plan
  <2>2. PICK wins \in Verdicts(req, plan, pick.best) :
          pick' = [pick EXCEPT !.candidate = @ + 1, !.verified = @ \cup {plan},
                               !.best = IF wins THEN plan ELSE @]
    BY <1>22 DEF SelectPlan, plan
  <2>3. /\ pick'.verified = pick.verified \cup {plan}
        /\ pick'.best = IF wins THEN plan ELSE pick.best
    BY <1>1, <2>2
  <2>4. phase = "replay" /\ phase' = "candidate" /\ UNCHANGED req
    BY <1>22 DEF SelectPlan, searchVars
  <2>5. Measured(req, pick.verified \cup {plan})
    BY <1>1, <2>1, <2>4, VectorType DEF Measured, BestInv
  <2>6. Unbeaten(req, pick.verified \cup {plan}, IF wins THEN plan ELSE pick.best)
    BY <1>2, <2>4, <2>5, VerdictKeepsBest DEF BestInv
  <2>7. (IF wins THEN plan ELSE pick.best) # Nothing
    <3>1. pick.best = Nothing => wins
      BY DEF Verdicts
    <3> QED
      BY <2>1, <3>1
  <2> QED
    BY <2>3, <2>4, <2>5, <2>6, <2>7 DEF BestInv, Unbeaten, Measured
<1>23. CASE SettleMain
  <2>1. phase = "settle" /\ core.mode = "off" /\ UNCHANGED pick
    BY <1>23 DEF SettleMain
  <2>2. CASE Succeeded
    <3>1. phase' = "done" /\ result' = attempt
      BY <1>23, <2>2 DEF SettleMain, Return
    <3>2. req = request
      BY <2>1 DEF TypeInv, PlannerInv
    <3>3. attempt.stages = <<>> \/ Unbeaten(request, pick.verified, attempt)
      BY <2>1, <2>2, <3>2 DEF BestInv
    <3> QED
      BY <1>3, <2>1, <3>1, <3>3 DEF BestInv, BestPublished, Unbeaten
  <2>3. CASE ~Succeeded
    <3>1. phase' = "core" \/ (phase' = "done" /\ result'.kind = "refusal")
      BY <1>23, <2>3 DEF SettleMain, Return, Refusal
    <3> QED
      BY <1>5, <1>7, <3>1
  <2> QED
    BY <2>2, <2>3
<1>24. CASE GrowCore \/ ShrinkCore
  BY <1>5, <1>24 DEF GrowCore, ShrinkCore, TryWithout
<1>25. ASSUME NEW disabled, CoreFinished(disabled) PROVE BestInv'
  BY <1>7, <1>25 DEF CoreFinished, Return, Refusal
<1>26. CASE GrowthEnds \/ ShrinkEnds \/ SettleGrow \/ SettleShrink
  <2>1. phase' = "core" \/ \E disabled : CoreFinished(disabled)
    BY <1>26 DEF GrowthEnds, ShrinkEnds, SettleGrow, SettleShrink
  <2> QED
    BY <1>5, <1>25, <2>1
<1>27. CASE RequestStop \/ Returned \/ UNCHANGED vars
  <2>1. UNCHANGED <<request, req, phase, pick, attempt, result>>
    BY <1>27 DEF RequestStop, Returned, vars
  <2> QED
    BY <2>1 DEF BestInv, Unbeaten, Measured, Succeeded, BestPublished, Published
<1> QED
  BY <1>8, <1>9, <1>10, <1>11, <1>12, <1>13, <1>14, <1>15, <1>16, <1>17, <1>19, <1>20,
     <1>21, <1>22, <1>23, <1>24, <1>26, <1>27 DEF Next, PlannerStep

\* BestPublished for every instance: run_attempt publishes a plan it has verified, and
\* none of the plans it has verified is preferred to that one, although candidates with
\* equal vectors are decided by a digest.
THEOREM BestIsPublished == Spec => []BestPublished
<1> DEFINE Inv == TypeInv /\ BestInv
<1>1. Init => Inv
  <2> SUFFICES ASSUME Init PROVE Inv
    OBVIOUS
  <2>1. phase = "admit"
    BY DEF Init
  <2> QED
    BY <2>1, InitTypeInv DEF BestInv
<1>2. Inv /\ [Next]_vars => Inv'
  BY NextTypeInv, NextBestInv
<1>3. Inv => BestPublished
  <2> SUFFICES ASSUME Inv PROVE BestPublished
    OBVIOUS
  <2>1. CASE phase = "done"
    BY <2>1 DEF BestInv
  <2>2. CASE phase # "done"
    BY <2>2 DEF TypeInv, PlannerInv, Nothing, BestPublished, Published
  <2> QED
    BY <2>1, <2>2
<1> HIDE DEF Inv
<1> QED
  BY <1>1, <1>2, <1>3, PTL DEF Spec

=============================================================================
