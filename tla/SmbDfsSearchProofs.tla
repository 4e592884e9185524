------------------------ MODULE SmbDfsSearchProofs --------------------------
(***************************************************************************)
(* The depth-first search can always restore the top of its stack, closes  *)
(* a node only with a proof, and plans for the best of the nodes it found  *)
(* alive: for every set of action orders, positions and limits, whatever   *)
(* the emulator shows.                                                     *)
(*                                                                         *)
(* Indices of nodes_ only grow and a node's parent is older than itself.   *)
(* So the stack is an increasing path, a node that is popped is nowhere    *)
(* else on it, and the path from the root to a node does not change when   *)
(* nodes are added: reconstructPlanFrames, a recursion along the parents,  *)
(* is treated by induction on the index (LeastIndex).                      *)
(***************************************************************************)
EXTENDS SmbDfsSearch, IndexInduction, SequenceTheorems, TLAPS

Actions == {<<>>} \cup UNION {{order[a] : a \in DOMAIN order} : order \in Orders}

Events ==
  {"RootInitialized", "ExpandedAlive", "PrunedBelowScreen", "PrunedDead", "PrunedTransposition",
   "PrunedNonGameplay", "PrunedVelocityStuck", "PrunedStalled"}

Node ==
  [parent : Nat, action : Actions, frontier : Nat, frames : Nat, idle : Nat, score : Nat, x : Nat,
   stuck : Nat, key : {NoKey} \cup Keys, outcome : {"Open", "ClosedLoss", "NotClosedLoss"},
   event : Events, held : BOOLEAN, order : Orders \cup {<<>>}]

StackFrame == [node : Nat, next : Nat \ {0}, candidate : BOOLEAN]

Entry == [frontier : Nat, frames : Nat, idle : Nat, some : BOOLEAN]

\* A parent is older than its children; the root has none.
Tree(ns) ==
  /\ Len(ns) \in Nat \ {0}
  /\ ns[1].parent = 0
  /\ \A i \in 2..Len(ns) : ns[i].parent \in 1..(i - 1)

SearchTypes ==
  /\ nodes \in Seq(Node) /\ Tree(nodes)
  /\ stack \in Seq(StackFrame)
  /\ table \in [Keys -> Entry]
  /\ status = "searching" => stack # <<>>
  /\ server = "SearchActive" => stored = NoPlan

\* The stack is an increasing sequence of nodes.
StackGrows ==
  /\ \A k \in DOMAIN stack : stack[k].node \in DOMAIN nodes
  /\ \A j, k \in DOMAIN stack : j < k => stack[j].node < stack[k].node

\* While a node may still become a closed loss, each action tried so far led to a
\* closed loss or to the node above it on the stack.
ActionsTried ==
  \A k \in DOMAIN stack : stack[k].candidate =>
    \A a \in 1..(stack[k].next - 1) :
      \E j \in DOMAIN nodes :
        /\ nodes[j].parent = stack[k].node
        /\ nodes[j].action = nodes[stack[k].node].order[a]
        /\ Closed(j) \/ (k + 1 \in DOMAIN stack /\ stack[k + 1].node = j)

\* Only nodes found alive are on the stack, and only they have actions to try.
StackAlive == \A k \in DOMAIN stack : stack[k].node \in Alive

SearchInv ==
  /\ SearchTypes
  /\ StackGrows /\ StackAlive /\ StackRestorable
  /\ status = "searching" => ActionsTried
  /\ ClosedLossProved
  /\ PlanOfTheBest

-----------------------------------------------------------------------------
(* Sequences.                                                              *)

\* The stack without its top.
LEMMA Popped ==
  ASSUME NEW S, NEW s \in Seq(S), s # <<>>
  PROVE  LET below == SubSeq(s, 1, Len(s) - 1) IN
         /\ below \in Seq(S) /\ Len(below) = Len(s) - 1 /\ Len(s) \in Nat \ {0}
         /\ DOMAIN below = 1..(Len(s) - 1) /\ DOMAIN s = 1..Len(s)
         /\ \A i \in 1..(Len(s) - 1) : below[i] = s[i] /\ i \in DOMAIN s
         /\ s[Len(s)] \in S
<1> DEFINE below == SubSeq(s, 1, Len(s) - 1)
<1>1. Len(s) \in Nat \ {0} /\ DOMAIN s = 1..Len(s) /\ \A i \in 1..Len(s) : s[i] \in S
  BY EmptySeq, LenProperties, ElementOfSeq
<1>2. \A i \in 1..(Len(s) - 1) : s[i] \in S
  BY <1>1
<1>3. /\ below \in Seq(S)
      /\ Len(below) = (IF 1 <= Len(s) - 1 THEN (Len(s) - 1) - 1 + 1 ELSE 0)
      /\ \A i \in 1..((Len(s) - 1) - 1 + 1) : below[i] = s[1 + i - 1]
  BY <1>1, <1>2, SubSeqProperties
<1> HIDE DEF below
<1>4. Len(below) = Len(s) - 1
  <2>1. CASE Len(s) = 1
    BY <1>3, <2>1
  <2>2. CASE Len(s) # 1
    <3>1. 1 <= Len(s) - 1 /\ (Len(s) - 1) - 1 + 1 = Len(s) - 1
      BY <1>1, <2>2
    <3> QED
      BY <1>3, <3>1
  <2> QED
    BY <2>1, <2>2
<1>5. DOMAIN below = 1..(Len(s) - 1)
  BY <1>3, <1>4, LenProperties
<1>6. ASSUME NEW i \in 1..(Len(s) - 1)
      PROVE  below[i] = s[i] /\ i \in DOMAIN s
  <2>1. (Len(s) - 1) - 1 + 1 = Len(s) - 1 /\ 1 + i - 1 = i /\ i \in 1..Len(s)
    BY <1>1
  <2>2. below[i] = s[1 + i - 1]
    BY <1>3, <2>1
  <2> QED
    BY <1>1, <2>1, <2>2
<1> QED
  BY <1>1, <1>3, <1>4, <1>5, <1>6 DEF below

\* The top is replaced.
LEMMA Replaced ==
  ASSUME NEW S, NEW s \in Seq(S), s # <<>>, NEW a \in S
  PROVE  LET t == Append(SubSeq(s, 1, Len(s) - 1), a) IN
         /\ t \in Seq(S) /\ t # <<>> /\ Len(t) = Len(s) /\ DOMAIN t = 1..Len(s)
         /\ \A i \in 1..(Len(s) - 1) : t[i] = s[i]
         /\ t[Len(s)] = a
<1> DEFINE below == SubSeq(s, 1, Len(s) - 1)
           t == Append(below, a)
<1>1. /\ below \in Seq(S) /\ Len(below) = Len(s) - 1 /\ Len(s) \in Nat \ {0}
      /\ \A i \in 1..(Len(s) - 1) : below[i] = s[i]
  BY Popped
<1> HIDE DEF below
<1>2. /\ t \in Seq(S) /\ t # <<>> /\ Len(t) = Len(below) + 1
      /\ \A i \in 1..Len(below) : t[i] = below[i]
      /\ t[Len(below) + 1] = a
  BY <1>1, AppendProperties
<1> HIDE DEF t
<1>3. DOMAIN t = 1..Len(t)
  BY <1>2, LenProperties
<1>4. Len(t) = Len(s) /\ DOMAIN t = 1..Len(s) /\ t[Len(s)] = a
  BY <1>1, <1>2, <1>3
<1> QED
  BY <1>1, <1>2, <1>4 DEF t, below

\* The top is replaced and a new top put onto it.
PushedOn(s, a, b) == SubSeq(s, 1, Len(s) - 1) \o <<a, b>>

LEMMA Pushed ==
  ASSUME NEW S, NEW s \in Seq(S), s # <<>>, NEW a \in S, NEW b \in S
  PROVE  LET t == PushedOn(s, a, b) IN
         /\ t \in Seq(S) /\ t # <<>> /\ Len(t) = Len(s) + 1 /\ DOMAIN t = 1..(Len(s) + 1)
         /\ \A i \in 1..(Len(s) - 1) : t[i] = s[i]
         /\ t[Len(s)] = a /\ t[Len(s) + 1] = b
<1> DEFINE below == SubSeq(s, 1, Len(s) - 1)
           two == <<a, b>>
           t == below \o two
<1>1. /\ below \in Seq(S) /\ Len(below) = Len(s) - 1 /\ Len(s) \in Nat \ {0}
      /\ \A i \in 1..(Len(s) - 1) : below[i] = s[i]
  BY Popped
<1> HIDE DEF below
<1>2. two \in Seq(S) /\ Len(two) = 2 /\ two[1] = a /\ two[2] = b
  OBVIOUS
<1> HIDE DEF two
<1>3. /\ t \in Seq(S)
      /\ Len(t) = Len(below) + Len(two)
      /\ \A i \in 1..(Len(below) + Len(two)) :
           t[i] = IF i <= Len(below) THEN below[i] ELSE two[i - Len(below)]
  BY <1>1, <1>2, ConcatProperties
<1> HIDE DEF t
<1>4. Len(t) = Len(s) + 1 /\ DOMAIN t = 1..(Len(s) + 1) /\ t # <<>>
  BY <1>1, <1>2, <1>3, LenProperties, EmptySeq
<1>5. t[Len(s)] = a /\ t[Len(s) + 1] = b
  <2>1. /\ Len(s) \in 1..(Len(below) + Len(two)) /\ ~(Len(s) <= Len(below))
        /\ Len(s) - Len(below) = 1
    BY <1>1, <1>2
  <2>2. /\ Len(s) + 1 \in 1..(Len(below) + Len(two)) /\ ~(Len(s) + 1 <= Len(below))
        /\ Len(s) + 1 - Len(below) = 2
    BY <1>1, <1>2
  <2> QED
    BY <1>2, <1>3, <2>1, <2>2
<1>6. ASSUME NEW i \in 1..(Len(s) - 1) PROVE t[i] = s[i]
  <2>1. i \in 1..(Len(below) + Len(two)) /\ i <= Len(below)
    BY <1>1, <1>2
  <2> QED
    BY <1>1, <1>3, <2>1
<1>7. t = PushedOn(s, a, b)
  BY DEF t, below, two, PushedOn
<1> QED
  BY <1>3, <1>4, <1>5, <1>6, <1>7

\* What is below the top stays.
LEMMA PushedBelow ==
  ASSUME NEW S, NEW s \in Seq(S), s # <<>>, NEW a \in S, NEW b \in S, NEW i \in 1..(Len(s) - 1)
  PROVE  PushedOn(s, a, b)[i] = s[i]
BY Pushed
-----------------------------------------------------------------------------
(* Plans.                                                                  *)

\* One step of reconstructPlanFrames.
Along(ns, f, i) == IF i = 1 THEN <<>> ELSE Append(f[ns[i].parent], ns[i].action)

\* The recursion along the parents ends.
LEMMA PathsExist ==
  ASSUME NEW ns, Tree(ns)
  PROVE  \E f : f = [i \in 1..Len(ns) |-> Along(ns, f, i)]
<1> DEFINE Ok(k) == \E f : f = [i \in 1..k |-> Along(ns, f, i)]
           Bad == {k \in 0..Len(ns) : ~Ok(k)}
<1>0. Len(ns) \in Nat
  BY DEF Tree
<1>1. Ok(0)
  <2> DEFINE e == [i \in 1..0 |-> <<>>]
  <2>1. e = [i \in 1..0 |-> Along(ns, e, i)]
    OBVIOUS
  <2> QED
    BY <2>1
<1>2. ASSUME NEW k \in 0..Len(ns), k + 1 <= Len(ns), Ok(k)
      PROVE  Ok(k + 1)
  <2> PICK f : f = [i \in 1..k |-> Along(ns, f, i)]
    BY <1>2
  <2> DEFINE g == [i \in 1..(k + 1) |-> IF i <= k THEN f[i] ELSE Along(ns, f, i)]
  <2>1. ASSUME NEW i \in 1..(k + 1) PROVE g[i] = Along(ns, g, i)
    <3>1. i # 1 => ns[i].parent \in 1..(i - 1) /\ ns[i].parent <= k
      BY <1>0, <1>2 DEF Tree
    <3>2. i # 1 => g[ns[i].parent] = f[ns[i].parent]
      BY <3>1, <1>0
    <3>3. Along(ns, g, i) = Along(ns, f, i)
      <4> HIDE DEF g
      <4>1. CASE i = 1
        BY <4>1 DEF Along
      <4>2. CASE i # 1
        BY <3>2, <4>2 DEF Along
      <4> QED
        BY <4>1, <4>2
    <3>4. i <= k => f[i] = Along(ns, f, i)
      BY <1>0
    <3> QED
      BY <3>3, <3>4
  <2>2. g = [i \in 1..(k + 1) |-> Along(ns, g, i)]
    BY <2>1
  <2> QED
    BY <2>2
<1> HIDE DEF Ok
<1>3. CASE Bad = {}
  <2>1. Len(ns) \in 0..Len(ns)
    BY <1>0
  <2>2. Ok(Len(ns))
    BY <1>3, <2>1
  <2> QED
    BY <2>2 DEF Ok
<1>4. CASE Bad # {}
  <2>1. Bad \in SUBSET Nat
    BY <1>0
  <2>2. PICK n \in Bad : \A m \in Bad : n <= m
    BY <1>4, <2>1, LeastIndex
  <2>3. n # 0 /\ n \in 0..Len(ns) /\ ~Ok(n)
    BY <1>1
  <2>4. n - 1 \in 0..Len(ns) /\ (n - 1) + 1 = n /\ ~(n <= n - 1)
    BY <2>3, <1>0
  <2>5. Ok(n - 1)
    BY <2>2, <2>4
  <2> QED
    BY <1>2, <2>3, <2>4, <2>5
<1> QED
  BY <1>3, <1>4

\* The path of a node is that of its parent and one action more.
LEMMA PlanFramesDef ==
  ASSUME NEW ns, Tree(ns)
  PROVE  PlanFrames(ns) = [i \in 1..Len(ns) |-> Along(ns, PlanFrames(ns), i)]
<1> DEFINE P(f) == f = [i \in 1..Len(ns) |-> Along(ns, f, i)]
<1>1. \E f : P(f)
  BY PathsExist
<1>2. PlanFrames(ns) = CHOOSE f : P(f)
  BY DEF PlanFrames, Along
<1> HIDE DEF P
<1>3. P(PlanFrames(ns))
  BY <1>1, <1>2
<1> QED
  BY <1>3 DEF P

\* The path to a node does not depend on what has happened to other nodes since.
LEMMA PlanFramesStable ==
  ASSUME NEW ns, NEW ms, Tree(ns), Tree(ms), Len(ns) <= Len(ms),
         \A i \in 1..Len(ns) : ns[i].parent = ms[i].parent /\ ns[i].action = ms[i].action
  PROVE  \A i \in 1..Len(ns) : PlanFrames(ns)[i] = PlanFrames(ms)[i]
<1> DEFINE f == PlanFrames(ns)
           g == PlanFrames(ms)
           Differ == {i \in 1..Len(ns) : f[i] # g[i]}
<1>0. Len(ns) \in Nat /\ Len(ms) \in Nat
  BY DEF Tree
<1>1. f = [i \in 1..Len(ns) |-> Along(ns, f, i)] /\ g = [i \in 1..Len(ms) |-> Along(ms, g, i)]
  BY PlanFramesDef
<1> HIDE DEF f, g
<1>2. ASSUME NEW i \in 1..Len(ns)
      PROVE  f[i] = Along(ns, f, i) /\ g[i] = Along(ms, g, i)
  <2>1. i \in 1..Len(ms)
    BY <1>0
  <2>2. g[i] = Along(ms, g, i)
    BY <1>1, <2>1
  <2>3. f[i] = Along(ns, f, i)
    BY <1>1
  <2> QED
    BY <2>2, <2>3
<1>3. CASE Differ = {}
  BY <1>3 DEF f, g
<1>4. CASE Differ # {}
  <2>1. Differ \in SUBSET Nat
    BY <1>0
  <2>2. PICK n \in Differ : \A m \in Differ : n <= m
    BY <1>4, <2>1, LeastIndex
  <2>3. n \in 1..Len(ns) /\ f[n] # g[n]
    OBVIOUS
  <2>4. CASE n = 1
    BY <1>2, <2>3, <2>4 DEF Along
  <2>5. CASE n # 1
    <3>1. ns[n].parent \in 1..(n - 1)
      BY <1>0, <2>3, <2>5 DEF Tree
    <3>2. ns[n].parent \in 1..Len(ns) /\ ~(n <= ns[n].parent)
      BY <1>0, <2>3, <3>1
    <3>3. f[ns[n].parent] = g[ns[n].parent]
      BY <2>2, <3>2
    <3>4. ns[n].parent = ms[n].parent /\ ns[n].action = ms[n].action
      BY <2>3
    <3> QED
      BY <1>2, <2>3, <2>5, <3>3, <3>4 DEF Along
  <2> QED
    BY <2>4, <2>5
<1> QED
  BY <1>3, <1>4
-----------------------------------------------------------------------------
(* The child of an expansion.                                              *)

\* An action order is a sequence of actions; a pruned node has none.
LEMMA OrderTypes ==
  ASSUME NEW order \in Orders \cup {<<>>}
  PROVE  /\ Len(order) \in Nat /\ DOMAIN order = 1..Len(order)
         /\ \A a \in DOMAIN order : order[a] \in Actions
<1>1. CASE order = <<>>
  BY <1>1
<1>2. CASE order \in Orders
  <2>1. order \in Seq({order[i] : i \in DOMAIN order})
    BY <1>2, SearchAssumption
  <2>2. Len(order) \in Nat /\ DOMAIN order = 1..Len(order)
    BY <2>1, LenProperties
  <2> QED
    BY <1>2, <2>2 DEF Actions
<1> QED
  BY <1>1, <1>2

\* The node on top of the stack, and its next action.
LEMMA TopTypes ==
  ASSUME SearchTypes, StackGrows, stack # <<>>
  PROVE  /\ Top \in StackFrame /\ Top.node \in DOMAIN nodes /\ Parent \in Node
         /\ Len(stack) \in Nat \ {0} /\ DOMAIN stack = 1..Len(stack)
         /\ Len(nodes) \in Nat \ {0} /\ DOMAIN nodes = 1..Len(nodes)
         /\ \A i \in DOMAIN nodes : nodes[i] \in Node
         /\ \A k \in DOMAIN stack : stack[k] \in StackFrame
         /\ HasNextAction => Top.next \in DOMAIN Parent.order
<1>1. Len(stack) \in Nat \ {0} /\ DOMAIN stack = 1..Len(stack) /\ Top \in StackFrame
  BY Popped DEF SearchTypes, Top
<1>2. \A k \in DOMAIN stack : stack[k] \in StackFrame
  BY <1>1, ElementOfSeq DEF SearchTypes
<1>3. /\ Len(nodes) \in Nat \ {0} /\ DOMAIN nodes = 1..Len(nodes)
      /\ \A i \in DOMAIN nodes : nodes[i] \in Node
  BY ElementOfSeq, LenProperties DEF SearchTypes, Tree
<1>4. Len(stack) \in DOMAIN stack
  BY <1>1
<1>5. Top.node \in DOMAIN nodes /\ Parent \in Node
  BY <1>3, <1>4 DEF StackGrows, Top, Parent
<1>6. Parent.order \in Orders \cup {<<>>}
  BY <1>5 DEF Node
<1>7. Len(Parent.order) \in Nat /\ DOMAIN Parent.order = 1..Len(Parent.order)
  BY <1>6, OrderTypes
<1>8. HasNextAction => Top.next \in DOMAIN Parent.order
  BY <1>1, <1>7 DEF HasNextAction, StackFrame
<1> QED
  BY <1>1, <1>2, <1>3, <1>5, <1>8

\* The evaluator's counters of a child.
LEMMA SummaryTypes ==
  ASSUME Parent \in Node, NEW seen \in Seen
  PROVE  Summary(seen) \in [frontier : Nat, frames : Nat, idle : Nat, score : Nat]
<1>1. seen.x \in Nat /\ seen.reward \in Nat
  <2>1. Frontiers \subseteq Nat /\ MaxReward \in Nat
    BY SearchAssumption
  <2>2. seen.x \in Frontiers
    BY DEF Seen
  <2>3. seen.reward \in 1..MaxReward \/ seen.reward = 1
    BY DEF Seen
  <2>4. \A r \in 1..MaxReward : r \in Nat
    BY <2>1
  <2>5. seen.x \in Nat
    BY <2>1, <2>2
  <2>6. \A r : r \in 1..MaxReward \/ r = 1 => r \in Nat
    BY <2>4
  <2> QED
    BY <2>3, <2>5, <2>6, Zenon
<1>2. Parent.frontier \in Nat /\ Parent.frames \in Nat /\ Parent.idle \in Nat /\ Parent.score \in Nat
  BY DEF Node
<1> QED
  BY <1>1, <1>2 DEF Summary

\* What a child is closed or kept for.
LEMMA ChildFacts ==
  ASSUME SearchTypes, Parent \in Node, Top \in StackFrame, Top.next \in DOMAIN Parent.order,
         NEW seen \in Seen, NEW order \in Orders, NEW child, child = Child(seen, order)
  PROVE  /\ child \in Node
         /\ child.parent = Top.node /\ child.action = Parent.order[Top.next]
         /\ child.event # "RootInitialized"
         /\ child.event = "ExpandedAlive" => child.held /\ child.outcome = "Open"
         /\ child.event # "ExpandedAlive" => ~child.held /\ child.outcome # "Open"
         /\ child.outcome = "ClosedLoss" =>
              \/ child.event \in {"PrunedBelowScreen", "PrunedDead", "PrunedVelocityStuck",
                                  "PrunedStalled"}
              \/ /\ child.event = "PrunedTransposition"
                 /\ child.key \in Keys /\ Covers(table[child.key], child)
<1> DEFINE s == Summary(seen)
           e == Event(seen)
           acts == IF e = "ExpandedAlive" THEN order ELSE <<>>
<1>1. s \in [frontier : Nat, frames : Nat, idle : Nat, score : Nat]
  BY SummaryTypes
<1>2. seen.x \in Nat /\ seen.key \in {NoKey} \cup Keys
  BY SearchAssumption DEF Seen
<1>3. VelocityStuck(seen) \in Nat
  BY DEF VelocityStuck, Node
<1>4. e \in Events \ {"RootInitialized"}
  BY DEF Event, Events
<1>5. e = "PrunedTransposition" => seen.key \in Keys /\ Covers(table[seen.key], s)
  BY <1>2 DEF Event
<1>6. Outcome(e) \in {"Open", "ClosedLoss", "NotClosedLoss"}
  BY <1>4 DEF Outcome, Events
<1>7. /\ e = "ExpandedAlive" => Outcome(e) = "Open"
      /\ e # "ExpandedAlive" => Outcome(e) # "Open"
      /\ Outcome(e) = "ClosedLoss" =>
           e \in {"PrunedBelowScreen", "PrunedDead", "PrunedVelocityStuck", "PrunedStalled",
                  "PrunedTransposition"}
  BY <1>4 DEF Outcome, Events
<1>8. acts \in Orders \cup {<<>>}
  OBVIOUS
<1>9. Parent.order[Top.next] \in Actions
  BY OrderTypes DEF Node
<1>10. Top.node \in Nat
  BY DEF StackFrame
<1>11. child = [parent |-> Top.node, action |-> Parent.order[Top.next], frontier |-> s.frontier,
                frames |-> s.frames, idle |-> s.idle, score |-> s.score, x |-> seen.x,
                stuck |-> VelocityStuck(seen), key |-> seen.key, outcome |-> Outcome(e),
                event |-> e, held |-> e = "ExpandedAlive", order |-> acts]
  BY DEF Child
<1> HIDE DEF s, e, acts
<1>12. child \in Node
  BY <1>1, <1>2, <1>3, <1>4, <1>6, <1>8, <1>9, <1>10, <1>11 DEF Node
<1>13. child.event = "PrunedTransposition" =>
         child.key \in Keys /\ Covers(table[child.key], child)
  BY <1>5, <1>11 DEF Covers
<1>14. /\ child.parent = Top.node /\ child.action = Parent.order[Top.next]
       /\ child.event = e /\ child.outcome = Outcome(e) /\ child.held = (e = "ExpandedAlive")
  BY <1>11
<1> QED
  BY <1>4, <1>7, <1>12, <1>13, <1>14
-----------------------------------------------------------------------------
(* Expand.                                                                 *)

\* The node added to nodes_.
LEMMA ExpandNodes ==
  ASSUME SearchTypes, StackGrows, NEW seen \in Seen, NEW order \in Orders, Expand(seen, order),
         NEW child, child = Child(seen, order), NEW n, n = Len(nodes) + 1
  PROVE  /\ stack # <<>> /\ status = "searching"
         /\ Top \in StackFrame /\ Top.node \in DOMAIN nodes /\ Top.next \in DOMAIN Parent.order
         /\ child \in Node /\ child.parent = Top.node
         /\ n \in Nat \ {0} /\ n - 1 = Len(nodes) /\ DOMAIN nodes = 1..(n - 1)
         /\ nodes' \in Seq(Node) /\ Len(nodes') = n /\ DOMAIN nodes' = 1..n
         /\ n \in DOMAIN nodes' /\ nodes'[n] = child
         /\ \A i \in DOMAIN nodes : nodes'[i] = nodes[i] /\ i \in DOMAIN nodes' /\ i # n
         /\ \A i \in DOMAIN nodes' : i \in DOMAIN nodes \/ i = n
         /\ Tree(nodes')
<1>1. stack # <<>> /\ HasNextAction /\ nodes' = Append(nodes, child) /\ status = "searching"
  BY DEF Expand, Ticks, SearchTypes
<1>2. /\ Top \in StackFrame /\ Top.node \in DOMAIN nodes /\ Parent \in Node
      /\ Len(nodes) \in Nat \ {0} /\ DOMAIN nodes = 1..Len(nodes)
      /\ Top.next \in DOMAIN Parent.order
  BY <1>1, TopTypes
<1>3. child \in Node /\ child.parent = Top.node
  BY <1>2, ChildFacts
<1>4. nodes \in Seq(Node) /\ Tree(nodes)
  BY DEF SearchTypes
<1>5. /\ nodes' \in Seq(Node) /\ Len(nodes') = Len(nodes) + 1
      /\ \A i \in 1..Len(nodes) : nodes'[i] = nodes[i]
      /\ nodes'[Len(nodes) + 1] = child
  BY <1>1, <1>3, <1>4, AppendProperties
<1>6. DOMAIN nodes' = 1..n
  BY <1>5, LenProperties
<1>7. n \in Nat \ {0} /\ n - 1 = Len(nodes) /\ DOMAIN nodes = 1..(n - 1) /\ n \in 1..n
  BY <1>2
<1>8. \A i \in DOMAIN nodes : i \in 1..n /\ i # n
  BY <1>7
<1>9. \A i \in 1..n : i \in DOMAIN nodes \/ i = n
  BY <1>7
<1>10. Tree(nodes')
  <2>1. 1 \in DOMAIN nodes /\ nodes'[1].parent = 0
    BY <1>2, <1>4, <1>5 DEF Tree
  <2>2. ASSUME NEW i \in 2..n PROVE nodes'[i].parent \in 1..(i - 1)
    <3>1. CASE i = n
      BY <1>2, <1>3, <1>5, <1>7, <3>1
    <3>2. CASE i # n
      <4>1. i \in 2..Len(nodes) /\ i \in 1..Len(nodes)
        BY <1>7, <3>2
      <4> QED
        BY <1>4, <1>5, <4>1 DEF Tree
    <3> QED
      BY <3>1, <3>2
  <2> QED
    BY <1>5, <1>7, <2>1, <2>2 DEF Tree
<1> QED
  BY <1>1, <1>2, <1>3, <1>5, <1>6, <1>7, <1>8, <1>9, <1>10

\* The stack after it: the top has one action less to try; the child is on it, or its
\* outcome has been noted.
LEMMA ExpandStack ==
  ASSUME SearchTypes, StackGrows, NEW seen \in Seen, NEW order \in Orders, Expand(seen, order),
         NEW child, child = Child(seen, order), NEW d, d = Len(stack)
  PROVE  /\ d \in Nat \ {0} /\ DOMAIN stack = 1..d /\ Top = stack[d] /\ d \in DOMAIN stack
         /\ stack' \in Seq(StackFrame) /\ stack' # <<>>
         /\ \A k \in 1..(d - 1) : stack'[k] = stack[k] /\ k \in DOMAIN stack /\ k + 1 \in 1..d
         /\ stack'[d].node = Top.node /\ stack'[d].next = Top.next + 1
         /\ stack'[d].candidate => Top.candidate
         /\ \A k \in 1..d : stack'[k].node = stack[k].node
         /\ IF child.event = "ExpandedAlive"
            THEN DOMAIN stack' = 1..(d + 1) /\ stack'[d + 1] = Frame(Len(nodes) + 1)
            ELSE DOMAIN stack' = 1..d /\ (stack'[d].candidate => child.outcome = "ClosedLoss")
<1> DEFINE tried == [Top EXCEPT !.next = @ + 1]
<1>1. /\ stack # <<>>
      /\ stack' = IF child.event = "ExpandedAlive"
                  THEN SubSeq(stack, 1, Len(stack) - 1) \o <<tried, Frame(Len(nodes) + 1)>>
                  ELSE Append(SubSeq(stack, 1, Len(stack) - 1), Noted(tried, child))
  BY DEF Expand, Ticks, SearchTypes
<1>2. /\ Top \in StackFrame /\ Len(nodes) \in Nat \ {0}
      /\ d \in Nat \ {0} /\ DOMAIN stack = 1..d /\ Top = stack[d]
  BY <1>1, TopTypes DEF Top
<1>3. tried \in StackFrame /\ tried.node = Top.node /\ tried.next = Top.next + 1
      /\ tried.candidate = Top.candidate
  BY <1>2 DEF StackFrame
<1> HIDE DEF tried
<1>4. /\ Noted(tried, child) \in StackFrame /\ Noted(tried, child).node = Top.node
      /\ Noted(tried, child).next = Top.next + 1
      /\ Noted(tried, child).candidate => Top.candidate /\ child.outcome = "ClosedLoss"
  BY <1>3 DEF Noted, StackFrame
<1>5. Frame(Len(nodes) + 1) \in StackFrame
  BY <1>2 DEF Frame, StackFrame
<1>6. stack \in Seq(StackFrame)
  BY DEF SearchTypes
<1>7. ASSUME NEW k \in 1..(d - 1) PROVE k \in DOMAIN stack /\ k + 1 \in 1..d
  BY <1>2
<1>8. CASE child.event = "ExpandedAlive"
  <2>1. /\ stack' \in Seq(StackFrame) /\ stack' # <<>> /\ DOMAIN stack' = 1..(d + 1)
        /\ \A k \in 1..(d - 1) : stack'[k] = stack[k]
        /\ stack'[d] = tried /\ stack'[d + 1] = Frame(Len(nodes) + 1)
    <3> DEFINE new == Frame(Len(nodes) + 1)
    <3>1. stack' = PushedOn(stack, tried, new)
      BY <1>1, <1>8 DEF PushedOn
    <3>2. stack # <<>> /\ stack \in Seq(StackFrame) /\ tried \in StackFrame /\ new \in StackFrame
      BY <1>1, <1>3, <1>5, <1>6
    <3> HIDE DEF new
    <3> DEFINE t == PushedOn(stack, tried, new)
    <3>3. /\ t \in Seq(StackFrame) /\ t # <<>> /\ DOMAIN t = 1..(Len(stack) + 1)
          /\ \A k \in 1..(Len(stack) - 1) : t[k] = stack[k]
          /\ t[Len(stack)] = tried /\ t[Len(stack) + 1] = new
      <4>1. /\ t \in Seq(StackFrame) /\ t # <<>> /\ DOMAIN t = 1..(Len(stack) + 1)
            /\ t[Len(stack)] = tried /\ t[Len(stack) + 1] = new
        BY <3>2, Pushed
      <4>2. ASSUME NEW k \in 1..(Len(stack) - 1) PROVE t[k] = stack[k]
        BY <3>2, PushedBelow
      <4> QED
        BY <4>1, <4>2
    <3> HIDE DEF t
    <3>4. stack' = t
      BY <3>1 DEF t
    <3> QED
      BY <3>3, <3>4 DEF new
  <2>2. ASSUME NEW k \in 1..d PROVE stack'[k].node = stack[k].node
    <3>1. k = d \/ k \in 1..(d - 1)
      BY <1>2
    <3> QED
      BY <1>2, <1>3, <2>1, <3>1
  <2> QED
    BY <1>2, <1>3, <1>7, <1>8, <2>1, <2>2
<1>9. CASE child.event # "ExpandedAlive"
  <2>1. /\ stack' \in Seq(StackFrame) /\ stack' # <<>> /\ DOMAIN stack' = 1..d
        /\ \A k \in 1..(d - 1) : stack'[k] = stack[k]
        /\ stack'[d] = Noted(tried, child)
    BY <1>1, <1>4, <1>6, <1>9, Replaced
  <2>2. ASSUME NEW k \in 1..d PROVE stack'[k].node = stack[k].node
    <3>1. k = d \/ k \in 1..(d - 1)
      BY <1>2
    <3> QED
      BY <1>2, <1>4, <2>1, <3>1
  <2> QED
    BY <1>2, <1>4, <1>7, <1>9, <2>1, <2>2
<1> QED
  BY <1>8, <1>9

\* What the table holds afterwards is what it held, or the node itself.
LEMMA PublishedFacts ==
  ASSUME table \in [Keys -> Entry], NEW node \in Node
  PROVE  /\ Published(node) \in [Keys -> Entry]
         /\ \A key \in Keys :
              \/ Published(node)[key] = table[key]
              \/ /\ node.outcome = "ClosedLoss" /\ node.key = key
                 /\ Published(node)[key].frontier = node.frontier
                 /\ Published(node)[key].frames = node.frames
                 /\ Published(node)[key].idle = node.idle
<1> DEFINE entry == [frontier |-> node.frontier, frames |-> node.frames, idle |-> node.idle,
                     some |-> TRUE]
<1>1. entry \in Entry /\ node.key \in {NoKey} \cup Keys
  BY DEF Entry, Node
<1>2. entry.frontier = node.frontier /\ entry.frames = node.frames /\ entry.idle = node.idle
  OBVIOUS
<1>3. \/ Published(node) = table
      \/ /\ node.outcome = "ClosedLoss" /\ node.key # NoKey
         /\ Published(node) = [table EXCEPT ![node.key] = entry]
  BY Zenon DEF Published
<1> HIDE DEF entry
<1>4. CASE Published(node) = table
  BY <1>4
<1>5. CASE /\ node.outcome = "ClosedLoss" /\ node.key # NoKey
           /\ Published(node) = [table EXCEPT ![node.key] = entry]
  BY <1>1, <1>2, <1>5
<1> QED
  BY <1>3, <1>4, <1>5

\* Types and the shape of the stack.
LEMMA ExpandTypes ==
  ASSUME SearchTypes, StackGrows, NEW seen \in Seen, NEW order \in Orders, Expand(seen, order)
  PROVE  SearchTypes' /\ StackGrows'
<1> DEFINE child == Child(seen, order)
           n == Len(nodes) + 1
           d == Len(stack)
<1>0. child = Child(seen, order) /\ n = Len(nodes) + 1 /\ d = Len(stack)
  OBVIOUS
<1> HIDE DEF child, n, d
<1>1. /\ child \in Node
      /\ Top.node \in DOMAIN nodes
      /\ DOMAIN nodes = 1..(n - 1) /\ n \in Nat \ {0}
      /\ nodes' \in Seq(Node) /\ n \in DOMAIN nodes'
      /\ \A i \in DOMAIN nodes : i \in DOMAIN nodes'
      /\ Tree(nodes')
  BY <1>0, ExpandNodes
<1>2. /\ d \in Nat \ {0} /\ DOMAIN stack = 1..d
      /\ \A k \in 1..d : stack'[k].node = stack[k].node
      /\ IF child.event = "ExpandedAlive"
         THEN DOMAIN stack' = 1..(d + 1) /\ stack'[d + 1] = Frame(n)
         ELSE DOMAIN stack' = 1..d
  BY <1>0, ExpandStack
<1>10. stack' \in Seq(StackFrame) /\ stack' # <<>>
  BY <1>0, ExpandStack
<1>3. table' \in [Keys -> Entry]
  <2>1. table \in [Keys -> Entry] /\ table' = Published(child)
    BY <1>0 DEF SearchTypes, Expand
  <2> QED
    BY <1>1, <2>1, PublishedFacts
<1>11. server' = "SearchActive" => stored' = NoPlan
  BY DEF Expand, Complete, BecomeIdle, Continue, SearchTypes
<1>4. SearchTypes'
  BY <1>1, <1>3, <1>10, <1>11 DEF SearchTypes
<1>5. ASSUME NEW k \in DOMAIN stack'
      PROVE  \/ k \in DOMAIN stack /\ stack'[k].node = stack[k].node /\ k <= d
             \/ k = d + 1 /\ stack'[k].node = n
  <2>1. k \in 1..d \/ (k = d + 1 /\ stack'[k] = Frame(n))
    BY <1>2
  <2> QED
    BY <1>2, <2>1 DEF Frame
<1>6. \A k \in DOMAIN stack : stack[k].node \in 1..(n - 1)
  BY <1>1 DEF StackGrows
<1>7. ASSUME NEW k \in DOMAIN stack' PROVE stack'[k].node \in DOMAIN nodes'
  BY <1>1, <1>5, <1>6
<1>8. ASSUME NEW j \in DOMAIN stack', NEW k \in DOMAIN stack', j < k
      PROVE  stack'[j].node < stack'[k].node
  <2>1. j \in Int /\ k \in Int /\ d \in Int /\ n \in Int
    BY <1>1, <1>2
  <2>2. CASE k \in DOMAIN stack /\ stack'[k].node = stack[k].node /\ k <= d
    <3>1. j \in DOMAIN stack /\ stack'[j].node = stack[j].node
      BY <1>5, <1>8, <2>1, <2>2
    <3> QED
      BY <1>8, <2>2, <3>1 DEF StackGrows
  <2>3. CASE k = d + 1 /\ stack'[k].node = n
    <3>1. j \in DOMAIN stack /\ stack'[j].node = stack[j].node
      BY <1>5, <1>8, <2>1, <2>3
    <3>2. stack[j].node \in 1..(n - 1)
      BY <1>6, <3>1
    <3> QED
      BY <2>1, <2>3, <3>1, <3>2
  <2> QED
    BY <1>5, <2>2, <2>3
<1>9. StackGrows'
  BY <1>7, <1>8 DEF StackGrows
<1> QED
  BY <1>4, <1>9

\* The stack stays a path of open nodes that hold their savestates.
LEMMA ExpandRestorable ==
  ASSUME SearchTypes, StackGrows, StackAlive, StackRestorable,
         NEW seen \in Seen, NEW order \in Orders, Expand(seen, order)
  PROVE  StackAlive' /\ StackRestorable'
<1> DEFINE child == Child(seen, order)
           n == Len(nodes) + 1
           d == Len(stack)
<1>0. child = Child(seen, order) /\ n = Len(nodes) + 1 /\ d = Len(stack)
  OBVIOUS
<1> HIDE DEF child, n, d
<1>1. /\ child.parent = Top.node
      /\ n \in DOMAIN nodes' /\ nodes'[n] = child
      /\ \A i \in DOMAIN nodes : nodes'[i] = nodes[i] /\ i \in DOMAIN nodes'
      /\ \A i \in DOMAIN nodes' : i \in DOMAIN nodes \/ i = n
  BY <1>0, ExpandNodes
<1>2. /\ d \in Nat \ {0} /\ DOMAIN stack = 1..d /\ Top = stack[d]
      /\ \A k \in 1..d : stack'[k].node = stack[k].node
      /\ IF child.event = "ExpandedAlive"
         THEN DOMAIN stack' = 1..(d + 1) /\ stack'[d + 1] = Frame(n)
         ELSE DOMAIN stack' = 1..d
  BY <1>0, ExpandStack
<1>3. /\ child.event = "ExpandedAlive" => child.held /\ child.outcome = "Open"
      /\ child.event # "ExpandedAlive" => ~child.held
  <2>1. stack # <<>> /\ HasNextAction
    BY DEF Expand, Ticks, SearchTypes
  <2> QED
    BY <1>0, <2>1, TopTypes, ChildFacts
<1>4. ASSUME NEW k \in DOMAIN stack'
      PROVE  \/ k \in DOMAIN stack /\ stack'[k].node = stack[k].node
                /\ (k # 1 => k - 1 \in DOMAIN stack /\ stack'[k - 1].node = stack[k - 1].node)
             \/ /\ k = d + 1 /\ stack'[k].node = n /\ child.event = "ExpandedAlive"
                /\ k # 1 /\ stack'[k - 1].node = Top.node
  <2>1. k \in 1..d \/ (k = d + 1 /\ stack'[k] = Frame(n) /\ child.event = "ExpandedAlive")
    BY <1>2
  <2>2. CASE k \in 1..d
    <3>1. k # 1 => k - 1 \in 1..d
      BY <1>2, <2>2
    <3> QED
      BY <1>2, <2>2, <3>1
  <2>3. CASE k = d + 1 /\ stack'[k] = Frame(n) /\ child.event = "ExpandedAlive"
    <3>1. k # 1 /\ k - 1 = d /\ d \in 1..d
      BY <1>2, <2>3
    <3> QED
      BY <1>2, <2>3, <3>1 DEF Frame
  <2> QED
    BY <2>1, <2>2, <2>3
<1>5. ASSUME NEW k \in DOMAIN stack' PROVE stack'[k].node \in Alive'
  BY <1>1, <1>4 DEF StackAlive, Alive, Nodes
<1>6. ASSUME NEW k \in DOMAIN stack'
      PROVE  /\ nodes'[stack'[k].node].held /\ nodes'[stack'[k].node].outcome = "Open"
             /\ nodes'[stack'[k].node].parent = IF k = 1 THEN 0 ELSE stack'[k - 1].node
  <2>1. CASE /\ k \in DOMAIN stack /\ stack'[k].node = stack[k].node
             /\ k # 1 => k - 1 \in DOMAIN stack /\ stack'[k - 1].node = stack[k - 1].node
    <3>1. nodes'[stack'[k].node] = nodes[stack[k].node]
      BY <1>1, <2>1 DEF StackGrows
    <3> QED
      BY <2>1, <3>1 DEF StackRestorable
  <2>2. CASE /\ k = d + 1 /\ stack'[k].node = n /\ child.event = "ExpandedAlive"
             /\ k # 1 /\ stack'[k - 1].node = Top.node
    BY <1>1, <1>3, <2>2
  <2> QED
    BY <1>4, <2>1, <2>2
<1>7. ASSUME NEW i \in DOMAIN nodes', nodes'[i].held
      PROVE  \E k \in DOMAIN stack' : stack'[k].node = i
  <2>1. CASE i \in DOMAIN nodes
    <3>1. PICK k \in DOMAIN stack : stack[k].node = i
      BY <1>1, <1>7, <2>1 DEF StackRestorable, Nodes
    <3>2. k \in DOMAIN stack'
      BY <1>2
    <3> QED
      BY <1>2, <3>1, <3>2
  <2>2. CASE i = n
    <3>1. child.event = "ExpandedAlive"
      BY <1>1, <1>3, <1>7, <2>2
    <3>2. d + 1 \in DOMAIN stack' /\ stack'[d + 1].node = n
      BY <1>2, <3>1 DEF Frame
    <3> QED
      BY <2>2, <3>2
  <2> QED
    BY <1>1, <2>1, <2>2
<1>8. StackAlive'
  BY <1>5 DEF StackAlive
<1>9. StackRestorable'
  BY <1>6, <1>7 DEF StackRestorable, Nodes
<1> QED
  BY <1>8, <1>9

\* Each action tried so far has led to a closed loss, or to the node above.
LEMMA ExpandTried ==
  ASSUME SearchTypes, StackGrows, ActionsTried,
         NEW seen \in Seen, NEW order \in Orders, Expand(seen, order)
  PROVE  ActionsTried'
<1> DEFINE child == Child(seen, order)
           n == Len(nodes) + 1
           d == Len(stack)
<1>0. child = Child(seen, order) /\ n = Len(nodes) + 1 /\ d = Len(stack)
  OBVIOUS
<1> HIDE DEF child, n, d
<1>1. /\ child.parent = Top.node /\ Top.node \in DOMAIN nodes /\ Top \in StackFrame
      /\ n \in DOMAIN nodes' /\ nodes'[n] = child
      /\ \A i \in DOMAIN nodes : nodes'[i] = nodes[i] /\ i \in DOMAIN nodes'
  BY <1>0, ExpandNodes
<1>2. /\ d \in Nat \ {0} /\ DOMAIN stack = 1..d /\ Top = stack[d] /\ d \in DOMAIN stack
      /\ stack'[d].node = Top.node /\ stack'[d].next = Top.next + 1
      /\ stack'[d].candidate => Top.candidate
      /\ \A k \in 1..d : stack'[k].node = stack[k].node
  BY <1>0, ExpandStack
<1>3. IF child.event = "ExpandedAlive"
      THEN DOMAIN stack' = 1..(d + 1) /\ stack'[d + 1] = Frame(n)
      ELSE DOMAIN stack' = 1..d /\ (stack'[d].candidate => child.outcome = "ClosedLoss")
  BY <1>0, ExpandStack
<1>4. \A k \in 1..(d - 1) : stack'[k] = stack[k] /\ k \in DOMAIN stack /\ k + 1 \in 1..d
  BY <1>0, ExpandStack
<1>5. child.action = nodes[Top.node].order[Top.next]
  BY <1>0 DEF Child, Parent
<1> DEFINE Led(k, a) ==
      \E j \in DOMAIN nodes' :
        /\ nodes'[j].parent = stack'[k].node
        /\ nodes'[j].action = nodes'[stack'[k].node].order[a]
        /\ nodes'[j].outcome = "ClosedLoss" \/ (k + 1 \in DOMAIN stack' /\ stack'[k + 1].node = j)
<1>6. ASSUME NEW k \in 1..(d - 1), stack'[k].candidate, NEW a \in 1..(stack'[k].next - 1)
      PROVE  Led(k, a)
  <2>1. PICK j \in DOMAIN nodes :
          /\ nodes[j].parent = stack[k].node
          /\ nodes[j].action = nodes[stack[k].node].order[a]
          /\ Closed(j) \/ (k + 1 \in DOMAIN stack /\ stack[k + 1].node = j)
    BY <1>4, <1>6 DEF ActionsTried
  <2>2. stack[k].node \in DOMAIN nodes
    BY <1>4 DEF StackGrows
  <2>3. k + 1 \in DOMAIN stack' /\ stack'[k + 1].node = stack[k + 1].node
    <3>1. d \in Nat /\ k + 1 \in 1..d
      BY <1>2, <1>4
    <3>2. DOMAIN stack' = 1..d \/ DOMAIN stack' = 1..(d + 1)
      BY <1>3
    <3>3. 1..d \subseteq DOMAIN stack'
      <4>1. 1..d \subseteq 1..(d + 1)
        BY <3>1
      <4> QED
        BY <3>2, <4>1
    <3>4. stack'[k + 1].node = stack[k + 1].node
      BY <1>2, <3>1
    <3> QED
      BY <3>1, <3>3, <3>4
  <2> j \in DOMAIN nodes'
    BY <1>1
  <2> WITNESS j \in DOMAIN nodes'
  <2> QED
    BY <1>1, <1>4, <2>1, <2>2, <2>3 DEF Closed
<1>7. ASSUME stack'[d].candidate, NEW a \in 1..(stack'[d].next - 1)
      PROVE  Led(d, a)
  <2>1. CASE a = Top.next
    <3>1. child.outcome = "ClosedLoss" \/ (d + 1 \in DOMAIN stack' /\ stack'[d + 1].node = n)
      BY <1>2, <1>3, <1>7 DEF Frame
    <3> n \in DOMAIN nodes'
      BY <1>1
    <3> WITNESS n \in DOMAIN nodes'
    <3> QED
      BY <1>1, <1>2, <1>5, <2>1, <3>1
  <2>2. CASE a # Top.next
    <3>1. a \in 1..(Top.next - 1)
      BY <1>1, <1>2, <2>2 DEF StackFrame
    <3>2. PICK j \in DOMAIN nodes :
            /\ nodes[j].parent = stack[d].node
            /\ nodes[j].action = nodes[stack[d].node].order[a]
            /\ Closed(j) \/ (d + 1 \in DOMAIN stack /\ stack[d + 1].node = j)
      BY <1>2, <1>7, <3>1 DEF ActionsTried
    <3>3. ~(d + 1 \in DOMAIN stack)
      BY <1>2
    <3> j \in DOMAIN nodes'
      BY <1>1
    <3> WITNESS j \in DOMAIN nodes'
    <3> QED
      BY <1>1, <1>2, <3>2, <3>3 DEF Closed
  <2> QED
    BY <2>1, <2>2
<1>8. ASSUME NEW k \in DOMAIN stack', stack'[k].candidate, NEW a \in 1..(stack'[k].next - 1)
      PROVE  Led(k, a)
  <2> HIDE DEF Led
  <2>1. k \in 1..(d - 1) \/ k = d \/ (k = d + 1 /\ stack'[k] = Frame(n))
    BY <1>2, <1>3
  <2>2. ~(k = d + 1 /\ stack'[k] = Frame(n))
    BY <1>8 DEF Frame
  <2> QED
    BY <1>6, <1>7, <1>8, <2>1, <2>2
<1> QED
  BY <1>8 DEF ActionsTried, Closed

\* A child is closed with a proof, and no proof is lost.
LEMMA ExpandClosed ==
  ASSUME SearchTypes, StackGrows, ClosedLossProved,
         NEW seen \in Seen, NEW order \in Orders, Expand(seen, order)
  PROVE  ClosedLossProved'
<1> DEFINE child == Child(seen, order)
           n == Len(nodes) + 1
<1>0. child = Child(seen, order) /\ n = Len(nodes) + 1
  OBVIOUS
<1> HIDE DEF child, n
<1>1. /\ n \in DOMAIN nodes' /\ nodes'[n] = child /\ child \in Node
      /\ DOMAIN nodes = 1..(n - 1) /\ n \in Nat \ {0}
      /\ \A i \in DOMAIN nodes : nodes'[i] = nodes[i] /\ i \in DOMAIN nodes'
      /\ \A i \in DOMAIN nodes' : i \in DOMAIN nodes \/ i = n
  BY <1>0, ExpandNodes
<1>2. child.outcome = "ClosedLoss" =>
        \/ child.event \in {"PrunedBelowScreen", "PrunedDead", "PrunedVelocityStuck",
                            "PrunedStalled"}
        \/ /\ child.event = "PrunedTransposition"
           /\ child.key \in Keys /\ Covers(table[child.key], child)
  <2>1. stack # <<>> /\ HasNextAction
    BY DEF Expand, Ticks, SearchTypes
  <2> QED
    BY <1>0, <2>1, TopTypes, ChildFacts
<1>3. table \in [Keys -> Entry] /\ table' = Published(child)
  BY <1>0 DEF SearchTypes, Expand
<1> DEFINE Proved(i) ==
      \/ nodes'[i].event \in {"PrunedBelowScreen", "PrunedDead", "PrunedVelocityStuck",
                              "PrunedStalled"}
      \/ /\ nodes'[i].event = "PrunedTransposition"
         /\ \E j \in 1..(i - 1) :
              /\ nodes'[j].outcome = "ClosedLoss" /\ nodes'[j].key = nodes'[i].key
              /\ nodes'[j].frontier >= nodes'[i].frontier
              /\ nodes'[j].frames <= nodes'[i].frames /\ nodes'[j].idle <= nodes'[i].idle
      \/ /\ i \in Alive'
         /\ \A a \in DOMAIN nodes'[i].order :
              \E j \in DOMAIN nodes' : /\ nodes'[j].parent = i
                                       /\ nodes'[j].action = nodes'[i].order[a]
                                       /\ nodes'[j].outcome = "ClosedLoss"
<1>4. ASSUME NEW i \in DOMAIN nodes, nodes[i].outcome = "ClosedLoss" PROVE Proved(i)
  <2>1. CASE nodes[i].event \in {"PrunedBelowScreen", "PrunedDead", "PrunedVelocityStuck",
                                 "PrunedStalled"}
    BY <1>1, <2>1
  <2>2. CASE /\ nodes[i].event = "PrunedTransposition"
             /\ \E j \in 1..(i - 1) :
                  /\ Closed(j) /\ nodes[j].key = nodes[i].key
                  /\ nodes[j].frontier >= nodes[i].frontier
                  /\ nodes[j].frames <= nodes[i].frames /\ nodes[j].idle <= nodes[i].idle
    <3>1. \A j \in 1..(i - 1) : nodes'[j] = nodes[j]
      BY <1>1
    <3> QED
      BY <1>1, <2>2, <3>1 DEF Closed
  <2>3. CASE /\ i \in Alive
             /\ \A a \in DOMAIN nodes[i].order :
                  \E j \in Nodes : /\ nodes[j].parent = i /\ nodes[j].action = nodes[i].order[a]
                                   /\ Closed(j)
    BY <1>1, <2>3 DEF Closed, Alive, Nodes
  <2> QED
    BY <1>4, <2>1, <2>2, <2>3 DEF ClosedLossProved, Closed, Nodes
<1>5. ASSUME child.outcome = "ClosedLoss" PROVE Proved(n)
  <2>1. CASE child.event \in {"PrunedBelowScreen", "PrunedDead", "PrunedVelocityStuck",
                              "PrunedStalled"}
    BY <1>1, <2>1
  <2>2. CASE /\ child.event = "PrunedTransposition"
             /\ child.key \in Keys /\ Covers(table[child.key], child)
    <3>1. PICK j \in DOMAIN nodes :
            /\ Closed(j) /\ nodes[j].key = child.key
            /\ nodes[j].frontier = table[child.key].frontier
            /\ nodes[j].frames = table[child.key].frames /\ nodes[j].idle = table[child.key].idle
      BY <2>2 DEF ClosedLossProved, Nodes, Covers
    <3>2. j \in 1..(n - 1) /\ nodes'[j] = nodes[j]
      BY <1>1
    <3> QED
      BY <1>1, <2>2, <3>1, <3>2 DEF Covers, Closed
  <2> QED
    BY <1>2, <1>5, <2>1, <2>2
<1>6. ASSUME NEW i \in DOMAIN nodes', nodes'[i].outcome = "ClosedLoss" PROVE Proved(i)
  <2> HIDE DEF Proved
  <2> QED
    BY <1>1, <1>4, <1>5, <1>6
<1>7. ASSUME NEW key \in Keys, table'[key].some
      PROVE  \E i \in DOMAIN nodes' : /\ nodes'[i].outcome = "ClosedLoss" /\ nodes'[i].key = key
                                      /\ nodes'[i].frontier = table'[key].frontier
                                      /\ nodes'[i].frames = table'[key].frames
                                      /\ nodes'[i].idle = table'[key].idle
  <2>1. CASE table'[key] = table[key]
    <3>1. PICK i \in DOMAIN nodes :
            /\ Closed(i) /\ nodes[i].key = key
            /\ nodes[i].frontier = table[key].frontier
            /\ nodes[i].frames = table[key].frames /\ nodes[i].idle = table[key].idle
      BY <1>7, <2>1 DEF ClosedLossProved, Nodes
    <3> i \in DOMAIN nodes'
      BY <1>1
    <3> WITNESS i \in DOMAIN nodes'
    <3> QED
      BY <1>1, <2>1, <3>1 DEF Closed
  <2>2. CASE /\ child.outcome = "ClosedLoss" /\ child.key = key
             /\ table'[key].frontier = child.frontier
             /\ table'[key].frames = child.frames /\ table'[key].idle = child.idle
    <3> n \in DOMAIN nodes'
      BY <1>1
    <3> WITNESS n \in DOMAIN nodes'
    <3> QED
      BY <1>1, <2>2
  <2> QED
    BY <1>1, <1>3, <2>1, <2>2, PublishedFacts
<1> QED
  BY <1>6, <1>7 DEF ClosedLossProved, Closed, Nodes

\* The comparison of leaves is a strict order whose incomparable leaves are alike.
LEMMA BetterOrder ==
  ASSUME NEW m \in Node, NEW n \in Node, NEW o \in Node
  PROVE  /\ ~Better(m, m)
         /\ ~Better(m, n) /\ Better(o, n) => Better(o, m) /\ ~Better(m, o)
<1>1. /\ m.frontier \in Nat /\ n.frontier \in Nat /\ o.frontier \in Nat
      /\ m.score \in Nat /\ n.score \in Nat /\ o.score \in Nat
  BY DEF Node
<1> QED
  BY <1>1 DEF Better

\* Storing, or not yet storing, the plan.
LEMMA StoredPlan ==
  ASSUME SearchTypes, NEW seen \in Seen, NEW order \in Orders, Expand(seen, order)
  PROVE  stored' \in {plan', NoPlan}
BY DEF Expand, Ticks, Complete, BecomeIdle, Continue, SearchTypes

\* The plan is that of the best leaf.
LEMMA ExpandPlan ==
  ASSUME SearchTypes, StackGrows, PlanOfTheBest,
         NEW seen \in Seen, NEW order \in Orders, Expand(seen, order)
  PROVE  PlanOfTheBest'
<1> DEFINE child == Child(seen, order)
           n == Len(nodes) + 1
<1>0. child = Child(seen, order) /\ n = Len(nodes) + 1
  OBVIOUS
<1> HIDE DEF child, n
<1>1. /\ n \in DOMAIN nodes' /\ nodes'[n] = child /\ child \in Node
      /\ DOMAIN nodes = 1..(n - 1) /\ n \in Nat \ {0} /\ Len(nodes) = n - 1 /\ Len(nodes') = n
      /\ \A i \in DOMAIN nodes : nodes'[i] = nodes[i] /\ i \in DOMAIN nodes'
      /\ \A i \in DOMAIN nodes' : i \in DOMAIN nodes \/ i = n
      /\ Tree(nodes')
  BY <1>0, ExpandNodes
<1>2. \A i \in DOMAIN nodes : nodes[i] \in Node /\ i < n /\ ~(n < i)
  <2>1. stack # <<>>
    BY DEF Expand, Ticks, SearchTypes
  <2> QED
    BY <1>1, <2>1, TopTypes
<1>3. best \in DOMAIN nodes /\ best \in Alive /\ plan = PlanFrames(nodes)[best]
  BY DEF PlanOfTheBest, Alive, Nodes
<1>4. child.event # "RootInitialized"
  <2>1. stack # <<>> /\ HasNextAction
    BY DEF Expand, Ticks, SearchTypes
  <2> QED
    BY <1>0, <2>1, TopTypes, ChildFacts
<1>5. \A i : i \in Alive' <=> i \in Alive \/ (i = n /\ child.event = "ExpandedAlive")
  BY <1>1, <1>4 DEF Alive, Nodes
<1>6. \A i \in Alive : nodes[i] \in Node /\ i < n /\ ~(n < i) /\ nodes'[i] = nodes[i]
  BY <1>1, <1>2 DEF Alive, Nodes
<1>7. stored' \in {plan', NoPlan}
  BY StoredPlan
<1>8. CASE child.event = "ExpandedAlive" /\ Better(child, nodes[best])
  <2>1. best' = n /\ plan' = PlanFrames(nodes')[n]
    BY <1>0, <1>8 DEF Expand, UpdateBestLeaf
  <2>2. ASSUME NEW i \in Alive'
        PROVE  ~Better(nodes'[i], child) /\ (i < n => Better(child, nodes'[i]))
    <3>1. CASE i \in Alive
      <4>1. ~Better(nodes[i], nodes[best])
        BY <3>1 DEF PlanOfTheBest
      <4> QED
        BY <1>1, <1>3, <1>6, <1>8, <3>1, <4>1, BetterOrder
    <3>2. CASE i = n
      BY <1>1, <3>2, BetterOrder
    <3> QED
      BY <1>5, <3>1, <3>2
  <2> QED
    BY <1>1, <1>5, <1>7, <1>8, <2>1, <2>2 DEF PlanOfTheBest
<1>9. CASE ~(child.event = "ExpandedAlive" /\ Better(child, nodes[best]))
  <2>1. best' = best /\ plan' = plan
    BY <1>0, <1>9 DEF Expand, UpdateBestLeaf
  <2>2. ASSUME NEW i \in Alive'
        PROVE  ~Better(nodes'[i], nodes[best]) /\ (i < best => Better(nodes[best], nodes'[i]))
    <3>1. CASE i \in Alive
      BY <1>6, <3>1 DEF PlanOfTheBest
    <3>2. CASE i = n /\ child.event = "ExpandedAlive"
      BY <1>1, <1>2, <1>3, <1>9, <3>2
    <3> QED
      BY <1>5, <3>1, <3>2
  <2>3. plan' = PlanFrames(nodes')[best]
    <3>1. /\ Tree(nodes) /\ Tree(nodes') /\ Len(nodes) <= Len(nodes')
          /\ \A i \in 1..Len(nodes) : nodes[i].parent = nodes'[i].parent
                                      /\ nodes[i].action = nodes'[i].action
      BY <1>1 DEF SearchTypes
    <3>2. \A i \in 1..Len(nodes) : PlanFrames(nodes)[i] = PlanFrames(nodes')[i]
      BY <3>1, PlanFramesStable
    <3> QED
      BY <1>1, <1>3, <2>1, <3>2
  <2> QED
    BY <1>3, <1>5, <1>6, <1>7, <2>1, <2>2, <2>3 DEF PlanOfTheBest
<1> QED
  BY <1>8, <1>9

\* An action that is tried keeps the invariant.
LEMMA ExpandKeeps ==
  ASSUME SearchInv, NEW seen \in Seen, NEW order \in Orders, Expand(seen, order)
  PROVE  SearchInv'
<1>1. SearchTypes /\ StackGrows /\ StackAlive /\ StackRestorable /\ ActionsTried
      /\ ClosedLossProved /\ PlanOfTheBest
  BY DEF SearchInv, Expand, Ticks
<1>2. SearchTypes' /\ StackGrows'
  BY <1>1, ExpandTypes
<1>3. StackAlive' /\ StackRestorable'
  BY <1>1, ExpandRestorable
<1>4. ActionsTried'
  BY <1>1, ExpandTried
<1>5. ClosedLossProved'
  BY <1>1, ExpandClosed
<1>6. PlanOfTheBest'
  BY <1>1, ExpandPlan
<1> QED
  BY <1>2, <1>3, <1>4, <1>5, <1>6 DEF SearchInv
-----------------------------------------------------------------------------
(* Backtrack.                                                              *)

\* What never changes about a node.
Alike(m, n) ==
  /\ m.parent = n.parent /\ m.action = n.action /\ m.frontier = n.frontier /\ m.frames = n.frames
  /\ m.idle = n.idle /\ m.score = n.score /\ m.key = n.key /\ m.event = n.event
  /\ m.order = n.order

\* The node that is taken off the stack is given its outcome.
LEMMA BacktrackNodes ==
  ASSUME SearchTypes, StackGrows, Backtrack, NEW p, p = Top.node
  PROVE  /\ stack # <<>> /\ p \in DOMAIN nodes
         /\ nodes' \in Seq(Node) /\ Len(nodes') = Len(nodes)
         /\ DOMAIN nodes' = DOMAIN nodes /\ DOMAIN nodes = 1..Len(nodes)
         /\ \A i \in DOMAIN nodes : nodes[i] \in Node /\ Alike(nodes'[i], nodes[i])
         /\ \A i \in DOMAIN nodes : i # p => nodes'[i] = nodes[i]
         /\ ~nodes'[p].held
         /\ nodes'[p].outcome = IF Top.candidate THEN "ClosedLoss" ELSE "NotClosedLoss"
         /\ Tree(nodes')
         /\ \E node \in Node : /\ Alike(node, nodes'[p]) /\ node.outcome = nodes'[p].outcome
                               /\ table' = Published(node)
<1> DEFINE out == IF Top.candidate THEN "ClosedLoss" ELSE "NotClosedLoss"
           node == [Parent EXCEPT !.outcome = out]
           popped == [nodes[p] EXCEPT !.held = FALSE, !.outcome = out]
<1>1. stack # <<>>
  BY DEF Backtrack, Ticks, SearchTypes
<1>2. /\ p \in DOMAIN nodes /\ Parent \in Node /\ Parent = nodes[p]
      /\ DOMAIN nodes = 1..Len(nodes) /\ Len(nodes) \in Nat
      /\ \A i \in DOMAIN nodes : nodes[i] \in Node
  BY <1>1, TopTypes DEF Parent
<1>3. out \in {"ClosedLoss", "NotClosedLoss"}
  OBVIOUS
<1>4. nodes' = [nodes EXCEPT ![p] = popped]
  <2>1. nodes' = [Released EXCEPT ![p].outcome = out]
    BY DEF Backtrack
  <2>2. Released = [nodes EXCEPT ![p].held = FALSE]
    BY DEF Released
  <2> HIDE DEF out
  <2> QED
    BY <1>2, <2>1, <2>2 DEF Node
<1>5. table' = Published(node)
  BY DEF Backtrack
<1> HIDE DEF out
<1>6. node \in Node /\ popped \in Node /\ Alike(node, popped) /\ Alike(popped, nodes[p])
      /\ node.outcome = out /\ popped.outcome = out /\ ~popped.held
  <2> DEFINE old == nodes[p]
  <2>1. old \in Node /\ node = [old EXCEPT !.outcome = out]
        /\ popped = [old EXCEPT !.held = FALSE, !.outcome = out]
    BY <1>2
  <2> HIDE DEF old, node, popped
  <2>2. node \in Node /\ node.outcome = out
    BY <1>3, <2>1 DEF Node
  <2>3. popped \in Node /\ popped.outcome = out /\ ~popped.held
    BY <1>3, <2>1 DEF Node
  <2>4. Alike(popped, old)
    BY <2>1 DEF Node, Alike
  <2>5. Alike(node, old)
    BY <2>1 DEF Node, Alike
  <2>6. Alike(node, popped)
    BY <2>4, <2>5 DEF Alike
  <2> QED
    BY <2>2, <2>3, <2>4, <2>6 DEF old
<1> HIDE DEF node, popped
<1>7. /\ nodes'[p] = popped /\ DOMAIN nodes' = DOMAIN nodes
      /\ \A i \in DOMAIN nodes : i # p => nodes'[i] = nodes[i]
  BY <1>2, <1>4
<1>8. nodes \in Seq(Node) /\ Tree(nodes)
  BY DEF SearchTypes
<1>9. nodes' \in Seq(Node) /\ Len(nodes') = Len(nodes)
  BY <1>2, <1>4, <1>6, <1>8, ExceptSeq
<1>10. \A i \in DOMAIN nodes : nodes[i] \in Node /\ Alike(nodes'[i], nodes[i])
  BY <1>2, <1>6, <1>7 DEF Alike
<1>11. Tree(nodes')
  <2>1. \A i \in 1..Len(nodes) : nodes'[i].parent = nodes[i].parent
    BY <1>2, <1>10 DEF Alike
  <2>2. 1 \in 1..Len(nodes) /\ \A i \in 2..Len(nodes) : i \in 1..Len(nodes)
    BY <1>8 DEF Tree
  <2> QED
    BY <1>8, <1>9, <2>1, <2>2 DEF Tree
<1>12. \E m \in Node : /\ Alike(m, nodes'[p]) /\ m.outcome = nodes'[p].outcome
                       /\ table' = Published(m)
  BY <1>5, <1>6, <1>7
<1> QED
  BY <1>1, <1>2, <1>6, <1>7, <1>9, <1>10, <1>11, <1>12 DEF out

\* The frame below it, which is the top now, has noted the outcome.
LEMMA BacktrackStack ==
  ASSUME SearchTypes, StackGrows, Backtrack, NEW d, d = Len(stack)
  PROVE  /\ d \in Nat \ {0} /\ DOMAIN stack = 1..d /\ Top = stack[d] /\ Top \in StackFrame
         /\ stack' \in Seq(StackFrame) /\ DOMAIN stack' = 1..(d - 1)
         /\ \A k \in 1..(d - 1) : /\ k \in DOMAIN stack /\ stack'[k].node = stack[k].node
                                  /\ stack'[k].next = stack[k].next
                                  /\ stack'[k].candidate => stack[k].candidate
         /\ d # 1 => (stack'[d - 1].candidate => Top.candidate)
         /\ status' = "searching" => stack' # <<>>
<1> DEFINE below == SubSeq(stack, 1, Len(stack) - 1)
           out == IF Top.candidate THEN "ClosedLoss" ELSE "NotClosedLoss"
           node == [Parent EXCEPT !.outcome = out]
<1>1. stack # <<>> /\ stack \in Seq(StackFrame)
  BY DEF Backtrack, Ticks, SearchTypes
<1>2. /\ d \in Nat \ {0} /\ DOMAIN stack = 1..d /\ Top = stack[d] /\ Top \in StackFrame
      /\ Parent \in Node /\ \A k \in DOMAIN stack : stack[k] \in StackFrame
  BY <1>1, TopTypes DEF Top
<1>3. /\ below \in Seq(StackFrame) /\ Len(below) = d - 1 /\ DOMAIN below = 1..(d - 1)
      /\ \A k \in 1..(d - 1) : below[k] = stack[k] /\ k \in DOMAIN stack
  BY <1>1, Popped
<1>4. IF below = <<>>
      THEN stack' = below /\ status' = "completed"
      ELSE stack' = [below EXCEPT ![Len(below)] = Noted(@, node)]
  BY DEF Backtrack, Complete
<1>5. node.outcome = "ClosedLoss" => Top.candidate
  BY <1>2 DEF Node
<1> HIDE DEF below, node
<1>6. CASE below = <<>>
  <2>1. Len(below) = 0
    BY <1>6
  <2>2. d = 1
    BY <1>2, <1>3, <2>1
  <2>3. stack' = below /\ status' # "searching"
    BY <1>4, <1>6
  <2>4. \A k \in 1..(d - 1) : FALSE
    BY <2>2
  <2> QED
    BY <1>2, <1>3, <2>2, <2>3, <2>4
<1>7. CASE below # <<>>
  <2> DEFINE noted == Noted(stack[d - 1], node)
  <2>1. d - 1 \in 1..(d - 1) /\ d - 1 \in DOMAIN stack
    <3>1. Len(below) # 0
      BY <1>3, <1>7, EmptySeq
    <3> QED
      BY <1>2, <1>3, <3>1
  <2>2. stack' = [below EXCEPT ![d - 1] = noted]
    BY <1>3, <1>4, <1>7, <2>1
  <2>3. /\ noted \in StackFrame /\ noted.node = stack[d - 1].node
        /\ noted.next = stack[d - 1].next
        /\ noted.candidate => stack[d - 1].candidate /\ Top.candidate
    BY <1>2, <1>5, <2>1 DEF Noted, StackFrame
  <2> HIDE DEF noted
  <2>4. stack' \in Seq(StackFrame) /\ Len(stack') = d - 1
    BY <1>3, <2>1, <2>2, <2>3, ExceptSeq
  <2>5. DOMAIN stack' = 1..(d - 1) /\ stack'[d - 1] = noted
    BY <1>3, <2>1, <2>2
  <2>6. stack' # <<>>
    BY <2>1, <2>4, <2>5, EmptySeq
  <2>7. ASSUME NEW k \in 1..(d - 1)
        PROVE  /\ k \in DOMAIN stack /\ stack'[k].node = stack[k].node
               /\ stack'[k].next = stack[k].next
               /\ stack'[k].candidate => stack[k].candidate
    <3>1. CASE k = d - 1
      BY <1>3, <2>3, <2>5, <3>1
    <3>2. CASE k # d - 1
      BY <1>3, <2>2, <3>2
    <3> QED
      BY <3>1, <3>2
  <2> QED
    BY <1>2, <2>3, <2>4, <2>5, <2>6, <2>7
<1> QED
  BY <1>6, <1>7

\* The stack stays a path of open nodes that hold their savestates, and the node that
\* has left it holds none.
LEMMA BacktrackRestorable ==
  ASSUME SearchTypes, StackGrows, StackAlive, StackRestorable, Backtrack
  PROVE  SearchTypes' /\ StackGrows' /\ StackAlive' /\ StackRestorable'
<1> DEFINE p == Top.node
           d == Len(stack)
<1>0. p = Top.node /\ d = Len(stack)
  OBVIOUS
<1> HIDE DEF p, d
<1>1. /\ p \in DOMAIN nodes /\ nodes' \in Seq(Node) /\ Tree(nodes') /\ DOMAIN nodes' = DOMAIN nodes
      /\ \A i \in DOMAIN nodes : nodes[i] \in Node /\ Alike(nodes'[i], nodes[i])
      /\ \A i \in DOMAIN nodes : i # p => nodes'[i] = nodes[i]
      /\ ~nodes'[p].held
  BY <1>0, BacktrackNodes
<1>2. /\ d \in Nat \ {0} /\ DOMAIN stack = 1..d /\ Top = stack[d]
      /\ stack' \in Seq(StackFrame) /\ DOMAIN stack' = 1..(d - 1)
      /\ \A k \in 1..(d - 1) : k \in DOMAIN stack /\ stack'[k].node = stack[k].node
      /\ status' = "searching" => stack' # <<>>
  BY <1>0, BacktrackStack
<1>3. PICK node \in Node : table' = Published(node)
  BY <1>0, BacktrackNodes
<1>4. table' \in [Keys -> Entry]
  BY <1>3, PublishedFacts DEF SearchTypes
<1>5. server' = "SearchActive" => stored' = NoPlan
  BY DEF Backtrack, Complete, BecomeIdle, Continue, SearchTypes
<1>6. SearchTypes'
  BY <1>1, <1>2, <1>4, <1>5 DEF SearchTypes
<1>7. StackGrows'
  BY <1>1, <1>2 DEF StackGrows
<1>8. StackAlive'
  <2>1. \A i \in Alive : i \in Alive'
    <3>1. \A i \in DOMAIN nodes : nodes'[i].event = nodes[i].event
      BY <1>1 DEF Alike
    <3> QED
      BY <1>1, <3>1 DEF Alive, Nodes
  <2>2. ASSUME NEW k \in DOMAIN stack' PROVE stack'[k].node \in Alive'
    <3>1. k \in DOMAIN stack /\ stack'[k].node = stack[k].node
      BY <1>2
    <3>2. stack[k].node \in Alive
      BY <3>1 DEF StackAlive
    <3> QED
      BY <2>1, <3>1, <3>2
  <2> QED
    BY <2>2 DEF StackAlive
<1>9. ASSUME NEW k \in 1..(d - 1) PROVE stack[k].node # p
  <2>1. k \in DOMAIN stack /\ d \in DOMAIN stack /\ k < d
    BY <1>2
  <2>2. stack[k].node < stack[d].node /\ stack[d].node \in DOMAIN nodes
    BY <2>1 DEF StackGrows
  <2>3. DOMAIN nodes = 1..Len(nodes) /\ p = stack[d].node
    BY <1>0, <1>2, BacktrackNodes
  <2> QED
    BY <2>2, <2>3
<1>10. ASSUME NEW k \in DOMAIN stack'
       PROVE  /\ nodes'[stack'[k].node].held /\ nodes'[stack'[k].node].outcome = "Open"
              /\ nodes'[stack'[k].node].parent = IF k = 1 THEN 0 ELSE stack'[k - 1].node
  <2>1. k \in 1..(d - 1) /\ (k # 1 => k - 1 \in 1..(d - 1))
    BY <1>2
  <2>2. nodes'[stack'[k].node] = nodes[stack[k].node] /\ k \in DOMAIN stack
    BY <1>1, <1>2, <1>9, <2>1 DEF StackGrows
  <2>3. k # 1 => stack'[k - 1].node = stack[k - 1].node
    BY <1>2, <2>1
  <2> QED
    BY <2>2, <2>3 DEF StackRestorable
<1>11. ASSUME NEW i \in DOMAIN nodes', nodes'[i].held
       PROVE  \E k \in DOMAIN stack' : stack'[k].node = i
  <2>1. i \in DOMAIN nodes /\ i # p /\ nodes[i].held
    BY <1>1, <1>11
  <2>2. PICK k \in DOMAIN stack : stack[k].node = i
    BY <2>1 DEF StackRestorable, Nodes
  <2>3. k # d
    BY <1>0, <1>2, <2>1, <2>2
  <2>4. k \in 1..(d - 1)
    BY <1>2, <2>3
  <2> QED
    BY <1>2, <2>2, <2>4
<1>12. StackRestorable'
  BY <1>10, <1>11 DEF StackRestorable, Nodes
<1> QED
  BY <1>6, <1>7, <1>8, <1>12

\* The top of the stack is open, so what is closed stays closed.
LEMMA BacktrackClosedStays ==
  ASSUME SearchTypes, StackGrows, StackRestorable, Backtrack, NEW j \in DOMAIN nodes, Closed(j)
  PROVE  nodes'[j] = nodes[j] /\ Closed(j)'
<1>1. nodes[Top.node].outcome = "Open"
  <2>1. Len(stack) \in Nat \ {0} /\ DOMAIN stack = 1..Len(stack)
    BY BacktrackStack
  <2>2. Len(stack) \in DOMAIN stack
    BY <2>1
  <2> QED
    BY <2>2 DEF StackRestorable, Top
<1>2. j # Top.node
  BY <1>1 DEF Closed
<1> QED
  BY <1>2, BacktrackNodes DEF Closed

\* The action that led to the popped node has led to a closed loss, if the frame below
\* still takes its node for one.
LEMMA BacktrackTried ==
  ASSUME SearchTypes, StackGrows, StackRestorable, ActionsTried, Backtrack
  PROVE  ActionsTried'
<1> DEFINE p == Top.node
           d == Len(stack)
<1>0. p = Top.node /\ d = Len(stack)
  OBVIOUS
<1> HIDE DEF p, d
<1>1. /\ p \in DOMAIN nodes /\ DOMAIN nodes' = DOMAIN nodes
      /\ \A i \in DOMAIN nodes : Alike(nodes'[i], nodes[i])
      /\ nodes'[p].outcome = IF Top.candidate THEN "ClosedLoss" ELSE "NotClosedLoss"
  BY <1>0, BacktrackNodes
<1>2. /\ d \in Nat \ {0} /\ DOMAIN stack = 1..d /\ Top = stack[d] /\ DOMAIN stack' = 1..(d - 1)
      /\ \A k \in 1..(d - 1) : /\ k \in DOMAIN stack /\ stack'[k].node = stack[k].node
                               /\ stack'[k].next = stack[k].next
                               /\ stack'[k].candidate => stack[k].candidate
      /\ d # 1 => (stack'[d - 1].candidate => Top.candidate)
  BY <1>0, BacktrackStack
<1>3. ASSUME NEW k \in DOMAIN stack', stack'[k].candidate, NEW a \in 1..(stack'[k].next - 1)
      PROVE  \E j \in DOMAIN nodes' :
               /\ nodes'[j].parent = stack'[k].node
               /\ nodes'[j].action = nodes'[stack'[k].node].order[a]
               /\ \/ nodes'[j].outcome = "ClosedLoss"
                  \/ k + 1 \in DOMAIN stack' /\ stack'[k + 1].node = j
  <2>1. /\ k \in DOMAIN stack /\ stack'[k].node = stack[k].node /\ stack[k].candidate
        /\ stack'[k].next = stack[k].next /\ stack[k].node \in DOMAIN nodes
    BY <1>2, <1>3 DEF StackGrows
  <2>2. PICK j \in DOMAIN nodes :
          /\ nodes[j].parent = stack[k].node
          /\ nodes[j].action = nodes[stack[k].node].order[a]
          /\ Closed(j) \/ (k + 1 \in DOMAIN stack /\ stack[k + 1].node = j)
    BY <1>3, <2>1 DEF ActionsTried
  <2>3. /\ nodes'[j].parent = stack'[k].node
        /\ nodes'[j].action = nodes'[stack'[k].node].order[a]
    BY <1>1, <2>1, <2>2 DEF Alike
  <2>4. CASE Closed(j)
    BY <1>1, <2>3, <2>4, BacktrackClosedStays DEF Closed
  <2>5. CASE k + 1 \in DOMAIN stack /\ stack[k + 1].node = j
    <3>1. CASE k = d - 1
      <4>1. d # 1 /\ k + 1 = d
        BY <1>2, <1>3, <3>1
      <4>2. j = p /\ Top.candidate
        BY <1>0, <1>2, <1>3, <2>5, <3>1, <4>1
      <4>3. nodes'[j].outcome = "ClosedLoss"
        BY <1>1, <4>2
      <4> QED
        BY <1>1, <2>3, <4>3
    <3>2. CASE k # d - 1
      <4>1. k + 1 \in 1..(d - 1)
        BY <1>2, <1>3, <3>2
      <4> QED
        BY <1>1, <1>2, <2>3, <2>5, <4>1
    <3> QED
      BY <3>1, <3>2
  <2> QED
    BY <2>2, <2>4, <2>5
<1> QED
  BY <1>3 DEF ActionsTried, Closed

\* The popped node is a closed loss only if all of its actions led to closed losses.
LEMMA BacktrackClosed ==
  ASSUME SearchTypes, StackGrows, StackAlive, StackRestorable, ActionsTried, ClosedLossProved,
         Backtrack
  PROVE  ClosedLossProved'
<1> DEFINE p == Top.node
           d == Len(stack)
<1>0. p = Top.node /\ d = Len(stack)
  OBVIOUS
<1> HIDE DEF p, d
<1>1. /\ p \in DOMAIN nodes /\ DOMAIN nodes' = DOMAIN nodes /\ DOMAIN nodes = 1..Len(nodes)
      /\ \A i \in DOMAIN nodes : nodes[i] \in Node /\ Alike(nodes'[i], nodes[i])
      /\ \A i \in DOMAIN nodes : i # p => nodes'[i] = nodes[i]
      /\ nodes'[p].outcome = IF Top.candidate THEN "ClosedLoss" ELSE "NotClosedLoss"
  BY <1>0, BacktrackNodes
<1>2. /\ d \in Nat \ {0} /\ DOMAIN stack = 1..d /\ Top = stack[d] /\ Top \in StackFrame
      /\ d \in DOMAIN stack /\ ~(d + 1 \in DOMAIN stack)
  <2>1. d \in Nat \ {0} /\ DOMAIN stack = 1..d /\ Top = stack[d] /\ Top \in StackFrame
    BY <1>0, BacktrackStack
  <2> QED
    BY <2>1
<1>3. \A j \in DOMAIN nodes : Closed(j) => nodes'[j] = nodes[j] /\ Closed(j)'
  BY BacktrackClosedStays
<1>4. \A i : i \in Alive' <=> i \in Alive
  BY <1>1 DEF Alive, Nodes, Alike
<1> DEFINE Proved(i) ==
      \/ nodes'[i].event \in {"PrunedBelowScreen", "PrunedDead", "PrunedVelocityStuck",
                              "PrunedStalled"}
      \/ /\ nodes'[i].event = "PrunedTransposition"
         /\ \E j \in 1..(i - 1) :
              /\ nodes'[j].outcome = "ClosedLoss" /\ nodes'[j].key = nodes'[i].key
              /\ nodes'[j].frontier >= nodes'[i].frontier
              /\ nodes'[j].frames <= nodes'[i].frames /\ nodes'[j].idle <= nodes'[i].idle
      \/ /\ i \in Alive'
         /\ \A a \in DOMAIN nodes'[i].order :
              \E j \in DOMAIN nodes' : /\ nodes'[j].parent = i
                                       /\ nodes'[j].action = nodes'[i].order[a]
                                       /\ nodes'[j].outcome = "ClosedLoss"
<1>5. ASSUME NEW i \in DOMAIN nodes, Closed(i) PROVE Proved(i)
  <2>0. nodes'[i] = nodes[i]
    BY <1>3, <1>5
  <2>1. CASE nodes[i].event \in {"PrunedBelowScreen", "PrunedDead", "PrunedVelocityStuck",
                                 "PrunedStalled"}
    BY <2>0, <2>1
  <2>2. CASE /\ nodes[i].event = "PrunedTransposition"
             /\ \E j \in 1..(i - 1) :
                  /\ Closed(j) /\ nodes[j].key = nodes[i].key
                  /\ nodes[j].frontier >= nodes[i].frontier
                  /\ nodes[j].frames <= nodes[i].frames /\ nodes[j].idle <= nodes[i].idle
    <3>1. PICK j \in 1..(i - 1) :
            /\ Closed(j) /\ nodes[j].key = nodes[i].key
            /\ nodes[j].frontier >= nodes[i].frontier
            /\ nodes[j].frames <= nodes[i].frames /\ nodes[j].idle <= nodes[i].idle
      BY <2>2
    <3>2. j \in DOMAIN nodes
      BY <1>1
    <3>3. nodes'[j] = nodes[j]
      BY <1>3, <3>1, <3>2
    <3> QED
      BY <2>0, <2>2, <3>1, <3>3 DEF Closed
  <2>3. CASE /\ i \in Alive
             /\ \A a \in DOMAIN nodes[i].order :
                  \E j \in Nodes : /\ nodes[j].parent = i /\ nodes[j].action = nodes[i].order[a]
                                   /\ Closed(j)
    <3>1. ASSUME NEW a \in DOMAIN nodes'[i].order
          PROVE  \E j \in DOMAIN nodes' : /\ nodes'[j].parent = i
                                          /\ nodes'[j].action = nodes'[i].order[a]
                                          /\ nodes'[j].outcome = "ClosedLoss"
      <4>1. PICK j \in DOMAIN nodes : /\ nodes[j].parent = i /\ nodes[j].action = nodes[i].order[a]
                                      /\ Closed(j)
        BY <2>0, <2>3 DEF Nodes
      <4> QED
        BY <1>1, <1>3, <2>0, <4>1 DEF Closed
    <3> QED
      BY <1>4, <2>3, <3>1
  <2> QED
    BY <1>5, <2>1, <2>2, <2>3 DEF ClosedLossProved, Nodes
<1>6. ASSUME nodes'[p].outcome = "ClosedLoss" PROVE Proved(p)
  <2>1. Top.candidate
    BY <1>1, <1>6
  <2>2. p \in Alive /\ p = stack[d].node /\ nodes'[p].order = nodes[p].order
    BY <1>0, <1>1, <1>2 DEF StackAlive, Alike
  <2>3. ASSUME NEW a \in DOMAIN nodes'[p].order
        PROVE  \E j \in DOMAIN nodes' : /\ nodes'[j].parent = p
                                        /\ nodes'[j].action = nodes'[p].order[a]
                                        /\ nodes'[j].outcome = "ClosedLoss"
    <3>1. a \in 1..(stack[d].next - 1)
      <4>1. nodes[p].order \in Orders \cup {<<>>}
        BY <1>1 DEF Node
      <4>2. /\ Len(nodes[p].order) \in Nat
            /\ DOMAIN nodes[p].order = 1..Len(nodes[p].order)
        BY <4>1, OrderTypes
      <4>3. ~(Top.next <= Len(nodes[p].order))
        BY <1>0 DEF Backtrack, HasNextAction, Parent
      <4>4. a \in 1..Len(nodes[p].order) /\ stack[d].next = Top.next /\ Top.next \in Nat
        BY <1>2, <2>2, <4>2 DEF StackFrame
      <4> QED
        BY <4>2, <4>3, <4>4
    <3>2. PICK j \in DOMAIN nodes :
            /\ nodes[j].parent = stack[d].node
            /\ nodes[j].action = nodes[stack[d].node].order[a]
            /\ Closed(j) \/ (d + 1 \in DOMAIN stack /\ stack[d + 1].node = j)
      BY <1>2, <2>1, <3>1 DEF ActionsTried
    <3> QED
      BY <1>1, <1>2, <1>3, <2>2, <3>2 DEF Closed
  <2> QED
    BY <1>4, <2>2, <2>3
<1>7. ASSUME NEW i \in DOMAIN nodes', nodes'[i].outcome = "ClosedLoss" PROVE Proved(i)
  <2> HIDE DEF Proved
  <2> QED
    BY <1>1, <1>5, <1>6, <1>7 DEF Closed
<1>8. PICK node \in Node : /\ Alike(node, nodes'[p]) /\ node.outcome = nodes'[p].outcome
                           /\ table' = Published(node)
  BY <1>0, BacktrackNodes
<1>9. ASSUME NEW key \in Keys, table'[key].some
      PROVE  \E i \in DOMAIN nodes' : /\ nodes'[i].outcome = "ClosedLoss" /\ nodes'[i].key = key
                                      /\ nodes'[i].frontier = table'[key].frontier
                                      /\ nodes'[i].frames = table'[key].frames
                                      /\ nodes'[i].idle = table'[key].idle
  <2>1. CASE table'[key] = table[key]
    <3>1. PICK i \in DOMAIN nodes :
            /\ Closed(i) /\ nodes[i].key = key
            /\ nodes[i].frontier = table[key].frontier
            /\ nodes[i].frames = table[key].frames /\ nodes[i].idle = table[key].idle
      BY <1>9, <2>1 DEF ClosedLossProved, Nodes
    <3> QED
      BY <1>1, <1>3, <2>1, <3>1 DEF Closed
  <2>2. CASE /\ node.outcome = "ClosedLoss" /\ node.key = key
             /\ table'[key].frontier = node.frontier
             /\ table'[key].frames = node.frames /\ table'[key].idle = node.idle
    <3>1. /\ node.key = nodes'[p].key /\ node.frontier = nodes'[p].frontier
          /\ node.frames = nodes'[p].frames /\ node.idle = nodes'[p].idle
          /\ node.outcome = nodes'[p].outcome
      BY <1>8 DEF Alike
    <3>2. p \in DOMAIN nodes'
      BY <1>1
    <3> QED
      BY <2>2, <3>1, <3>2
  <2>3. table \in [Keys -> Entry]
    BY DEF SearchTypes
  <2>4. \/ Published(node)[key] = table[key]
        \/ /\ node.outcome = "ClosedLoss" /\ node.key = key
           /\ Published(node)[key].frontier = node.frontier
           /\ Published(node)[key].frames = node.frames
           /\ Published(node)[key].idle = node.idle
    BY <2>3, PublishedFacts
  <2> QED
    BY <1>8, <2>1, <2>2, <2>4
<1> QED
  BY <1>7, <1>9 DEF ClosedLossProved, Closed, Nodes

\* The best leaf and the path to it are untouched.
LEMMA BacktrackPlan ==
  ASSUME SearchTypes, StackGrows, PlanOfTheBest, Backtrack
  PROVE  PlanOfTheBest'
<1>1. /\ Len(nodes') = Len(nodes) /\ Tree(nodes') /\ Tree(nodes)
      /\ DOMAIN nodes' = DOMAIN nodes /\ DOMAIN nodes = 1..Len(nodes)
      /\ \A i \in DOMAIN nodes : Alike(nodes'[i], nodes[i])
  BY BacktrackNodes DEF SearchTypes
<1>2. best' = best /\ plan' = plan /\ stored' \in {plan, NoPlan}
  BY DEF Backtrack, Complete, BecomeIdle, Continue, PlanOfTheBest
<1>3. \A i : i \in Alive' <=> i \in Alive
  BY <1>1 DEF Alive, Nodes, Alike
<1>4. \A i, j \in DOMAIN nodes : Better(nodes'[i], nodes'[j]) <=> Better(nodes[i], nodes[j])
  BY <1>1 DEF Better, Alike
<1>5. best \in DOMAIN nodes /\ \A i \in Alive : i \in DOMAIN nodes
  BY DEF PlanOfTheBest, Alive, Nodes
<1>6. PlanFrames(nodes)[best] = PlanFrames(nodes')[best]
  <2>1. /\ Len(nodes) <= Len(nodes')
        /\ \A i \in 1..Len(nodes) : nodes[i].parent = nodes'[i].parent
                                    /\ nodes[i].action = nodes'[i].action
    BY <1>1 DEF Alike, Tree
  <2>2. \A i \in 1..Len(nodes) : PlanFrames(nodes)[i] = PlanFrames(nodes')[i]
    BY <1>1, <2>1, PlanFramesStable
  <2> QED
    BY <1>1, <1>5, <2>2
<1> QED
  BY <1>2, <1>3, <1>4, <1>5, <1>6 DEF PlanOfTheBest

\* A node whose actions have been tried keeps the invariant when it is taken off.
LEMMA BacktrackKeeps ==
  ASSUME SearchInv, Backtrack
  PROVE  SearchInv'
<1>1. SearchTypes /\ StackGrows /\ StackAlive /\ StackRestorable /\ ActionsTried
      /\ ClosedLossProved /\ PlanOfTheBest
  BY DEF SearchInv, Backtrack, Ticks
<1>2. SearchTypes' /\ StackGrows' /\ StackAlive' /\ StackRestorable'
  BY <1>1, BacktrackRestorable
<1>3. ActionsTried'
  BY <1>1, BacktrackTried
<1>4. ClosedLossProved'
  BY <1>1, BacktrackClosed
<1>5. PlanOfTheBest'
  BY <1>1, BacktrackPlan
<1> QED
  BY <1>2, <1>3, <1>4, <1>5 DEF SearchInv
-----------------------------------------------------------------------------
(* The other steps, and the theorems.                                      *)

\* A step that leaves the tree, the stack and the plan alone keeps the invariant.
LEMMA UntouchedKeeps ==
  ASSUME SearchInv, UNCHANGED <<nodes, stack, table, best, plan>>,
         status' = "searching" => status = "searching",
         server' = "SearchActive" => server = "SearchActive" /\ stored' = stored,
         stored' \in {stored, plan, NoPlan}
  PROVE  SearchInv'
<1>1. SearchTypes'
  BY DEF SearchInv, SearchTypes
<1>2. StackGrows' /\ StackAlive' /\ StackRestorable' /\ ClosedLossProved'
  BY DEF SearchInv, StackGrows, StackAlive, StackRestorable, ClosedLossProved, Closed, Alive, Nodes
<1>3. (status = "searching" => ActionsTried)'
  BY DEF SearchInv, ActionsTried, Closed
<1>4. PlanOfTheBest'
  BY DEF SearchInv, PlanOfTheBest, Alive, Nodes
<1> QED
  BY <1>1, <1>2, <1>3, <1>4 DEF SearchInv

\* An expansion that fails only counts its action as tried, and ends the search.
LEMMA ExpandFailsKeeps ==
  ASSUME SearchInv, ExpandFails
  PROVE  SearchInv'
<1> DEFINE d == Len(stack)
           tried == [stack[d] EXCEPT !.next = @ + 1]
<1>1. SearchTypes /\ StackGrows /\ stack # <<>> /\ stack \in Seq(StackFrame)
  BY DEF SearchInv, ExpandFails, Ticks, SearchTypes
<1>2. d \in Nat \ {0} /\ DOMAIN stack = 1..d /\ stack[d] \in StackFrame
  BY <1>1, TopTypes DEF Top
<1>3. tried \in StackFrame /\ tried.node = stack[d].node /\ d \in DOMAIN stack
  BY <1>2 DEF StackFrame
<1>4. stack' = [stack EXCEPT ![d] = tried]
  BY <1>2, <1>3 DEF ExpandFails
<1> HIDE DEF tried, d
<1>5. stack' \in Seq(StackFrame) /\ DOMAIN stack' = DOMAIN stack
  BY <1>1, <1>2, <1>3, <1>4, ExceptSeq DEF d
<1>6. \A k \in DOMAIN stack : stack'[k].node = stack[k].node
  BY <1>3, <1>4
<1>7. /\ nodes' = nodes /\ table' = table /\ best' = best /\ plan' = plan
      /\ status' = "error" /\ server' = "Idle" /\ stored' \in {plan, NoPlan}
  BY DEF ExpandFails, Complete, BecomeIdle
<1>8. SearchTypes'
  BY <1>1, <1>5, <1>7 DEF SearchTypes
<1>9. StackGrows' /\ StackAlive'
  BY <1>5, <1>6, <1>7 DEF SearchInv, StackGrows, StackAlive, Alive, Nodes
<1>10. StackRestorable'
  <2>1. \A k \in DOMAIN stack : k # 1 => k - 1 \in DOMAIN stack
    BY <1>2
  <2> QED
    BY <1>5, <1>6, <1>7, <2>1 DEF SearchInv, StackRestorable, Nodes
<1>11. ClosedLossProved'
  BY <1>7 DEF SearchInv, ClosedLossProved, Closed, Alive, Nodes
<1>12. PlanOfTheBest'
  BY <1>7 DEF SearchInv, PlanOfTheBest, Alive, Nodes
<1> QED
  BY <1>7, <1>8, <1>9, <1>10, <1>11, <1>12 DEF SearchInv

\* The search begins with the root on the stack.
LEMMA SearchStarts == Init => SearchInv
<1> SUFFICES ASSUME Init PROVE SearchInv
  OBVIOUS
<1>1. PICK order \in Orders : nodes = <<Root(0, order)>>
  BY DEF Init
<1> DEFINE root == Root(0, order)
<1>2. root \in Node
  BY DEF Root, Node, Actions, Events
<1>3. /\ root.parent = 0 /\ root.held /\ root.outcome = "Open" /\ root.event = "RootInitialized"
      /\ root.frontier = 0 /\ root.score = 0
  BY DEF Root
<1>4. nodes = <<root>>
  BY <1>1
<1> HIDE DEF root
<1>5. nodes \in Seq(Node) /\ Len(nodes) = 1 /\ DOMAIN nodes = {1} /\ nodes[1] = root
  BY <1>2, <1>4
<1>6. Frame(1) \in StackFrame /\ Frame(1).node = 1 /\ Frame(1).next = 1
  BY DEF Frame, StackFrame
<1>7. stack \in Seq(StackFrame) /\ DOMAIN stack = {1} /\ stack[1] = Frame(1) /\ stack # <<>>
  BY <1>6 DEF Init
<1>8. Tree(nodes)
  BY <1>3, <1>5 DEF Tree
<1>9. table \in [Keys -> Entry] /\ \A key \in Keys : ~table[key].some
  BY DEF Init, NoEntry, Entry
<1>10. SearchTypes
  BY <1>5, <1>7, <1>8, <1>9 DEF SearchTypes, Init
<1>11. StackGrows /\ StackAlive /\ StackRestorable
  BY <1>3, <1>5, <1>6, <1>7 DEF StackGrows, StackAlive, StackRestorable, Alive, Nodes
<1>12. ActionsTried
  BY <1>6, <1>7 DEF ActionsTried
<1>13. ClosedLossProved
  BY <1>3, <1>5, <1>9 DEF ClosedLossProved, Closed, Nodes
<1>14. PlanOfTheBest
  <2>1. PlanFrames(nodes)[1] = <<>>
    BY <1>5, <1>8, PlanFramesDef DEF Along
  <2>2. best = 1 /\ plan = <<>> /\ stored = NoPlan
    BY DEF Init
  <2>3. Alive = {1}
    BY <1>3, <1>5 DEF Alive, Nodes
  <2>4. ~Better(nodes[1], nodes[1])
    BY <1>2, <1>5, BetterOrder
  <2> QED
    BY <2>1, <2>2, <2>3, <2>4 DEF PlanOfTheBest
<1> QED
  BY <1>10, <1>11, <1>12, <1>13, <1>14 DEF SearchInv

\* Every step keeps the invariant.
LEMMA SearchStep == SearchInv /\ [Next]_vars => SearchInv'
<1> SUFFICES ASSUME SearchInv, [Next]_vars PROVE SearchInv'
  OBVIOUS
<1>1. ASSUME NEW seen \in Seen, NEW order \in Orders, Expand(seen, order) PROVE SearchInv'
  BY <1>1, ExpandKeeps
<1>2. CASE ExpandFails
  BY <1>2, ExpandFailsKeeps
<1>3. CASE Backtrack
  BY <1>3, BacktrackKeeps
<1>4. CASE CompleteBudgetExceeded
  BY <1>4, UntouchedKeeps DEF CompleteBudgetExceeded, Complete, BecomeIdle
<1>5. CASE TickStopped
  BY <1>5, UntouchedKeeps DEF TickStopped, BecomeIdle
<1>6. CASE PauseSet
  BY <1>6, UntouchedKeeps DEF PauseSet
<1>7. CASE Stop
  BY <1>7, UntouchedKeeps DEF Stop
<1>8. CASE Exit
  BY <1>8, UntouchedKeeps DEF Exit
<1>9. CASE UNCHANGED vars
  BY <1>9, UntouchedKeeps DEF vars
<1> QED
  BY <1>1, <1>2, <1>3, <1>4, <1>5, <1>6, <1>7, <1>8, <1>9 DEF Next, Tick

\* What the search keeps true, of which the theorems below are parts.
THEOREM SearchInvariant == Spec => []SearchInv
<1>1. Init => SearchInv
  BY SearchStarts
<1>2. SearchInv /\ [Next]_vars => SearchInv'
  BY SearchStep
<1> QED
  BY <1>1, <1>2, PTL DEF Spec

\* dfsStack_ is always a path of open nodes from the root, each with the savestate that
\* the next expansion loads, and no other node holds one: a tick that backtracks never
\* leaves the search on a node whose savestate releaseNodeHeavyData has dropped.
THEOREM StackAlwaysRestorable == Spec => []StackRestorable
<1>1. SearchInv => StackRestorable
  BY DEF SearchInv
<1> QED
  BY <1>1, SearchInvariant, PTL

\* The outcome ClosedLoss is sound with respect to the tree: no node becomes one, and no
\* entry of closedLossTranspositionTable_ says so, without a chain of nodes that were
\* pruned as losses below it or a loss no worse off that was closed before.
THEOREM ClosedLossesAreProved == Spec => []ClosedLossProved
<1>1. SearchInv => ClosedLossProved
  BY DEF SearchInv
<1> QED
  BY <1>1, SearchInvariant, PTL

\* Whatever order the nodes are tried in, and however the search ends, the plan leads to
\* the first of the best nodes found alive, and that plan or none is stored.
THEOREM PlanIsOfTheBest == Spec => []PlanOfTheBest
<1>1. SearchInv => PlanOfTheBest
  BY DEF SearchInv
<1> QED
  BY <1>1, SearchInvariant, PTL
=============================================================================
