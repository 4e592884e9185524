---------------------------- MODULE SmbDfsSearch ----------------------------
(***************************************************************************)
(* The depth-first search for a Super Mario Bros. plan.  A node is one     *)
(* frame of play.  A tick tries the next action of the node on top of      *)
(* dfsStack_, or takes a node off whose actions have all been tried.  A    *)
(* child that is dead, stuck or stalled is pruned as a closed loss, a node *)
(* whose children are all closed losses becomes one, and the transposition *)
(* table prunes a child that looks like a closed loss seen before.         *)
(*                                                                         *)
(* What a frame of the emulator shows is an arbitrary `seen'; the action   *)
(* order of a node, which buildDfsActionOrder derives from it, is an       *)
(* arbitrary member of Orders.  A position is its frontier: the stage and  *)
(* the absolute x.  The frames before the root, which every plan begins    *)
(* with, are left out, and so is the trace.                                *)
(***************************************************************************)
EXTENDS Naturals, Sequences

CONSTANTS
  Orders,                   \* action orders: sequences of actions
  Frontiers,                \* positions
  Marks,                    \* the rest of a transposition key
  MaxReward,                \* bounds the score that progress adds
  StallFrameLimit,          \* options_, as the next two
  MaxSearchedNodeCount,     \* 0: no budget
  StopAfterBestFrontier,    \* a frontier, or a number above all: no milestone
  VelocityThreshold         \* kVelocityPruneConsecutiveFrameThreshold

ASSUME SearchAssumption ==
  /\ Frontiers \subseteq Nat /\ 0 \in Frontiers
  /\ {StallFrameLimit, MaxSearchedNodeCount, StopAfterBestFrontier, MaxReward} \subseteq Nat
  /\ VelocityThreshold \in Nat \ {0}
  /\ \A order \in Orders :
       /\ order \in Seq({order[i] : i \in DOMAIN order}) \ {<<>>}
       /\ \A i, j \in DOMAIN order : order[i] = order[j] => i = j

VARIABLES
  nodes,   \* nodes_ with nodeOutcomes_, closedLossTranspositionKeys_ and action orders
  stack,   \* dfsStack_
  table,   \* closedLossTranspositionTable_
  best,    \* bestLeafIndex_; bestFrontier_ and bestScore_ are those of this node
  plan,    \* plan_.frames, after the root's prefix
  paused,
  status,  \* "searching", or why the search has been completed
  server,  \* the state of the server: it leaves SearchActive when the search is over
  stored   \* what it has put into the PlanRepository, or NoPlan

vars == <<nodes, stack, table, best, plan, paused, status, server, stored>>

NoKey == <<>>
NoPlan == <<"none">>
NoEntry == [frontier |-> 0, frames |-> 0, idle |-> 0, some |-> FALSE]
Keys == Frontiers \X Marks

\* initializeRootNode.
Root(x, order) ==
  [parent |-> 0, action |-> <<>>, frontier |-> x, frames |-> 1, idle |-> 0, score |-> 0, x |-> x,
   stuck |-> 0, key |-> NoKey, outcome |-> "Open", event |-> "RootInitialized", held |-> TRUE,
   order |-> order]

Frame(node) == [node |-> node, next |-> 1, candidate |-> TRUE]

Init ==
  /\ \E order \in Orders : nodes = <<Root(0, order)>>
  /\ stack = <<Frame(1)>>
  /\ table = [key \in Keys |-> NoEntry]
  /\ best = 1
  /\ plan = <<>>
  /\ paused = FALSE
  /\ status = "searching"
  /\ server = "SearchActive"
  /\ stored = NoPlan

Top == stack[Len(stack)]
Parent == nodes[Top.node]

-----------------------------------------------------------------------------
(* The frame that an action leads to.                                      *)

\* What the emulator may show after a frame: `still' is a player on the ground who
\* does not move, `other' a screen that is not gameplay.  A `dead' player has no key:
\* the evaluator's other way to end a life, 1800 frames without progress, is never
\* met, since the stall limit (at most 300 frames) prunes the node before.
Seen ==
  [kind : {"alive", "below"}, x : Frontiers, still : BOOLEAN, key : {NoKey} \cup Keys,
   reward : 1..MaxReward]
    \cup [kind : {"dead", "other"}, x : Frontiers, still : {FALSE}, key : {NoKey}, reward : {1}]

\* The evaluator sees progress, unless the player has died.
Gains(seen) == seen.kind \in {"alive", "below"} /\ seen.x > Parent.frontier

\* A key holds the absolute x, and who stands still has not moved; where a pruned
\* node is does not matter, nor a reward for nothing.
Possible(seen) ==
  /\ seen.key # NoKey => seen.key[1] = seen.x
  /\ seen.still => seen.x = Parent.x /\ seen.kind = "alive"
  /\ seen.kind \in {"dead", "other"} => seen.x = Parent.x
  /\ ~Gains(seen) => seen.reward = 1

\* NesSuperMarioBrosEvaluator after restoreProgress: a screen that is not gameplay
\* does not count as a frame.
Summary(seen) ==
  LET passed == IF seen.kind = "other" THEN 0 ELSE 1 IN
  [frontier |-> IF Gains(seen) THEN seen.x ELSE Parent.frontier,
   frames   |-> Parent.frames + passed,
   idle     |-> IF Gains(seen) THEN 0 ELSE Parent.idle + passed,
   score    |-> Parent.score + (IF Gains(seen) THEN seen.reward ELSE 0)]

\* isClosedLossTranspositionPruned: the loss on record had come as far, as early.
Covers(entry, s) ==
  /\ entry.some
  /\ entry.frontier >= s.frontier /\ entry.frames <= s.frames /\ entry.idle <= s.idle

VelocityStuck(seen) ==
  IF seen.kind = "alive" /\ seen.still /\ Summary(seen).idle > 0 THEN Parent.stuck + 1 ELSE 0

Event(seen) ==
  LET s == Summary(seen) IN
  CASE seen.kind = "below" -> "PrunedBelowScreen"
    [] seen.kind = "dead" -> "PrunedDead"
    [] seen.kind = "alive" /\ seen.key # NoKey /\ Covers(table[seen.key], s) -> "PrunedTransposition"
    [] seen.kind = "other" -> "PrunedNonGameplay"
    [] VelocityStuck(seen) >= VelocityThreshold -> "PrunedVelocityStuck"
    [] s.idle >= StallFrameLimit -> "PrunedStalled"
    [] OTHER -> "ExpandedAlive"

Outcome(event) ==
  CASE event = "ExpandedAlive" -> "Open"
    [] event = "PrunedNonGameplay" -> "NotClosedLoss"
    [] OTHER -> "ClosedLoss"

Child(seen, order) ==
  LET s == Summary(seen) IN
  [parent |-> Top.node, action |-> Parent.order[Top.next], frontier |-> s.frontier,
   frames |-> s.frames, idle |-> s.idle, score |-> s.score, x |-> seen.x,
   stuck |-> VelocityStuck(seen), key |-> seen.key, outcome |-> Outcome(Event(seen)),
   event |-> Event(seen), held |-> Event(seen) = "ExpandedAlive",
   order |-> IF Event(seen) = "ExpandedAlive" THEN order ELSE <<>>]

-----------------------------------------------------------------------------
(* The transposition table, the stack and the plan.                        *)

Earlier(e, f) ==
  \/ e.frontier > f.frontier
  \/ e.frontier = f.frontier /\ e.frames < f.frames
  \/ e.frontier = f.frontier /\ e.frames = f.frames /\ e.idle < f.idle

\* publishClosedLossTranspositionEntry.
Published(node) ==
  LET entry == [frontier |-> node.frontier, frames |-> node.frames, idle |-> node.idle,
                some |-> TRUE]
  IN
  IF node.outcome = "ClosedLoss" /\ node.key # NoKey
       /\ (~table[node.key].some \/ Earlier(entry, table[node.key]))
  THEN [table EXCEPT ![node.key] = entry]
  ELSE table

NotedUnlessNonGameplay(frame, child) ==
  [frame EXCEPT !.candidate = @ /\ (child.outcome = "ClosedLoss" \/ child.event = "PrunedNonGameplay")]

\* noteChildOutcome.
Noted(frame, child) == [frame EXCEPT !.candidate = @ /\ child.outcome = "ClosedLoss"]

\* reconstructPlanFrames: the actions on the way from the root to every node.
PlanFrames(ns) ==
  LET path[i \in 1..Len(ns)] ==
        IF i = 1 THEN <<>> ELSE Append(path[ns[i].parent], ns[i].action)
  IN path

\* The comparison of updateBestLeaf.
Better(m, n) == m.frontier > n.frontier \/ (m.frontier = n.frontier /\ m.score > n.score)

UpdateBestLeafOfAny(child) ==
  IF Better(child, nodes[best])
  THEN best' = Len(nodes) + 1 /\ plan' = PlanFrames(nodes')[Len(nodes) + 1]
  ELSE UNCHANGED <<best, plan>>

\* updateBestLeaf, which rebuilds the plan of a new best leaf.
UpdateBestLeaf(child) ==
  IF child.event = "ExpandedAlive" /\ Better(child, nodes[best])
  THEN best' = Len(nodes) + 1 /\ plan' = PlanFrames(nodes')[Len(nodes) + 1]
  ELSE UNCHANGED <<best, plan>>

-----------------------------------------------------------------------------
(* SearchActive's tick, which ticks the search, and its commands.          *)

\* The checks at the head of tick and of its loop.
Ticks == server = "SearchActive" /\ status = "searching" /\ ~paused
WithinBudget == MaxSearchedNodeCount > 0 => Len(nodes) - 1 < MaxSearchedNodeCount

\* The plan is stored, if it can be, and the server becomes idle.
BecomeIdle == server' = "Idle" /\ paused' = FALSE /\ stored' \in {plan', NoPlan}

Complete(reason) == status' = reason /\ BecomeIdle

Continue == UNCHANGED <<paused, status, server, stored>>

CompleteBudgetExceeded ==
  /\ Ticks /\ ~WithinBudget
  /\ UNCHANGED <<nodes, stack, table, best, plan>>
  /\ Complete("completed")

HasNextAction == Top.next <= Len(Parent.order)

\* An action is tried: the parent's savestate is loaded, one frame is run, and the
\* child is pruned or goes onto the stack.
Expand(seen, order) ==
  LET child == Child(seen, order)
      tried == [Top EXCEPT !.next = @ + 1]
      below == SubSeq(stack, 1, Len(stack) - 1)
  IN
  /\ Ticks /\ WithinBudget /\ HasNextAction /\ Possible(seen)
  /\ Parent.held
  /\ nodes' = Append(nodes, child)
  /\ stack' = IF child.event = "ExpandedAlive"
              THEN below \o <<tried, Frame(Len(nodes) + 1)>>
              ELSE Append(below, Noted(tried, child))
  /\ table' = Published(child)
  /\ UpdateBestLeaf(child)
  /\ IF nodes'[best'].frontier >= StopAfterBestFrontier THEN Complete("completed") ELSE Continue

\* The savestate cannot be loaded, or the runtime fails to run or to show the frame.
ExpandFails ==
  /\ Ticks /\ WithinBudget /\ HasNextAction
  /\ stack' = [stack EXCEPT ![Len(stack)].next = @ + 1]
  /\ UNCHANGED <<nodes, table, best, plan>>
  /\ Complete("error")

ReleasedOnlyWhenClosed == [nodes EXCEPT ![Top.node].held = ~Top.candidate]

\* releaseNodeHeavyData, of the node taken off the stack.
Released == [nodes EXCEPT ![Top.node].held = FALSE]

\* Every action has been tried.  The search is exhausted when that was the root.
Backtrack ==
  LET below == SubSeq(stack, 1, Len(stack) - 1)
      node == [Parent EXCEPT !.outcome = IF Top.candidate THEN "ClosedLoss" ELSE "NotClosedLoss"]
  IN
  /\ Ticks /\ WithinBudget /\ ~HasNextAction
  /\ nodes' = [Released EXCEPT ![Top.node].outcome = node.outcome]
  /\ table' = Published(node)
  /\ UNCHANGED <<best, plan>>
  /\ IF below = <<>>
     THEN stack' = below /\ Complete("completed")
     ELSE stack' = [below EXCEPT ![Len(below)] = Noted(@, node)] /\ Continue

SeesStopUnlessPaused == status = "stopped" /\ ~paused

\* tick looks for a search that has ended before it looks for a pause.
SeesStop == status = "stopped"

TickStopped ==
  /\ server = "SearchActive" /\ SeesStop
  /\ UNCHANGED <<nodes, stack, table, best, plan, status>>
  /\ BecomeIdle

Tick ==
  \/ CompleteBudgetExceeded \/ ExpandFails \/ Backtrack \/ TickStopped
  \/ \E seen \in Seen, order \in Orders : Expand(seen, order)

PauseSet ==
  /\ server = "SearchActive"
  /\ paused' = ~paused
  /\ UNCHANGED <<nodes, stack, table, best, plan, status, server, stored>>

\* The search takes the command at once; the server leaves with its next tick.
Stop ==
  /\ server = "SearchActive" /\ status = "searching"
  /\ status' = "stopped" /\ paused' = FALSE
  /\ UNCHANGED <<nodes, stack, table, best, plan, server, stored>>

\* Shutting down drops the search and stores nothing.
Exit ==
  /\ server = "SearchActive"
  /\ server' = "Shutdown" /\ status' = "dropped" /\ paused' = FALSE
  /\ UNCHANGED <<nodes, stack, table, best, plan, stored>>

Next == Tick \/ PauseSet \/ Stop \/ Exit

Spec == Init /\ [][Next]_vars

\* The server's main loop goes on ticking.
FairSpec == Spec /\ WF_vars(Tick)

-----------------------------------------------------------------------------
(* Properties.                                                             *)

Nodes == DOMAIN nodes
Closed(i) == nodes[i].outcome = "ClosedLoss"
Alive == {i \in Nodes : nodes[i].event \in {"RootInitialized", "ExpandedAlive"}}

\* The stack is a path of open nodes from the root, each with the savestate that the
\* next expansion loads; a node that has left it holds no savestate any more.
StackRestorable ==
  /\ \A k \in DOMAIN stack :
       LET n == stack[k].node IN
       /\ nodes[n].held /\ nodes[n].outcome = "Open"
       /\ nodes[n].parent = IF k = 1 THEN 0 ELSE stack[k - 1].node
  /\ \A i \in Nodes : nodes[i].held => \E k \in DOMAIN stack : stack[k].node = i

\* A closed loss has a proof: it was pruned as one, or a loss that was closed before
\* it existed had the same key and was no worse off, or each of its actions led to a
\* closed loss.  An entry of the table is such a loss.
ClosedLossProved ==
  /\ \A i \in Nodes : Closed(i) =>
       \/ nodes[i].event \in {"PrunedBelowScreen", "PrunedDead", "PrunedVelocityStuck",
                              "PrunedStalled"}
       \/ /\ nodes[i].event = "PrunedTransposition"
          /\ \E j \in 1..(i - 1) :
               /\ Closed(j) /\ nodes[j].key = nodes[i].key
               /\ nodes[j].frontier >= nodes[i].frontier
               /\ nodes[j].frames <= nodes[i].frames /\ nodes[j].idle <= nodes[i].idle
       \/ /\ i \in Alive
          /\ \A a \in DOMAIN nodes[i].order :
               \E j \in Nodes : /\ nodes[j].parent = i /\ nodes[j].action = nodes[i].order[a]
                                /\ Closed(j)
  /\ \A key \in Keys : table[key].some =>
       \E i \in Nodes : /\ Closed(i) /\ nodes[i].key = key
                        /\ nodes[i].frontier = table[key].frontier
                        /\ nodes[i].frames = table[key].frames /\ nodes[i].idle = table[key].idle

\* The plan leads to the best of the nodes that were found alive, the first of its
\* kind: no pruned node, however far it came.  It is also what is stored, however the
\* search ends.
PlanOfTheBest ==
  /\ best \in Alive
  /\ \A i \in Alive : ~Better(nodes[i], nodes[best]) /\ (i < best => Better(nodes[best], nodes[i]))
  /\ plan = PlanFrames(nodes)[best]
  /\ stored \in {plan, NoPlan}

\* A search that is stopped is left, even when it is paused after that, and one that
\* is not paused comes to its end.
SearchEnds == (status = "stopped" \/ []~paused) ~> (server # "SearchActive")
=============================================================================
