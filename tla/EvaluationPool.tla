--------------------------- MODULE EvaluationPool ---------------------------
(***************************************************************************)
(* What EvaluationExecutor promises its caller, without its threads: an    *)
(* evaluation that was submitted finishes at most once, as a background or *)
(* as a preview result; the results of each kind are collected in the      *)
(* order in which they finished; and stop() forgets everything.            *)
(***************************************************************************)
EXTENDS Sequences

CONSTANT Tasks   \* identities of evaluation requests

VARIABLES
  up,          \* start() has run and stop() has not
  pending,     \* submitted evaluations that have not finished
  background,  \* background results not collected yet
  preview      \* preview results not collected yet

poolState == <<up, pending, background, preview>>

\* The caller has the result of everything it submitted.
Quiet == pending = {} /\ background = <<>> /\ preview = <<>>

PoolInit == up = FALSE /\ Quiet

PoolStart ==
  /\ ~up
  /\ up' = TRUE
  /\ UNCHANGED <<pending, background, preview>>

\* Any set of evaluations may be submitted, but only by a quiet caller.
PoolSubmit ==
  /\ up /\ Quiet
  /\ pending' \in SUBSET Tasks
  /\ UNCHANGED <<up, background, preview>>

PoolFinish(t) ==
  /\ up
  /\ pending' = pending \ {t}
  /\ \/ background' = Append(background, t) /\ UNCHANGED preview
     \/ preview' = Append(preview, t) /\ UNCHANGED background
  /\ UNCHANGED up

PoolDrain ==
  /\ up
  /\ background' = <<>>
  /\ UNCHANGED <<up, pending, preview>>

PoolTick ==
  /\ up
  /\ preview' = <<>>
  /\ UNCHANGED <<up, pending, background>>

PoolStop ==
  /\ up
  /\ up' = FALSE
  /\ pending' = {} /\ background' = <<>> /\ preview' = <<>>

PoolNext ==
  \/ PoolStart \/ PoolSubmit \/ PoolDrain \/ PoolTick \/ PoolStop
  \/ \E t \in pending : PoolFinish(t)

PoolSpec == PoolInit /\ [][PoolNext]_poolState
=============================================================================
