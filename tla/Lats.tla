-------------------------------- MODULE Lats --------------------------------
(***************************************************************************)
(* The search tree of triage: triage/search.py, Tree.  A rollout descends  *)
(* by UCB to a node without children, expands it, executes and evaluates   *)
(* each child and adds the child's reward to all its ancestors.  The       *)
(* search ends on the first grounded finalize or when its rollouts are     *)
(* spent; one finalize is then forced.  What the language model answers to *)
(* expand and evaluate is a choice, a raised exception included; an action *)
(* executes to what it yields on this capture.                             *)
(***************************************************************************)
EXTENDS Integers, Sequences, FiniteSets, Functions, FiniteSetsExt

CONSTANTS
  Actions,       \* what expand may propose
  Finalizers,    \* the finalize actions
  Grounded,      \* the finalize actions whose Episode is grounded
  Rewards,       \* evaluate's rewards, in units of one half; nothing keeps them in 0.0-1.0
  Bonus,         \* Bonus[<<N, v>>]: 1000 * C * sqrt(ln N / v), rounded down
  NBranches,
  MaxRollouts,
  MaxDepth

LatsAssumption ==
  /\ Grounded \subseteq Finalizers /\ Finalizers \subseteq Actions
  /\ Rewards \subseteq Int
  /\ NBranches \in Nat /\ MaxRollouts \in Nat \ {0} /\ MaxDepth \in Nat \ {0}

ASSUME LatsAssumption

\* C * sqrt(ln N / v) is positive from the second visit of the parent on, and the unit of
\* Bonus is fine enough to keep it so. No node is visited more often than nodes are expanded.
BonusAssumption ==
  \A N \in 2..(1 + MaxRollouts * NBranches) : \A v \in 1..N : Bonus[<<N, v>>] \in Nat \ {0}

ASSUME BonusAssumption

VARIABLES
  tree,          \* the nodes in creation order; the root is the first
  at,            \* the node the rollout is at
  rollouts,
  phase          \* "descend", "observe", "ended", "force", "forced" or "done"

latsVars == <<tree, at, rollouts, phase>>

Root == 1
Incomplete == "incomplete"

Node(action, parent, depth) ==
  [action |-> action, parent |-> parent, depth |-> depth, observed |-> FALSE,
   complete |-> FALSE, status |-> Incomplete, reward |-> 0, sum |-> 0, visits |-> 0]

Children(n) == {c \in DOMAIN tree : tree[c].parent = n}
Completed == {n \in DOMAIN tree : tree[n].complete}
Observed == {n \in DOMAIN tree : tree[n].observed}

\* Node indexes grow from parent to child, so the path to the root is a chain down.
Ancestors(n) ==
  LET up[k \in 0..n] == IF k = 0 THEN {} ELSE {k} \cup up[tree[k].parent] IN up[n]

\* The first of the nodes that maximise a score: Python's max.
IsFirstBest(n, nodes, Score(_)) ==
  \A m \in nodes : Score(m) < Score(n) \/ (Score(m) = Score(n) /\ n <= m)
FirstBest(nodes, Score(_)) == CHOOSE n \in nodes : IsFirstBest(n, nodes, Score)

Infinity == 1000000

\* Mutant: a failed child keeps its score.
UcbOfAll(c) ==
  IF tree[c].visits = 0 THEN Infinity
  ELSE (500 * tree[c].sum) \div (tree[c].visits * tree[c].visits)
         + Bonus[<<tree[tree[c].parent].visits, tree[c].visits>>]

\* _ucb: the running average, divided by the visits once more, plus the exploration term.
Ucb(c) ==
  CASE tree[c].visits = 0 -> Infinity
    [] tree[c].visits > 0 /\ tree[c].status = "failed" -> 0
    [] OTHER -> (500 * tree[c].sum) \div (tree[c].visits * tree[c].visits)
                  + Bonus[<<tree[tree[c].parent].visits, tree[c].visits>>]

LatsInit ==
  /\ tree = <<Node("none", 0, 1)>>
  /\ at = Root
  /\ rollouts = 1
  /\ phase = "descend"

\* Mutant: only a failed status ends a descent.
FailedOnly == tree[at].status = "failed"

MarkFailed(n) == [tree EXCEPT ![n].status = "failed"]
DeadEnd == tree[at].status = "failed" \/ tree[at].depth > MaxDepth

\* _rollout on a failed node or below the depth limit.
GiveUp ==
  /\ phase = "descend" /\ DeadEnd
  /\ tree' = MarkFailed(at)
  /\ phase' = "ended"
  /\ UNCHANGED <<at, rollouts>>

Descend ==
  /\ phase = "descend" /\ ~DeadEnd
  /\ \E c \in Children(at) : IsFirstBest(c, Children(at), Ucb) /\ at' = c
  /\ UNCHANGED <<tree, rollouts, phase>>

\* The distinct actions proposed become the children, in order; none (an exception
\* included) fails the node.
Expand(actions) ==
  /\ phase = "descend" /\ ~DeadEnd
  /\ Children(at) = {}
  /\ IF actions = <<>>
     THEN tree' = MarkFailed(at) /\ phase' = "ended"
     ELSE /\ tree' = tree \o [i \in DOMAIN actions |-> Node(actions[i], at, tree[at].depth + 1)]
          /\ phase' = "observe"
  /\ UNCHANGED <<at, rollouts>>

\* Mutants: backprop skips the root; the evaluation's verdict overrides the grounding.
EvaluatedBelow(c, reward, failed) ==
  LET complete == tree[c].action \in Grounded IN
  [k \in DOMAIN tree |->
     LET counted == IF k \in Ancestors(c) \ {Root}
                    THEN [tree[k] EXCEPT !.sum = @ + reward, !.visits = @ + 1] ELSE tree[k] IN
     IF k # c THEN counted
     ELSE [counted EXCEPT !.observed = TRUE, !.complete = complete, !.reward = reward,
                          !.status = IF failed THEN "failed" ELSE Incomplete]]
EvaluatedByVerdict(c, reward, failed) ==
  LET complete == tree[c].action \in Finalizers /\ ~failed IN
  [k \in DOMAIN tree |->
     LET counted == IF k \in Ancestors(c)
                    THEN [tree[k] EXCEPT !.sum = @ + reward, !.visits = @ + 1] ELSE tree[k] IN
     IF k # c THEN counted
     ELSE [counted EXCEPT !.observed = TRUE, !.complete = complete, !.reward = reward,
                          !.status = IF failed THEN "failed" ELSE Incomplete]]

\* _observe_and_evaluate on node c: a grounded finalize completes it whatever the
\* evaluation says; backprop adds the reward to it and to its ancestors.
Evaluated(c, reward, failed) ==
  LET complete == tree[c].action \in Grounded IN
  [n \in DOMAIN tree |->
     LET counted == IF n \in Ancestors(c)
                    THEN [tree[n] EXCEPT !.sum = @ + reward, !.visits = @ + 1] ELSE tree[n] IN
     IF n # c THEN counted
     ELSE [counted EXCEPT !.observed = TRUE, !.complete = complete, !.reward = reward,
                          !.status = CASE complete -> "complete"
                                       [] ~complete /\ failed -> "failed"
                                       [] OTHER -> Incomplete]]

Unobserved == {c \in Children(at) : ~tree[c].observed}

\* A raising evaluate scores zero and fails the node.
Observe(reward, failed) ==
  /\ phase = "observe"
  /\ LET c == Min(Unobserved)  next == Evaluated(c, reward, failed) IN
     /\ tree' = next
     /\ phase' = IF next[c].complete \/ Unobserved = {c} THEN "ended" ELSE "observe"
  /\ UNCHANGED <<at, rollouts>>

\* Mutant: rollouts that end in a failed node are not counted.
FreeRollout ==
  /\ phase = "ended"
  /\ Completed = {} /\ rollouts < MaxRollouts
  /\ rollouts' = IF tree[at].status = "failed" THEN rollouts ELSE rollouts + 1
  /\ at' = Root
  /\ phase' = "descend"
  /\ UNCHANGED tree

\* run: stop on a completed node, or when the rollouts are spent.
NextRollout ==
  /\ phase = "ended"
  /\ Completed = {} /\ rollouts < MaxRollouts
  /\ rollouts' = rollouts + 1
  /\ at' = Root
  /\ phase' = "descend"
  /\ UNCHANGED tree

Stop ==
  /\ phase = "ended"
  /\ Completed # {} \/ rollouts = MaxRollouts
  /\ phase' = IF Completed # {} \/ Observed = {} THEN "done" ELSE "force"
  /\ UNCHANGED <<tree, at, rollouts>>

\* _force_finalize: one finalize proposed from an evaluated node of the highest reward
\* (ties fall as the stack walk meets them).
ForceFinalize(action) ==
  /\ phase = "force"
  /\ \E best \in Observed :
       /\ \A n \in Observed : tree[n].reward <= tree[best].reward
       /\ tree' = Append(tree, Node(action, best, tree[best].depth + 1))
       /\ at' = best
  /\ phase' = "forced"
  /\ UNCHANGED rollouts

\* expand raised or proposed no finalize.
ForceNothing ==
  /\ phase = "force"
  /\ phase' = "done"
  /\ UNCHANGED <<tree, at, rollouts>>

ObserveForced(reward, failed) ==
  /\ phase = "forced"
  /\ tree' = Evaluated(Len(tree), reward, failed)
  /\ phase' = "done"
  /\ UNCHANGED <<at, rollouts>>

Proposals == UNION {{s \in [1..k -> Actions] : \A i, j \in 1..k : i # j => s[i] # s[j]} :
                    k \in 0..NBranches}

Judgements == (Rewards \X BOOLEAN) \cup {<<0, TRUE>>}

LatsNext ==
  \/ GiveUp
  \/ Descend
  \/ \E actions \in Proposals : Expand(actions)
  \/ \E j \in Judgements : Observe(j[1], j[2]) \/ ObserveForced(j[1], j[2])
  \/ NextRollout
  \/ Stop
  \/ \E a \in Finalizers : ForceFinalize(a)
  \/ ForceNothing

\* Every call of the search returns: the language model's calls have no other end.
LatsSpec == LatsInit /\ [][LatsNext]_latsVars /\ WF_latsVars(LatsNext)

\* What run returns: the completed node of the highest reward, the first of them.
Result ==
  IF Completed = {} THEN 0
  ELSE FirstBest(Completed, LAMBDA n : tree[n].reward)

-----------------------------------------------------------------------------

\* Every node hangs under an earlier one.
LatsTypeOK ==
  /\ at \in DOMAIN tree
  /\ rollouts \in 1..MaxRollouts
  /\ phase \in {"descend", "observe", "ended", "force", "forced", "done"}
  /\ \A n \in DOMAIN tree :
       /\ tree[n].action \in Actions \cup {"none"}
       /\ tree[n].parent \in 0..(n - 1)
       /\ tree[n].depth \in Nat /\ tree[n].visits \in Nat /\ tree[n].sum \in Int
       /\ tree[n].status \in {"incomplete", "failed", "complete"}

(* The statistics UCB selects by are conserved: a node's visits and total reward are its  *)
(* own evaluation plus its children's, across rollouts, early exits and the forced        *)
(* finalize (backprop).                                                                   *)
StatisticsConserved ==
  \A n \in DOMAIN tree :
    /\ tree[n].visits = (IF tree[n].observed THEN 1 ELSE 0)
                          + MapThenSumSet(LAMBDA c : tree[c].visits, Children(n))
    /\ tree[n].sum = tree[n].reward + MapThenSumSet(LAMBDA c : tree[c].sum, Children(n))

(* The search is bounded: no node lies deeper than one below max_depth, but for the one   *)
(* forced finalize, and no more than n_branches siblings hang under a node but for it.    *)
SearchBounded ==
  \A n \in DOMAIN tree :
    /\ tree[n].depth <= MaxDepth + (IF phase \in {"forced", "done"} /\ n = Len(tree) THEN 2 ELSE 1)
    /\ Cardinality(Children(n)) <= NBranches + (IF phase \in {"forced", "done"} THEN 1 ELSE 0)

(* The search reports an Episode exactly when some executed finalize was grounded, an     *)
(* ungrounded or unexecuted one never, whatever statuses and rewards the language model   *)
(* returned; and when the first one is executed nothing more is (_finalize, run).         *)
ResultIsGrounded ==
  phase = "done" =>
    /\ Result # 0 => tree[Result].observed /\ tree[Result].action \in Grounded
    /\ Result = 0 => \A k \in Observed : tree[k].action \notin Grounded
    /\ Cardinality(Completed) <= 1

(* No rollout is spent on a failed branch while a sibling is still open: _ucb scores a     *)
(* failed child zero, an open one above it. This takes rewards of 0.0 or more, as evaluate *)
(* is asked for.                                                                           *)
FailedComesLast ==
  [][at' # at /\ phase = "descend" /\ tree[at'].status = "failed"
       => \A c \in Children(at) : tree[c].status = "failed"]_latsVars

(* The search ends, with every branch failed as well: failed nodes are not expanded again  *)
(* and the rollouts are counted.                                                           *)
SearchEnds == <>(phase = "done")
=============================================================================
