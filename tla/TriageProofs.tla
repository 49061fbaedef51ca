---------------------------- MODULE TriageProofs ----------------------------
(***************************************************************************)
(* triage, proved for any actions, rewards, branching, depth and number of *)
(* rollouts of its search, and for any number of analyses and incidents    *)
(* and any way in which the writes to its store stop.                      *)
(***************************************************************************)
EXTENDS Lats, Triage, SortingProofs, SequenceTheorems, TLAPS

-----------------------------------------------------------------------------
(* The search tree.                                                        *)

IsNode(x) ==
  x = [action |-> x.action, parent |-> x.parent, depth |-> x.depth, observed |-> x.observed,
       complete |-> x.complete, status |-> x.status, reward |-> x.reward, sum |-> x.sum,
       visits |-> x.visits]

\* What no step changes in a node.
SamePlace(x, y) == x.action = y.action /\ x.parent = y.parent /\ x.depth = y.depth
SameScore(x, y) ==
  x.observed = y.observed /\ x.reward = y.reward /\ x.sum = y.sum /\ x.visits = y.visits

\* What backprop writes to a node, and what an evaluation writes.
Counted(x, sum, visits) == [x EXCEPT !.sum = sum, !.visits = visits]
Judged(x, seen, complete, reward, status) ==
  [x EXCEPT !.observed = seen, !.complete = complete, !.reward = reward, !.status = status]

\* Complete is what was executed and grounded, whatever the evaluation said.
CompletesGrounded(x) ==
  IsNode(x) /\ (x.complete <=> x.observed /\ x.action \in Grounded)

IsTree(t) ==
  /\ \E S : t \in Seq(S)
  /\ \A k \in 1..Len(t) : CompletesGrounded(t[k])

NoneComplete(t) == \A k \in 1..Len(t) : ~t[k].complete

\* What rewards add up to: nothing negative when no reward is.
Amount == IF Rewards \subseteq Nat THEN Nat ELSE Int

LEMMA AmountAdds ==
  /\ Amount \subseteq Int /\ 0 \in Amount /\ Rewards \subseteq Amount
  /\ \A x, y \in Amount : x + y \in Amount
  /\ Rewards \subseteq Nat => Amount = Nat
<1>1. CASE Rewards \subseteq Nat
  BY <1>1 DEF Amount
<1>2. CASE ~(Rewards \subseteq Nat)
  BY <1>2, LatsAssumption DEF Amount, LatsAssumption
<1> QED
  BY <1>1, <1>2

\* The types of the node with index k.
Typed(x, k) ==
  /\ x.action \in Actions \cup {"none"}
  /\ x.parent \in 0..(k - 1)
  /\ x.depth \in Nat /\ x.visits \in Nat /\ x.sum \in Amount
  /\ x.status \in {"incomplete", "failed", "complete"}

\* The children of the w-th node of a tree.
Under(t, w) == {c \in 1..Len(t) : t[c].parent = w}

\* How far a tree may grow; late, when a finalize was forced below it.
Within(t, late) ==
  \A k \in 1..Len(t) :
    /\ Typed(t[k], k)
    /\ t[k].depth <= MaxDepth + (IF late /\ k = Len(t) THEN 2 ELSE 1)
    /\ Cardinality(Under(t, k)) <= NBranches + (IF late THEN 1 ELSE 0)

Late == phase \in {"forced", "done"}

ShapeInv ==
  /\ at \in 1..Len(tree)
  /\ rollouts \in 1..MaxRollouts
  /\ phase \in {"descend", "observe", "ended", "force", "forced", "done"}
  /\ Within(tree, TRUE) /\ (~Late => Within(tree, FALSE))

SearchInv ==
  /\ IsTree(tree)
  /\ \A k, l \in 1..Len(tree) : tree[k].complete /\ tree[l].complete => k = l
  /\ phase \in {"descend", "observe", "force", "forced"} => NoneComplete(tree)

-----------------------------------------------------------------------------
(* What backprop and an evaluation do to one node.                         *)

LEMMA CountedNode ==
  ASSUME NEW x, IsNode(x), NEW sum, NEW visits,
         NEW y, y = Counted(x, sum, visits)
  PROVE  /\ IsNode(y) /\ SamePlace(x, y)
         /\ y.complete = x.complete /\ y.observed = x.observed
         /\ y.sum = sum /\ y.visits = visits /\ y.status = x.status /\ y.reward = x.reward
<1>1. PICK a, p, d, o, c, s, r, u, v :
        x = [action |-> a, parent |-> p, depth |-> d, observed |-> o, complete |-> c,
             status |-> s, reward |-> r, sum |-> u, visits |-> v]
  BY Zenon DEF IsNode
<1>2. PICK h : h = [x EXCEPT !.sum = sum]
  OBVIOUS
<1>3. h = [action |-> a, parent |-> p, depth |-> d, observed |-> o, complete |-> c,
           status |-> s, reward |-> r, sum |-> sum, visits |-> v]
  BY <1>1, <1>2
<1>4. [h EXCEPT !.visits = visits]
        = [action |-> a, parent |-> p, depth |-> d, observed |-> o, complete |-> c,
           status |-> s, reward |-> r, sum |-> sum, visits |-> visits]
  BY <1>3
<1>5. y = [h EXCEPT !.visits = visits]
  BY <1>2, Zenon DEF Counted
<1>6. y = [action |-> a, parent |-> p, depth |-> d, observed |-> o, complete |-> c,
           status |-> s, reward |-> r, sum |-> sum, visits |-> visits]
  BY <1>4, <1>5, Zenon
<1> QED
  BY <1>1, <1>6 DEF IsNode, SamePlace

LEMMA JudgedNode ==
  ASSUME NEW x, IsNode(x), NEW seen, NEW complete, NEW reward, NEW status,
         NEW y, y = Judged(x, seen, complete, reward, status)
  PROVE  /\ IsNode(y) /\ SamePlace(x, y)
         /\ y.complete = complete /\ y.observed = seen
         /\ y.sum = x.sum /\ y.visits = x.visits /\ y.status = status /\ y.reward = reward
<1>1. PICK a, p, d, o, c, s, r, u, v :
        x = [action |-> a, parent |-> p, depth |-> d, observed |-> o, complete |-> c,
             status |-> s, reward |-> r, sum |-> u, visits |-> v]
  BY Zenon DEF IsNode
<1>2. PICK g : g = [x EXCEPT !.observed = seen]
  OBVIOUS
<1>3. g = [action |-> a, parent |-> p, depth |-> d, observed |-> seen, complete |-> c,
           status |-> s, reward |-> r, sum |-> u, visits |-> v]
  BY <1>1, <1>2
<1>4. PICK h : h = [g EXCEPT !.complete = complete]
  OBVIOUS
<1>5. h = [action |-> a, parent |-> p, depth |-> d, observed |-> seen, complete |-> complete,
           status |-> s, reward |-> r, sum |-> u, visits |-> v]
  BY <1>3, <1>4
<1>6. PICK i : i = [h EXCEPT !.reward = reward]
  OBVIOUS
<1>7. i = [action |-> a, parent |-> p, depth |-> d, observed |-> seen, complete |-> complete,
           status |-> s, reward |-> reward, sum |-> u, visits |-> v]
  BY <1>5, <1>6
<1>8. [i EXCEPT !.status = status]
        = [action |-> a, parent |-> p, depth |-> d, observed |-> seen, complete |-> complete,
           status |-> status, reward |-> reward, sum |-> u, visits |-> v]
  BY <1>7
<1>9. y = [i EXCEPT !.status = status]
  BY <1>2, <1>4, <1>6, Zenon DEF Judged
<1>10. y = [action |-> a, parent |-> p, depth |-> d, observed |-> seen, complete |-> complete,
           status |-> status, reward |-> reward, sum |-> u, visits |-> v]
  BY <1>8, <1>9, Zenon
<1> QED
  BY <1>1, <1>10 DEF IsNode, SamePlace

LEMMA FailedNode ==
  ASSUME NEW x, IsNode(x), NEW status, NEW y, y = [x EXCEPT !.status = status]
  PROVE  /\ IsNode(y) /\ SamePlace(x, y)
         /\ y.complete = x.complete /\ y.observed = x.observed
         /\ y.sum = x.sum /\ y.visits = x.visits /\ y.status = status /\ y.reward = x.reward
<1>1. PICK a, p, d, o, c, s, r, u, v :
        x = [action |-> a, parent |-> p, depth |-> d, observed |-> o, complete |-> c,
             status |-> s, reward |-> r, sum |-> u, visits |-> v]
  BY Zenon DEF IsNode
<1>2. y = [action |-> a, parent |-> p, depth |-> d, observed |-> o, complete |-> c,
           status |-> status, reward |-> r, sum |-> u, visits |-> v]
  BY <1>1
<1> QED
  BY <1>1, <1>2 DEF IsNode, SamePlace

-----------------------------------------------------------------------------
(* What a step does to the tree.                                           *)

\* What the evaluation of node c with a reward makes of node k.
Scored(c, reward, k, x, y) ==
  /\ y.sum = IF k \in Ancestors(c) THEN x.sum + reward ELSE x.sum
  /\ y.visits = IF k \in Ancestors(c) THEN x.visits + 1 ELSE x.visits
  /\ y.observed = IF k = c THEN TRUE ELSE x.observed
  /\ y.reward = IF k = c THEN reward ELSE x.reward

LEMMA EvaluatedNode ==
  ASSUME NEW c, NEW reward, NEW failed, NEW k \in DOMAIN tree, CompletesGrounded(tree[k]),
         NEW y, y = Evaluated(c, reward, failed)[k]
  PROVE  /\ CompletesGrounded(y)
         /\ k # c => (y.complete <=> tree[k].complete)
         /\ SamePlace(tree[k], y)
         /\ reward \in Amount /\ Typed(tree[k], k) => Typed(y, k)
         /\ Scored(c, reward, k, tree[k], y)
<1>1. PICK x : x = tree[k]
  OBVIOUS
<1>2. PICK sum, visits : sum = x.sum + reward /\ visits = x.visits + 1
  OBVIOUS
<1>3. PICK counted : counted = IF k \in Ancestors(c) THEN Counted(x, sum, visits) ELSE x
  OBVIOUS
<1>4. /\ IsNode(counted) /\ SamePlace(x, counted)
      /\ counted.complete = x.complete /\ counted.observed = x.observed
      /\ counted.status = x.status /\ counted.reward = x.reward
      /\ counted.sum = IF k \in Ancestors(c) THEN x.sum + reward ELSE x.sum
      /\ counted.visits = IF k \in Ancestors(c) THEN x.visits + 1 ELSE x.visits
      /\ reward \in Amount /\ x.sum \in Amount => counted.sum \in Amount
      /\ x.visits \in Nat => counted.visits \in Nat
  <2>1. IsNode(x)
    BY <1>1 DEF CompletesGrounded
  <2>2. CASE k \in Ancestors(c)
    <3>1. counted = Counted(x, sum, visits)
      BY <1>3, <2>2, Zenon
    <3>2. reward \in Amount /\ x.sum \in Amount => sum \in Amount
      BY <1>2, AmountAdds
    <3> QED
      BY <1>2, <2>1, <2>2, <3>1, <3>2, CountedNode
  <2>3. CASE k \notin Ancestors(c)
    BY <1>3, <2>1, <2>3 DEF SamePlace
  <2> QED
    BY <2>2, <2>3
<1>5. CASE k # c
  <2>1. y = counted
    BY <1>1, <1>3, <1>5, <1>2, Zenon DEF Evaluated, Counted
  <2> QED
    BY <1>1, <1>4, <1>5, <2>1 DEF CompletesGrounded, SamePlace, Typed, Scored
<1>6. CASE k = c
  <2>1. PICK seen, complete : seen = TRUE /\ complete = (tree[c].action \in Grounded)
    OBVIOUS
  <2>2. PICK status : status = CASE complete -> "complete"
                                 [] ~complete /\ failed -> "failed"
                                 [] OTHER -> Incomplete
    OBVIOUS
  <2>3. y = Judged(counted, seen, complete, reward, status)
    BY <1>1, <1>3, <1>6, <1>2, <2>1, <2>2, Zenon DEF Evaluated, Counted, Judged
  <2>4. /\ IsNode(y) /\ SamePlace(counted, y)
        /\ y.complete = complete /\ y.observed = seen
        /\ y.sum = counted.sum /\ y.visits = counted.visits /\ y.status = status
        /\ y.reward = reward
    BY <1>4, <2>3, JudgedNode
  <2>5. SamePlace(tree[k], y) /\ y.action = tree[c].action
    BY <1>1, <1>4, <1>6, <2>4 DEF SamePlace
  <2>6. status \in {"incomplete", "failed", "complete"}
    BY <2>2 DEF Incomplete
  <2>7. reward \in Amount /\ Typed(tree[k], k) => Typed(y, k)
    BY <1>1, <1>4, <2>4, <2>5, <2>6 DEF Typed, SamePlace
  <2>8. Scored(c, reward, k, tree[k], y)
    BY <1>1, <1>4, <1>6, <2>1, <2>4 DEF Scored
  <2> QED
    BY <1>6, <2>1, <2>4, <2>5, <2>7, <2>8 DEF CompletesGrounded
<1> QED
  BY <1>5, <1>6

LEMMA EvaluatedTree ==
  ASSUME IsTree(tree), NoneComplete(tree), NEW c, NEW reward, NEW failed,
         NEW next, next = Evaluated(c, reward, failed)
  PROVE  /\ IsTree(next)
         /\ Len(next) = Len(tree)
         /\ \A k \in 1..Len(next) : next[k].complete => k = c
         /\ \A k \in 1..Len(tree) : SamePlace(tree[k], next[k])
         /\ \A k \in 1..Len(tree) : reward \in Amount /\ Typed(tree[k], k) => Typed(next[k], k)
         /\ \A k \in 1..Len(tree) : Scored(c, reward, k, tree[k], next[k])
<1>1. PICK S : tree \in Seq(S)
  BY DEF IsTree
<1>2. DOMAIN tree = 1..Len(tree) /\ Len(tree) \in Nat
  BY <1>1, LenProperties
<1>3. DOMAIN next = DOMAIN tree
  BY DEF Evaluated
<1>4. PICK T : T = {next[k] : k \in DOMAIN tree}
  OBVIOUS
<1>5. next \in [1..Len(tree) -> T]
  BY <1>2, <1>4 DEF Evaluated
<1>6. next \in Seq(T)
  BY <1>2, <1>5, SeqDef
<1>7. Len(next) = Len(tree)
  BY <1>2, <1>3, <1>6, LenProperties
<1>8. ASSUME NEW k \in 1..Len(next)
      PROVE  /\ CompletesGrounded(next[k]) /\ (next[k].complete => k = c)
             /\ SamePlace(tree[k], next[k])
             /\ reward \in Amount /\ Typed(tree[k], k) => Typed(next[k], k)
             /\ Scored(c, reward, k, tree[k], next[k])
  <2>1. k \in DOMAIN tree /\ CompletesGrounded(tree[k]) /\ ~tree[k].complete
    BY <1>2, <1>7 DEF IsTree, NoneComplete
  <2> QED
    BY <2>1, EvaluatedNode
<1> QED
  BY <1>6, <1>7, <1>8 DEF IsTree

\* Fresh nodes are neither executed nor complete.
LEMMA FreshNode ==
  ASSUME NEW action, NEW parent, NEW depth
  PROVE  /\ CompletesGrounded(Node(action, parent, depth))
         /\ ~Node(action, parent, depth).complete
BY DEF Node, CompletesGrounded, IsNode

LEMMA GrownTree ==
  ASSUME IsTree(tree), NoneComplete(tree), NEW T, NEW new \in Seq(T),
         \A k \in 1..Len(new) : CompletesGrounded(new[k]) /\ ~new[k].complete,
         NEW next, next = tree \o new
  PROVE  IsTree(next) /\ NoneComplete(next)
<1>1. PICK S : tree \in Seq(S)
  BY DEF IsTree
<1>2. PICK U : U = S \cup T
  OBVIOUS
<1>3. tree \in Seq(U) /\ new \in Seq(U)
  BY <1>1, <1>2, SeqMonotonic
<1>4. /\ next \in Seq(U) /\ Len(next) = Len(tree) + Len(new)
      /\ Len(tree) \in Nat /\ Len(new) \in Nat
      /\ \A k \in 1..Len(next) : next[k] = IF k <= Len(tree) THEN tree[k] ELSE new[k - Len(tree)]
  BY <1>3, ConcatProperties, LenProperties
<1>5. ASSUME NEW k \in 1..Len(next)
      PROVE  CompletesGrounded(next[k]) /\ ~next[k].complete
  <2>1. CASE k <= Len(tree)
    <3>1. k \in 1..Len(tree) /\ next[k] = tree[k]
      BY <1>4, <2>1
    <3> QED
      BY <3>1 DEF IsTree, NoneComplete
  <2>2. CASE ~(k <= Len(tree))
    <3>1. k - Len(tree) \in 1..Len(new) /\ next[k] = new[k - Len(tree)]
      BY <1>4, <2>2
    <3> QED
      BY <3>1
  <2> QED
    BY <2>1, <2>2
<1> QED
  BY <1>4, <1>5 DEF IsTree, NoneComplete

LEMMA FailedTree ==
  ASSUME IsTree(tree), NEW c, NEW next, next = MarkFailed(c)
  PROVE  /\ IsTree(next) /\ Len(next) = Len(tree)
         /\ \A k \in 1..Len(tree) :
              /\ next[k].complete <=> tree[k].complete
              /\ SamePlace(tree[k], next[k]) /\ SameScore(tree[k], next[k])
              /\ Typed(tree[k], k) => Typed(next[k], k)
<1>1. PICK S : tree \in Seq(S)
  BY DEF IsTree
<1>2. DOMAIN tree = 1..Len(tree) /\ Len(tree) \in Nat
  BY <1>1, LenProperties
<1>3. PICK T : T = {next[k] : k \in DOMAIN tree}
  OBVIOUS
<1>4. next \in [1..Len(tree) -> T] /\ DOMAIN next = DOMAIN tree
  BY <1>2, <1>3 DEF MarkFailed
<1>5. next \in Seq(T)
  BY <1>2, <1>4, SeqDef
<1>6. Len(next) = Len(tree)
  BY <1>2, <1>4, <1>5, LenProperties
<1>7. ASSUME NEW k \in 1..Len(tree)
      PROVE  /\ CompletesGrounded(next[k]) /\ (next[k].complete <=> tree[k].complete)
             /\ SamePlace(tree[k], next[k]) /\ SameScore(tree[k], next[k])
             /\ Typed(tree[k], k) => Typed(next[k], k)
  <2>1. PICK x, y, status : x = tree[k] /\ y = next[k] /\ status = "failed"
    OBVIOUS
  <2>2. y = x \/ y = [x EXCEPT !.status = status]
    BY <1>2, <2>1 DEF MarkFailed
  <2>3. CompletesGrounded(x)
    BY <2>1 DEF IsTree
  <2>4. CASE y = x
    BY <2>1, <2>3, <2>4 DEF SamePlace, SameScore
  <2>5. CASE y = [x EXCEPT !.status = status]
    <3>1. IsNode(x)
      BY <2>3 DEF CompletesGrounded
    <3>2. /\ IsNode(y) /\ SamePlace(x, y)
          /\ y.complete = x.complete /\ y.observed = x.observed
          /\ y.sum = x.sum /\ y.visits = x.visits /\ y.status = status /\ y.reward = x.reward
      BY <2>5, <3>1, FailedNode
    <3> QED
      BY <2>1, <2>3, <3>2 DEF CompletesGrounded, SamePlace, SameScore, Typed
  <2> QED
    BY <2>2, <2>4, <2>5
<1> QED
  BY <1>5, <1>6, <1>7 DEF IsTree

-----------------------------------------------------------------------------

LEMMA SearchInitially ==
  ASSUME LatsInit
  PROVE  SearchInv
<1>1. PICK root : root = Node("none", 0, 1)
  OBVIOUS
<1>2. tree = <<root>>
  BY <1>1 DEF LatsInit
<1>3. tree \in Seq({root}) /\ Len(tree) = 1 /\ tree[1] = root
  BY <1>2
<1>4. CompletesGrounded(root) /\ ~root.complete
  BY <1>1, FreshNode
<1> QED
  BY <1>3, <1>4 DEF SearchInv, IsTree, NoneComplete

LEMMA GiveUpKeeps ==
  ASSUME SearchInv, GiveUp
  PROVE  SearchInv'
<1>1. PICK next : next = MarkFailed(at)
  OBVIOUS
<1>2. tree' = next /\ phase' = "ended"
  BY <1>1 DEF GiveUp
<1>3. /\ IsTree(next) /\ Len(next) = Len(tree)
      /\ \A k \in 1..Len(tree) : next[k].complete <=> tree[k].complete
  BY <1>1, FailedTree DEF SearchInv
<1> QED
  BY <1>2, <1>3 DEF SearchInv

LEMMA ExpandKeeps ==
  ASSUME SearchInv, NEW actions \in Proposals, Expand(actions)
  PROVE  SearchInv'
<1>1. CASE actions = <<>>
  <2>1. PICK next : next = MarkFailed(at)
    OBVIOUS
  <2>2. tree' = next /\ phase' = "ended"
    BY <1>1, <2>1 DEF Expand
  <2>3. /\ IsTree(next) /\ Len(next) = Len(tree)
        /\ \A k \in 1..Len(tree) : next[k].complete <=> tree[k].complete
    BY <2>1, FailedTree DEF SearchInv
  <2> QED
    BY <2>2, <2>3 DEF SearchInv
<1>2. CASE actions # <<>>
  <2>1. PICK depth : depth = tree[at].depth + 1
    OBVIOUS
  <2>2. PICK new : new = [i \in DOMAIN actions |-> Node(actions[i], at, depth)]
    OBVIOUS
  <2>3. PICK next : next = tree \o new
    OBVIOUS
  <2>4. tree' = next /\ phase' = "observe" /\ phase = "descend"
    BY <1>2, <2>1, <2>2, <2>3 DEF Expand
  <2>5. PICK T : T = {new[i] : i \in DOMAIN actions}
    OBVIOUS
  <2>6. new \in Seq(T) /\ DOMAIN new = DOMAIN actions
    <3>1. PICK k : k \in 0..NBranches /\ DOMAIN actions = 1..k
      BY DEF Proposals
    <3>2. k \in Nat /\ new \in [1..k -> T] /\ DOMAIN new = DOMAIN actions
      BY <2>2, <2>5, <3>1
    <3> QED
      BY <3>2, SeqDef
  <2>7. ASSUME NEW k \in 1..Len(new)
        PROVE  CompletesGrounded(new[k]) /\ ~new[k].complete
    <3>1. k \in DOMAIN actions
      BY <2>6, LenProperties
    <3>2. new[k] = Node(actions[k], at, depth)
      BY <2>2, <3>1
    <3> QED
      BY <3>2, FreshNode
  <2>8. IsTree(tree) /\ NoneComplete(tree)
    BY <2>4 DEF SearchInv
  <2>9. IsTree(next) /\ NoneComplete(next)
    BY <2>3, <2>6, <2>7, <2>8, GrownTree
  <2> QED
    BY <2>4, <2>9 DEF SearchInv, NoneComplete
<1> QED
  BY <1>1, <1>2

LEMMA ObserveKeeps ==
  ASSUME SearchInv, NEW reward, NEW failed, Observe(reward, failed)
  PROVE  SearchInv'
<1>1. PICK c : c = Min(Unobserved)
  OBVIOUS
<1>2. PICK next : next = Evaluated(c, reward, failed)
  OBVIOUS
<1>3. /\ tree' = next /\ phase = "observe"
      /\ phase' = IF next[c].complete \/ Unobserved = {c} THEN "ended" ELSE "observe"
  BY <1>1, <1>2, Zenon DEF Observe
<1>4. IsTree(tree) /\ NoneComplete(tree)
  BY <1>3 DEF SearchInv
<1>5. /\ IsTree(next)
      /\ \A k \in 1..Len(next) : next[k].complete => k = c
  BY <1>2, <1>4, EvaluatedTree
<1>6. phase' = "observe" => NoneComplete(next)
  <2>1. phase' = "observe" => ~next[c].complete
    BY <1>3
  <2> QED
    BY <1>5, <2>1 DEF NoneComplete
<1>7. phase' \in {"ended", "observe"}
  BY <1>3
<1> QED
  BY <1>3, <1>5, <1>6, <1>7 DEF SearchInv

LEMMA ObserveForcedKeeps ==
  ASSUME SearchInv, NEW reward, NEW failed, ObserveForced(reward, failed)
  PROVE  SearchInv'
<1>1. PICK c : c = Len(tree)
  OBVIOUS
<1>2. PICK next : next = Evaluated(c, reward, failed)
  OBVIOUS
<1>3. tree' = next /\ phase = "forced" /\ phase' = "done"
  BY <1>1, <1>2, Zenon DEF ObserveForced
<1>4. IsTree(tree) /\ NoneComplete(tree)
  BY <1>3 DEF SearchInv
<1>5. /\ IsTree(next)
      /\ \A k \in 1..Len(next) : next[k].complete => k = c
  BY <1>2, <1>4, EvaluatedTree
<1> QED
  BY <1>3, <1>5 DEF SearchInv

LEMMA NoneCompletes ==
  ASSUME IsTree(tree), Completed = {}
  PROVE  NoneComplete(tree)
<1>1. DOMAIN tree = 1..Len(tree)
  BY LenProperties DEF IsTree
<1> QED
  BY <1>1 DEF Completed, NoneComplete

LEMMA ForceFinalizeKeeps ==
  ASSUME SearchInv, NEW action, ForceFinalize(action)
  PROVE  SearchInv'
<1>1. PICK best, new : /\ new = Node(action, best, tree[best].depth + 1)
                       /\ tree' = Append(tree, new)
  BY DEF ForceFinalize
<1>2. phase = "force" /\ phase' = "forced"
  BY DEF ForceFinalize
<1>3. IsTree(tree) /\ NoneComplete(tree)
  BY <1>2 DEF SearchInv
<1>4. CompletesGrounded(new) /\ ~new.complete
  BY <1>1, FreshNode
<1>5. PICK one, next : one = <<new>> /\ next = tree \o one
  OBVIOUS
<1>6. one \in Seq({new}) /\ Len(one) = 1 /\ one[1] = new
  BY <1>5
<1>7. tree' = next
  <2>1. PICK S : tree \in Seq(S)
    BY <1>3 DEF IsTree
  <2>2. tree \in Seq(S \cup {new}) /\ new \in S \cup {new}
    BY <2>1, SeqMonotonic
  <2> QED
    BY <1>1, <1>5, <2>2, AppendIsConcat
<1>8. IsTree(next) /\ NoneComplete(next)
  <2>1. ASSUME NEW k \in 1..Len(one) PROVE one[k] = new
    BY <1>6
  <2>2. \A k \in 1..Len(one) : CompletesGrounded(one[k]) /\ ~one[k].complete
    BY <1>4, <2>1
  <2> QED
    BY <1>3, <1>5, <1>6, <2>2, GrownTree
<1> QED
  BY <1>2, <1>7, <1>8 DEF SearchInv, NoneComplete

LEMMA SearchPreserved ==
  ASSUME SearchInv, [LatsNext]_latsVars
  PROVE  SearchInv'
<1>1. CASE GiveUp
  BY <1>1, GiveUpKeeps
<1>2. CASE Descend
  BY <1>2 DEF Descend, SearchInv
<1>3. CASE \E actions \in Proposals : Expand(actions)
  BY <1>3, ExpandKeeps
<1>4. CASE \E j \in Judgements : Observe(j[1], j[2]) \/ ObserveForced(j[1], j[2])
  BY <1>4, ObserveKeeps, ObserveForcedKeeps
<1>5. CASE NextRollout
  BY <1>5, NoneCompletes DEF NextRollout, SearchInv
<1>6. CASE Stop
  BY <1>6, NoneCompletes DEF Stop, SearchInv
<1>7. CASE \E a \in Finalizers : ForceFinalize(a)
  BY <1>7, ForceFinalizeKeeps
<1>8. CASE ForceNothing
  BY <1>8 DEF ForceNothing, SearchInv
<1>9. CASE UNCHANGED latsVars
  BY <1>9 DEF latsVars, SearchInv
<1> QED
  BY <1>1, <1>2, <1>3, <1>4, <1>5, <1>6, <1>7, <1>8, <1>9 DEF LatsNext

LEMMA SearchHolds == LatsSpec => []SearchInv
<1>1. LatsInit => SearchInv
  BY SearchInitially
<1>2. SearchInv /\ [LatsNext]_latsVars => SearchInv'
  BY SearchPreserved
<1> QED
  BY <1>1, <1>2, PTL DEF LatsSpec

\* With at most one completed node there is no choice in what run returns.
LEMMA OneResult ==
  ASSUME SearchInv
  PROVE  /\ Cardinality(Completed) <= 1
         /\ Result # 0 => Result \in Completed
         /\ Result = 0 => Completed = {}
<1>1. DOMAIN tree = 1..Len(tree) /\ Len(tree) \in Nat
  BY LenProperties DEF SearchInv, IsTree
<1>2. \A k, l \in Completed : k = l
  BY <1>1 DEF SearchInv, Completed
<1>3. CASE Completed = {}
  <2>1. Cardinality(Completed) = 0
    BY <1>3, FS_EmptySet
  <2>2. Result = 0
    BY <1>3 DEF Result
  <2> QED
    BY <1>3, <2>1, <2>2
<1>4. CASE Completed # {}
  <2>1. PICK x : x \in Completed
    BY <1>4
  <2>2. Completed = {x}
    BY <1>2, <2>1
  <2>3. Cardinality(Completed) = 1
    BY <2>2, FS_Singleton
  <2>4. x \in 1..Len(tree)
    BY <1>1, <2>1 DEF Completed
  <2>5. PICK r : r = tree[x].reward
    OBVIOUS
  <2>6. \E k \in Completed : \A m \in Completed :
          tree[m].reward < tree[k].reward \/ (tree[m].reward = tree[k].reward /\ k <= m)
    BY <2>2, <2>4
  <2>7. Result \in Completed
    <3>1. Result = CHOOSE k \in Completed : \A m \in Completed :
            tree[m].reward < tree[k].reward \/ (tree[m].reward = tree[k].reward /\ k <= m)
      BY <1>4 DEF Result, FirstBest, IsFirstBest
    <3> QED
      BY <2>6, <3>1, Zenon
  <2>8. Result # 0
    BY <2>2, <2>4, <2>7
  <2> QED
    BY <2>3, <2>7, <2>8
<1> QED
  BY <1>3, <1>4

LEMMA ResultGrounded ==
  ASSUME SearchInv
  PROVE  ResultIsGrounded
<1>1. DOMAIN tree = 1..Len(tree)
  BY LenProperties DEF SearchInv, IsTree
<1>2. \A k \in DOMAIN tree : tree[k].complete <=> tree[k].observed /\ tree[k].action \in Grounded
  BY <1>1 DEF SearchInv, IsTree, CompletesGrounded
<1>3. ASSUME Result # 0 PROVE tree[Result].observed /\ tree[Result].action \in Grounded
  BY <1>2, <1>3, OneResult DEF Completed
<1>4. ASSUME Result = 0 PROVE \A k \in Observed : tree[k].action \notin Grounded
  BY <1>2, <1>4, OneResult DEF Completed, Observed
<1> QED
  BY <1>3, <1>4, OneResult DEF ResultIsGrounded

(* Whatever the language model proposes, judges and fails on, in any number of rollouts:  *)
(* the search reports exactly what was executed and grounded, and stops at the first such *)
(* Episode (_finalize, run).                                                              *)
THEOREM ResultAlwaysGrounded == LatsSpec => []ResultIsGrounded
BY SearchHolds, ResultGrounded, PTL

-----------------------------------------------------------------------------
(* The size of the tree.                                                   *)

LEMMA FewUnder ==
  ASSUME NEW t, Len(t) \in Nat, NEW w
  PROVE  IsFiniteSet(Under(t, w)) /\ Cardinality(Under(t, w)) \in Nat
<1>1. IsFiniteSet(1..Len(t))
  BY FS_Interval
<1>2. Under(t, w) \in SUBSET (1..Len(t))
  BY DEF Under
<1>3. IsFiniteSet(Under(t, w))
  BY <1>1, <1>2, FS_Subset
<1> QED
  BY <1>3, FS_CardinalityType

\* A tree within the bounds of the search stays within those of the forced finalize.
LEMMA WithinLate ==
  ASSUME NEW t, Len(t) \in Nat, Within(t, FALSE)
  PROVE  Within(t, TRUE)
<1>1. MaxDepth \in Nat /\ NBranches \in Nat
  BY LatsAssumption DEF LatsAssumption
<1>2. ASSUME NEW k \in 1..Len(t)
      PROVE  /\ Typed(t[k], k)
             /\ t[k].depth <= MaxDepth + (IF k = Len(t) THEN 2 ELSE 1)
             /\ Cardinality(Under(t, k)) <= NBranches + 1
  <2>1. /\ Typed(t[k], k) /\ t[k].depth <= MaxDepth + 1
        /\ Cardinality(Under(t, k)) <= NBranches
    BY <1>1, <1>2 DEF Within
  <2>2. t[k].depth \in Nat
    BY <2>1 DEF Typed
  <2>3. PICK d : d = t[k].depth
    OBVIOUS
  <2>4. PICK m : m = Cardinality(Under(t, k))
    OBVIOUS
  <2>5. m \in Nat
    BY <2>4, FewUnder
  <2>6. d <= MaxDepth + (IF k = Len(t) THEN 2 ELSE 1)
    BY <1>1, <2>1, <2>2, <2>3
  <2>7. m <= NBranches + 1
    BY <1>1, <2>1, <2>4, <2>5
  <2> QED
    BY <2>1, <2>3, <2>4, <2>6, <2>7
<1> QED
  BY <1>2 DEF Within

\* What keeps every node in its place keeps the size of the tree.
LEMMA SamePlacesWithin ==
  ASSUME NEW t, NEW late \in BOOLEAN, Within(t, late),
         NEW u, Len(u) = Len(t),
         \A k \in 1..Len(t) : SamePlace(t[k], u[k]) /\ Typed(u[k], k)
  PROVE  Within(u, late)
<1>1. ASSUME NEW w PROVE Under(u, w) = Under(t, w)
  BY DEF Under, SamePlace
<1>2. ASSUME NEW k \in 1..Len(t)
      PROVE  /\ u[k].depth = t[k].depth /\ Typed(u[k], k)
             /\ Under(u, k) = Under(t, k)
  BY <1>1 DEF SamePlace
<1> QED
  BY <1>2, Zenon DEF Within

\* A node without children gets at most as many as expand may propose.
LEMMA ExpandedWithin ==
  ASSUME NEW t, Len(t) \in Nat, Within(t, FALSE),
         NEW w \in 1..Len(t), Under(t, w) = {}, t[w].depth <= MaxDepth,
         NEW u, NEW m \in 0..NBranches, Len(u) = Len(t) + m,
         \A k \in 1..Len(t) : u[k] = t[k],
         \A k \in (Len(t) + 1)..Len(u) :
           u[k].parent = w /\ u[k].depth = t[w].depth + 1 /\ Typed(u[k], k)
  PROVE  Within(u, FALSE)
<1>1. MaxDepth \in Nat /\ NBranches \in Nat /\ m \in Nat
  BY LatsAssumption DEF LatsAssumption
<1>2. ASSUME NEW k \in 1..Len(u)
      PROVE  Typed(u[k], k) /\ u[k].depth <= MaxDepth + 1
  <2>1. CASE k \in 1..Len(t)
    <3>1. u[k] = t[k]
      BY <2>1
    <3>2. Typed(t[k], k) /\ t[k].depth <= MaxDepth + 1
      BY <1>1, <2>1 DEF Within
    <3> QED
      BY <3>1, <3>2
  <2>2. CASE k \notin 1..Len(t)
    <3>1. k \in (Len(t) + 1)..Len(u)
      BY <1>1, <2>2
    <3>2. u[k].depth = t[w].depth + 1 /\ Typed(u[k], k)
      BY <3>1
    <3>3. t[w].depth \in Nat
      BY DEF Within, Typed
    <3>4. PICK d : d = t[w].depth
      OBVIOUS
    <3>5. d + 1 <= MaxDepth + 1
      BY <1>1, <3>3, <3>4
    <3> QED
      BY <3>2, <3>4, <3>5
  <2> QED
    BY <2>1, <2>2
<1>3. ASSUME NEW k \in 1..Len(u)
      PROVE  Cardinality(Under(u, k)) <= NBranches
  <2>1. CASE k = w
    <3>1. Under(u, k) \subseteq (Len(t) + 1)..Len(u)
      <4>1. ASSUME NEW c \in Under(u, k), c \in 1..Len(t) PROVE FALSE
        <5>1. t[c].parent = w
          BY <2>1, <4>1 DEF Under
        <5> QED
          BY <4>1, <5>1 DEF Under
      <4>2. ASSUME NEW c \in Under(u, k) PROVE c \in (Len(t) + 1)..Len(u)
        <5>1. c \in 1..Len(u) /\ c \notin 1..Len(t)
          BY <4>1 DEF Under
        <5> QED
          BY <1>1, <5>1
      <4> QED
        BY <4>2
    <3>2. PICK a, b : a = Len(t) + 1 /\ b = Len(u)
      OBVIOUS
    <3>3. a \in Int /\ b \in Int /\ b - a + 1 = m
      BY <1>1, <3>2
    <3>4. IsFiniteSet(a..b) /\ Cardinality(a..b) = IF a > b THEN 0 ELSE b - a + 1
      BY <3>3, FS_Interval
    <3>5. Cardinality(a..b) <= NBranches
      BY <1>1, <3>3, <3>4
    <3>6. /\ Cardinality(Under(u, k)) <= Cardinality(a..b)
          /\ IsFiniteSet(Under(u, k))
      BY <3>1, <3>2, <3>4, FS_Subset
    <3>7. PICK x, y : x = Cardinality(Under(u, k)) /\ y = Cardinality(a..b)
      OBVIOUS
    <3>8. x \in Nat /\ y \in Nat
      BY <3>4, <3>6, <3>7, FS_CardinalityType
    <3>9. x <= NBranches
      BY <1>1, <3>5, <3>6, <3>7, <3>8
    <3> QED
      BY <3>7, <3>9
  <2>2. CASE k # w /\ k \in 1..Len(t)
    <3>1. Under(u, k) = Under(t, k)
      <4>1. ASSUME NEW c \in 1..Len(u), u[c].parent = k PROVE c \in 1..Len(t)
        BY <1>1, <2>2, <4>1
      <4>2. 1..Len(t) \subseteq 1..Len(u)
        BY <1>1
      <4> QED
        BY <4>1, <4>2 DEF Under
    <3>2. Cardinality(Under(t, k)) <= NBranches
      <4>1. Cardinality(Under(t, k)) <= NBranches + 0
        BY <2>2 DEF Within
      <4> QED
        BY <1>1, <4>1
    <3> QED
      BY <3>1, <3>2
  <2>3. CASE k \notin 1..Len(t)
    <3>1. ASSUME NEW c \in Under(u, k) PROVE FALSE
      <4>1. c \in 1..Len(u) /\ u[c].parent = k
        BY <3>1 DEF Under
      <4>2. CASE c \in 1..Len(t)
        <5>1. t[c].parent \in 0..(c - 1) /\ t[c].parent = k
          BY <4>1, <4>2 DEF Within, Typed
        <5> QED
          BY <2>3, <4>2, <5>1
      <4>3. CASE c \notin 1..Len(t)
        BY <1>1, <2>3, <4>1, <4>3
      <4> QED
        BY <4>2, <4>3
    <3>2. Under(u, k) = {}
      BY <3>1
    <3>3. Cardinality(Under(u, k)) = 0
      BY <3>2, FS_EmptySet
    <3> QED
      BY <1>1, <3>3
  <2> QED
    BY <2>1, <2>2, <2>3
<1>4. NBranches + 0 = NBranches
  BY <1>1
<1> QED
  BY <1>2, <1>3, <1>4 DEF Within

\* The forced finalize is one more node, under any other.
LEMMA ForcedWithin ==
  ASSUME NEW t, Len(t) \in Nat, Within(t, FALSE),
         NEW w \in 1..Len(t), NEW u, Len(u) = Len(t) + 1,
         \A k \in 1..Len(t) : u[k] = t[k],
         u[Len(u)].parent = w, u[Len(u)].depth = t[w].depth + 1,
         Typed(u[Len(u)], Len(u))
  PROVE  Within(u, TRUE)
<1>1. MaxDepth \in Nat /\ NBranches \in Nat
  BY LatsAssumption DEF LatsAssumption
<1>2. ASSUME NEW k \in 1..Len(t)
      PROVE  /\ Typed(t[k], k) /\ t[k].depth \in Nat /\ t[k].depth <= MaxDepth + 1
             /\ Cardinality(Under(t, k)) <= NBranches
  <2>1. Typed(t[k], k) /\ t[k].depth <= MaxDepth + 1 /\ Cardinality(Under(t, k)) <= NBranches + 0
    BY DEF Within
  <2> QED
    BY <1>1, <2>1 DEF Typed
<1>3. ASSUME NEW k \in 1..Len(u)
      PROVE  Typed(u[k], k) /\ u[k].depth <= MaxDepth + (IF k = Len(u) THEN 2 ELSE 1)
  <2>1. CASE k \in 1..Len(t)
    <3>1. u[k] = t[k] /\ k # Len(u)
      BY <2>1
    <3> QED
      BY <1>2, <2>1, <3>1
  <2>2. CASE k \notin 1..Len(t)
    <3>1. k = Len(u)
      BY <2>2
    <3>2. PICK d : d = t[w].depth
      OBVIOUS
    <3>3. d + 1 <= MaxDepth + 2
      BY <1>1, <1>2, <3>2
    <3> QED
      BY <3>1, <3>2, <3>3
  <2> QED
    BY <2>1, <2>2
<1>4. ASSUME NEW k \in 1..Len(u)
      PROVE  Cardinality(Under(u, k)) <= NBranches + 1
  <2>1. CASE k \in 1..Len(t)
    <3>1. Under(u, k) \subseteq Under(t, k) \cup {Len(u)}
      BY DEF Under
    <3>2. IsFiniteSet(Under(t, k)) /\ Cardinality(Under(t, k)) \in Nat
      BY FewUnder
    <3>3. PICK x, y, z : /\ x = Cardinality(Under(t, k)) /\ y = Cardinality(Under(u, k))
                         /\ z = Cardinality(Under(t, k) \cup {Len(u)})
      OBVIOUS
    <3>4. IsFiniteSet(Under(t, k) \cup {Len(u)}) /\ (z = x \/ z = x + 1)
      BY <3>2, <3>3, FS_AddElement
    <3>5. y <= z
      BY <3>1, <3>3, <3>4, FS_Subset
    <3>6. Len(u) \in Nat
      OBVIOUS
    <3>7. y \in Nat
      BY <3>3, <3>6, FewUnder
    <3>8. x <= NBranches /\ x \in Nat
      BY <1>2, <2>1, <3>2, <3>3
    <3>9. y <= NBranches + 1
      BY <1>1, <3>4, <3>5, <3>7, <3>8
    <3> QED
      BY <3>3, <3>9
  <2>2. CASE k \notin 1..Len(t)
    <3>1. ASSUME NEW c \in Under(u, k) PROVE FALSE
      <4>1. c \in 1..Len(u) /\ u[c].parent = k /\ k = Len(u)
        BY <2>2, <3>1 DEF Under
      <4>2. CASE c \in 1..Len(t)
        <5>1. t[c].parent \in 0..(c - 1) /\ t[c].parent = k
          BY <1>2, <4>1, <4>2 DEF Typed
        <5> QED
          BY <2>2, <4>2, <5>1
      <4>3. CASE c \notin 1..Len(t)
        BY <2>2, <4>1, <4>3
      <4> QED
        BY <4>2, <4>3
    <3>2. Under(u, k) = {}
      BY <3>1
    <3>3. Cardinality(Under(u, k)) = 0
      BY <3>2, FS_EmptySet
    <3> QED
      BY <1>1, <3>3
  <2> QED
    BY <2>1, <2>2
<1> QED
  BY <1>3, <1>4 DEF Within

-----------------------------------------------------------------------------
(* The actions, one by one.                                                *)

LEMMA FreshTyped ==
  ASSUME NEW action, NEW k, NEW parent, NEW depth, NEW y,
         action \in Actions \cup {"none"}, parent \in 0..(k - 1), depth \in Nat,
         y = Node(action, parent, depth)
  PROVE  Typed(y, k) /\ y.parent = parent /\ y.depth = depth
BY AmountAdds DEF Node, Typed, Incomplete

LEMMA TreeIsSequence ==
  ASSUME IsTree(tree)
  PROVE  DOMAIN tree = 1..Len(tree) /\ Len(tree) \in Nat
BY LenProperties DEF IsTree

LEMMA ChildrenUnder ==
  ASSUME IsTree(tree), NEW w
  PROVE  Children(w) = Under(tree, w)
BY TreeIsSequence DEF Children, Under

LEMMA ShapeInitially ==
  ASSUME LatsInit
  PROVE  ShapeInv
<1>1. PICK root : root = Node("none", 0, 1)
  OBVIOUS
<1>2. Len(tree) = 1 /\ tree[1] = root
  BY <1>1 DEF LatsInit
<1>3. Typed(root, 1) /\ root.parent = 0 /\ root.depth = 1
  BY <1>1, FreshTyped
<1>4. Under(tree, 1) = {}
  BY <1>2, <1>3 DEF Under
<1>5. Cardinality(Under(tree, 1)) = 0
  BY <1>4, FS_EmptySet
<1>6. MaxDepth \in Nat /\ NBranches \in Nat /\ 1 \in 1..MaxRollouts
  BY LatsAssumption DEF LatsAssumption
<1>7. Within(tree, FALSE)
  BY <1>2, <1>3, <1>5, <1>6 DEF Within
<1>8. at = 1 /\ rollouts = 1 /\ phase = "descend"
  BY DEF LatsInit, Root
<1>9. Len(tree) \in Nat /\ 1 \in 1..Len(tree)
  BY <1>2
<1>10. Within(tree, TRUE)
  BY <1>7, <1>9, WithinLate
<1> QED
  BY <1>6, <1>7, <1>8, <1>9, <1>10 DEF ShapeInv

\* Before the forced finalize the bounds are those of the search.
LEMMA EarlyWithin ==
  ASSUME ShapeInv, phase \notin {"forced", "done"}
  PROVE  Within(tree, FALSE)
BY DEF ShapeInv, Late

LEMMA FailKeepsShape ==
  ASSUME SearchInv, ShapeInv, phase = "descend",
         tree' = MarkFailed(at), phase' = "ended", UNCHANGED <<at, rollouts>>
  PROVE  ShapeInv'
<1>1. PICK next : next = MarkFailed(at)
  OBVIOUS
<1>2. /\ Len(next) = Len(tree)
      /\ \A k \in 1..Len(tree) :
           SamePlace(tree[k], next[k]) /\ (Typed(tree[k], k) => Typed(next[k], k))
  BY <1>1, FailedTree DEF SearchInv
<1>3. Within(tree, FALSE)
  BY EarlyWithin
<1>4. \A k \in 1..Len(tree) : SamePlace(tree[k], next[k]) /\ Typed(next[k], k)
  BY <1>2, <1>3 DEF Within
<1>5. Within(next, FALSE)
  BY <1>2, <1>3, <1>4, SamePlacesWithin
<1>6. tree' = next
  BY <1>1
<1>7. Within(next, TRUE)
  BY <1>2, <1>5, WithinLate, TreeIsSequence DEF SearchInv
<1> QED
  BY <1>2, <1>5, <1>6, <1>7 DEF ShapeInv

LEMMA ExpandedTree ==
  ASSUME IsTree(tree), NEW actions \in Proposals, actions # <<>>, NEW depth, NEW next,
         next = tree \o [i \in DOMAIN actions |-> Node(actions[i], at, depth)]
  PROVE  \E m \in 1..NBranches :
           /\ Len(next) = Len(tree) + m
           /\ \A k \in 1..Len(tree) : next[k] = tree[k]
           /\ \A k \in (Len(tree) + 1)..Len(next) :
                \E a \in Actions : next[k] = Node(a, at, depth)
<1>1. PICK new : new = [i \in DOMAIN actions |-> Node(actions[i], at, depth)]
  OBVIOUS
<1>2. PICK m : /\ m \in 0..NBranches /\ actions \in [1..m -> Actions]
               /\ DOMAIN actions = 1..m
  BY DEF Proposals
<1>3. m \in 1..NBranches
  <2>1. ASSUME m = 0 PROVE FALSE
    <3>1. actions \in Seq(Actions) /\ Len(actions) = 0
      BY <1>2, <2>1, SeqDef, LenProperties
    <3> QED
      BY <3>1, EmptySeq
  <2> QED
    BY <1>2, <2>1
<1>4. PICK T : T = {new[i] : i \in DOMAIN actions}
  OBVIOUS
<1>5. m \in Nat /\ new \in [1..m -> T] /\ DOMAIN new = 1..m
  BY <1>1, <1>2, <1>4
<1>6. new \in Seq(T)
  BY <1>5, SeqDef
<1>7. Len(new) = m
  BY <1>5, <1>6, LenProperties
<1>8. PICK S : tree \in Seq(S)
  BY DEF IsTree
<1>9. PICK U : U = S \cup T
  OBVIOUS
<1>10. tree \in Seq(U) /\ new \in Seq(U)
  BY <1>6, <1>8, <1>9, SeqMonotonic
<1>11. /\ Len(next) = Len(tree) + m /\ Len(tree) \in Nat
       /\ \A k \in 1..Len(next) :
            next[k] = IF k <= Len(tree) THEN tree[k] ELSE new[k - Len(tree)]
  <2>1. PICK cat : cat = tree \o new
    OBVIOUS
  <2>2. /\ Len(cat) = Len(tree) + Len(new) /\ Len(tree) \in Nat
        /\ \A k \in 1..Len(cat) : cat[k] = IF k <= Len(tree) THEN tree[k] ELSE new[k - Len(tree)]
    BY <1>10, <2>1, ConcatProperties, LenProperties
  <2>3. next = cat
    BY <1>1, <2>1, Zenon
  <2> QED
    BY <1>7, <2>2, <2>3
<1>12. \A k \in 1..Len(tree) : next[k] = tree[k]
  BY <1>2, <1>11
<1>13. ASSUME NEW k \in (Len(tree) + 1)..Len(next)
       PROVE  \E a \in Actions : next[k] = Node(a, at, depth)
  <2>1. PICK i : i = k - Len(tree)
    OBVIOUS
  <2>2. i \in 1..m /\ k \in 1..Len(next) /\ ~(k <= Len(tree))
    BY <1>2, <1>11, <2>1
  <2>3. next[k] = new[i]
    BY <1>11, <2>1, <2>2
  <2>4. PICK a : a = actions[i]
    OBVIOUS
  <2>5. new[i] = Node(a, at, depth) /\ a \in Actions
    BY <1>1, <1>2, <2>2, <2>4
  <2> QED
    BY <2>3, <2>5
<1> QED
  BY <1>3, <1>11, <1>12, <1>13

LEMMA ExpandKeepsShape ==
  ASSUME SearchInv, ShapeInv, NEW actions \in Proposals, Expand(actions)
  PROVE  ShapeInv'
<1>1. CASE actions = <<>>
  BY <1>1, FailKeepsShape DEF Expand
<1>2. CASE actions # <<>>
  <2>1. PICK depth : depth = tree[at].depth + 1
    OBVIOUS
  <2>2. PICK next : next = tree \o [i \in DOMAIN actions |-> Node(actions[i], at, depth)]
    OBVIOUS
  <2>3. /\ tree' = next /\ phase' = "observe" /\ phase = "descend" /\ ~DeadEnd
        /\ UNCHANGED <<at, rollouts>> /\ Children(at) = {}
    BY <1>2, <2>1, <2>2 DEF Expand
  <2>4. IsTree(tree) /\ Len(tree) \in Nat
    BY TreeIsSequence DEF SearchInv
  <2>5. PICK m \in 1..NBranches :
          /\ Len(next) = Len(tree) + m
          /\ \A k \in 1..Len(tree) : next[k] = tree[k]
          /\ \A k \in (Len(tree) + 1)..Len(next) :
               \E a \in Actions : next[k] = Node(a, at, depth)
    BY <1>2, <2>2, <2>4, ExpandedTree
  <2>6. Within(tree, FALSE)
    BY <2>3, EarlyWithin
  <2>7. at \in 1..Len(tree)
    BY DEF ShapeInv
  <2>8. Typed(tree[at], at)
    BY <2>6, <2>7 DEF Within
  <2>9. /\ tree[at].depth \in Nat /\ tree[at].depth <= MaxDepth
        /\ depth \in Nat
    <3>1. PICK d : d = tree[at].depth
      OBVIOUS
    <3>2. d \in Nat /\ ~(d > MaxDepth)
      BY <2>3, <2>8, <3>1 DEF Typed, DeadEnd
    <3>3. MaxDepth \in Nat
      BY LatsAssumption DEF LatsAssumption
    <3> QED
      BY <2>1, <3>1, <3>2, <3>3
  <2>10. Under(tree, at) = {}
    BY <2>3, ChildrenUnder DEF SearchInv
  <2>11. ASSUME NEW k \in (Len(tree) + 1)..Len(next)
         PROVE  next[k].parent = at /\ next[k].depth = depth /\ Typed(next[k], k)
    <3>1. PICK a \in Actions : next[k] = Node(a, at, depth)
      BY <2>5
    <3>2. a \in Actions \cup {"none"} /\ at \in 0..(k - 1)
      BY <2>4, <2>5, <2>7
    <3> QED
      BY <2>9, <3>1, <3>2, FreshTyped
  <2>12. m \in 0..NBranches /\ Len(next) \in Nat
    BY <2>4, <2>5
  <2>13. Within(next, FALSE)
    BY <2>1, <2>4, <2>5, <2>6, <2>7, <2>9, <2>10, <2>11, <2>12, ExpandedWithin
  <2>14. Within(next, TRUE)
    BY <2>12, <2>13, WithinLate
  <2>15. at \in 1..Len(next)
    BY <2>4, <2>5, <2>7
  <2> QED
    BY <2>3, <2>13, <2>14, <2>15 DEF ShapeInv
<1> QED
  BY <1>1, <1>2

LEMMA JudgedReward ==
  ASSUME NEW j \in Judgements
  PROVE  j[1] \in Amount
<1>1. CASE j \in Rewards \X BOOLEAN
  <2>1. j[1] \in Rewards
    BY <1>1
  <2> QED
    BY <2>1, AmountAdds
<1>2. CASE j = <<0, TRUE>>
  BY <1>2, AmountAdds
<1> QED
  BY <1>1, <1>2 DEF Judgements

LEMMA EvaluatedKeepsShape ==
  ASSUME SearchInv, ShapeInv, phase \in {"observe", "forced"},
         NEW c, NEW reward, NEW failed, NEW next,
         reward \in Amount, next = Evaluated(c, reward, failed)
  PROVE  /\ Len(next) = Len(tree) /\ Within(next, TRUE)
         /\ ~Late => Within(next, FALSE)
<1>1. IsTree(tree) /\ NoneComplete(tree)
  BY DEF SearchInv
<1>2. /\ Len(next) = Len(tree)
      /\ \A k \in 1..Len(tree) : SamePlace(tree[k], next[k])
      /\ \A k \in 1..Len(tree) : Typed(tree[k], k) => Typed(next[k], k)
  BY <1>1, EvaluatedTree
<1>3. Within(tree, TRUE) /\ (~Late => Within(tree, FALSE))
  BY DEF ShapeInv
<1>4. \A k \in 1..Len(tree) : SamePlace(tree[k], next[k]) /\ Typed(next[k], k)
  BY <1>2, <1>3 DEF Within
<1> QED
  BY <1>2, <1>3, <1>4, SamePlacesWithin

LEMMA ObserveKeepsShape ==
  ASSUME SearchInv, ShapeInv, NEW reward \in Amount, NEW failed, Observe(reward, failed)
  PROVE  ShapeInv'
<1>1. PICK c : c = Min(Unobserved)
  OBVIOUS
<1>2. PICK next : next = Evaluated(c, reward, failed)
  OBVIOUS
<1>3. /\ tree' = next /\ phase = "observe" /\ UNCHANGED <<at, rollouts>>
      /\ phase' = IF next[c].complete \/ Unobserved = {c} THEN "ended" ELSE "observe"
  BY <1>1, <1>2, Zenon DEF Observe
<1>4. /\ Len(next) = Len(tree) /\ Within(next, TRUE)
      /\ ~Late => Within(next, FALSE)
  <2>1. phase \in {"observe", "forced"}
    BY <1>3
  <2> QED
    BY <1>2, <2>1, EvaluatedKeepsShape
<1>5. phase' \in {"ended", "observe"}
  BY <1>3
<1>6. ~Late
  BY <1>3 DEF Late
<1> QED
  BY <1>3, <1>4, <1>5, <1>6 DEF ShapeInv

LEMMA ObserveForcedKeepsShape ==
  ASSUME SearchInv, ShapeInv, NEW reward \in Amount, NEW failed, ObserveForced(reward, failed)
  PROVE  ShapeInv'
<1>1. PICK next : next = Evaluated(Len(tree), reward, failed)
  OBVIOUS
<1>2. tree' = next /\ phase = "forced" /\ phase' = "done" /\ UNCHANGED <<at, rollouts>>
  BY <1>1, Zenon DEF ObserveForced
<1>3. Len(next) = Len(tree) /\ Within(next, TRUE)
  <2>1. phase \in {"observe", "forced"} /\ next = Evaluated(Len(tree), reward, failed)
    BY <1>1, <1>2
  <2> QED
    BY <2>1, EvaluatedKeepsShape
<1>4. Late'
  BY <1>2 DEF Late
<1> QED
  BY <1>2, <1>3, <1>4 DEF ShapeInv

LEMMA ForceFinalizeKeepsShape ==
  ASSUME SearchInv, ShapeInv, NEW action \in Finalizers, ForceFinalize(action)
  PROVE  ShapeInv'
<1>1. PICK best, new : /\ best \in Observed
                       /\ new = Node(action, best, tree[best].depth + 1)
                       /\ tree' = Append(tree, new) /\ at' = best
  BY DEF ForceFinalize
<1>2. phase = "force" /\ phase' = "forced" /\ rollouts' = rollouts
  BY DEF ForceFinalize
<1>3. PICK next : next = Append(tree, new)
  OBVIOUS
<1>4. PICK S : tree \in Seq(S)
  BY DEF SearchInv, IsTree
<1>5. tree \in Seq(S \cup {new}) /\ new \in S \cup {new}
  BY <1>4, SeqMonotonic
<1>6. /\ Len(next) = Len(tree) + 1 /\ Len(tree) \in Nat /\ DOMAIN tree = 1..Len(tree)
      /\ \A k \in 1..Len(tree) : next[k] = tree[k]
      /\ next[Len(tree) + 1] = new
  BY <1>3, <1>5, AppendProperties, LenProperties
<1>7. best \in 1..Len(tree)
  BY <1>1, <1>6 DEF Observed
<1>8. Within(tree, FALSE)
  BY <1>2, EarlyWithin
<1>9. tree[best].depth \in Nat
  BY <1>7, <1>8 DEF Within, Typed
<1>10. tree[best].depth + 1 \in Nat /\ best \in 0..((Len(tree) + 1) - 1)
  <2>1. PICK d : d = tree[best].depth
    OBVIOUS
  <2>2. d + 1 \in Nat
    BY <1>9, <2>1
  <2> QED
    BY <1>6, <1>7, <2>1, <2>2
<1>11. action \in Actions \cup {"none"}
  BY LatsAssumption DEF LatsAssumption
<1>12. Typed(new, Len(tree) + 1) /\ new.parent = best /\ new.depth = tree[best].depth + 1
  <2>1. PICK depth, k : depth = tree[best].depth + 1 /\ k = Len(tree) + 1
    OBVIOUS
  <2>2. best \in 0..(k - 1) /\ depth \in Nat /\ new = Node(action, best, depth)
    BY <1>1, <1>10, <2>1
  <2>3. Typed(new, k) /\ new.parent = best /\ new.depth = depth
    BY <1>11, <2>2, FreshTyped
  <2> QED
    BY <2>1, <2>3
<1>13. Within(next, TRUE)
  <2>1. next[Len(next)] = new /\ Len(next) = Len(tree) + 1
    BY <1>6
  <2>2. /\ next[Len(next)].parent = best /\ next[Len(next)].depth = tree[best].depth + 1
        /\ Typed(next[Len(next)], Len(next))
    BY <1>12, <2>1
  <2> QED
    BY <1>6, <1>7, <1>8, <2>2, ForcedWithin
<1>14. Late'
  BY <1>2 DEF Late
<1>15. best \in 1..Len(next)
  BY <1>6, <1>7
<1> QED
  BY <1>1, <1>2, <1>3, <1>13, <1>14, <1>15 DEF ShapeInv

LEMMA StopKeepsShape ==
  ASSUME SearchInv, ShapeInv, Stop \/ ForceNothing
  PROVE  ShapeInv'
<1>1. /\ phase \in {"ended", "force"} /\ phase' \in {"done", "force"}
      /\ UNCHANGED <<tree, at, rollouts>>
  BY DEF Stop, ForceNothing
<1>2. Within(tree, FALSE)
  BY <1>1, EarlyWithin
<1> QED
  BY <1>1, <1>2 DEF ShapeInv

LEMMA ShapePreserved ==
  ASSUME SearchInv, ShapeInv, [LatsNext]_latsVars
  PROVE  ShapeInv'
<1>1. CASE GiveUp
  BY <1>1, FailKeepsShape DEF GiveUp
<1>2. CASE Descend
  <2>1. PICK c \in Children(at) : at' = c
    BY <1>2 DEF Descend
  <2>2. at' \in 1..Len(tree)
    BY <2>1, TreeIsSequence DEF Children, SearchInv
  <2>3. UNCHANGED <<tree, rollouts, phase>>
    BY <1>2 DEF Descend
  <2> QED
    BY <2>2, <2>3 DEF ShapeInv, Late
<1>3. CASE \E actions \in Proposals : Expand(actions)
  BY <1>3, ExpandKeepsShape
<1>4. CASE \E j \in Judgements : Observe(j[1], j[2]) \/ ObserveForced(j[1], j[2])
  BY <1>4, JudgedReward, ObserveKeepsShape, ObserveForcedKeepsShape
<1>5. CASE NextRollout
  <2>1. /\ phase = "ended" /\ phase' = "descend" /\ at' = 1
        /\ rollouts < MaxRollouts /\ rollouts' = rollouts + 1 /\ UNCHANGED tree
    BY <1>5 DEF NextRollout, Root
  <2>2. 1 \in 1..Len(tree) /\ rollouts + 1 \in 1..MaxRollouts
    BY <2>1, LatsAssumption, TreeIsSequence DEF ShapeInv, SearchInv, LatsAssumption
  <2>3. Within(tree, TRUE) /\ Within(tree, FALSE)
    BY <2>1, EarlyWithin DEF ShapeInv
  <2> QED
    BY <2>1, <2>2, <2>3 DEF ShapeInv
<1>6. CASE Stop
  BY <1>6, StopKeepsShape
<1>7. CASE \E a \in Finalizers : ForceFinalize(a)
  BY <1>7, ForceFinalizeKeepsShape
<1>8. CASE ForceNothing
  BY <1>8, StopKeepsShape
<1>9. CASE UNCHANGED latsVars
  BY <1>9 DEF latsVars, ShapeInv, Late
<1> QED
  BY <1>1, <1>2, <1>3, <1>4, <1>5, <1>6, <1>7, <1>8, <1>9 DEF LatsNext

LEMMA ShapeHolds == LatsSpec => [](SearchInv /\ ShapeInv)
<1>1. LatsInit => SearchInv /\ ShapeInv
  BY SearchInitially, ShapeInitially
<1>2. SearchInv /\ ShapeInv /\ [LatsNext]_latsVars => SearchInv' /\ ShapeInv'
  BY SearchPreserved, ShapePreserved
<1> QED
  BY <1>1, <1>2, PTL DEF LatsSpec

(* Every value the search keeps is of its type, and every node hangs under an earlier one. *)
THEOREM LatsTypeCorrect == LatsSpec => []LatsTypeOK
<1>1. SearchInv /\ ShapeInv => LatsTypeOK
  BY TreeIsSequence, AmountAdds DEF SearchInv, ShapeInv, Within, Typed, LatsTypeOK
<1> QED
  BY <1>1, ShapeHolds, PTL

(* The search is bounded whatever is proposed: but for the one forced finalize, no node    *)
(* lies deeper than one below max_depth and none has more than n_branches children (a node *)
(* is expanded once, _rollout).                                                            *)
THEOREM SearchAlwaysBounded == LatsSpec => []SearchBounded
<1>1. SearchInv /\ ShapeInv => SearchBounded
  BY TreeIsSequence, ChildrenUnder DEF SearchInv, ShapeInv, Within, Late, SearchBounded
<1> QED
  BY <1>1, ShapeHolds, PTL

-----------------------------------------------------------------------------
(* Sums over a finite set, as MapThenSumSet computes them: it[s] is the sum of g over s. *)

One(s) == CHOOSE x \in s : TRUE

SumsOf(it, SS, g) ==
  it = [s \in SS |-> IF s = {} THEN 0 ELSE g[One(s)] + it[s \ {One(s)}]]
Sums(it, S, g) == SumsOf(it, SUBSET S, g)

LEMMA SumsStep ==
  ASSUME NEW S, NEW g, NEW it, Sums(it, S, g)
  PROVE  /\ it[{}] = 0
         /\ \A s \in SUBSET S : s # {} => One(s) \in s /\ it[s] = g[One(s)] + it[s \ {One(s)}]
<1>1. \A s \in SUBSET S : it[s] = IF s = {} THEN 0 ELSE g[One(s)] + it[s \ {One(s)}]
  BY Zenon DEF Sums, SumsOf
<1>2. \A s : s # {} => One(s) \in s
  BY Zenon DEF One
<1>3. {} \in SUBSET S
  OBVIOUS
<1>4. it[{}] = 0
  BY <1>1, <1>3, Zenon
<1>5. \A s \in SUBSET S : s # {} => it[s] = g[One(s)] + it[s \ {One(s)}]
  BY <1>1, Zenon
<1> QED
  BY <1>2, <1>4, <1>5, Zenon

\* Of the subsets that are bad, one is no longer so without any one of its elements.
LEMMA SmallestSubset ==
  ASSUME NEW S, IsFiniteSet(S), NEW Bad \in SUBSET SUBSET S, Bad # {}
  PROVE  \E s \in Bad : \A x \in s : s \ {x} \notin Bad
<1>1. PICK J : J = {len \in Nat : \E s \in Bad : Cardinality(s) = len}
  OBVIOUS
<1>2. \A s \in Bad : IsFiniteSet(s) /\ Cardinality(s) \in Nat
  BY FS_Subset, FS_CardinalityType
<1>3. J \in SUBSET Nat /\ J # {}
  BY <1>1, <1>2
<1>4. PICK k \in J : \A j \in J : k <= j
  BY <1>3, LeastExists
<1>5. PICK s \in Bad : Cardinality(s) = k
  BY <1>1, <1>4
<1>6. ASSUME NEW x \in s, s \ {x} \in Bad PROVE FALSE
  <2>1. IsFiniteSet(s)
    BY <1>2
  <2>2. Cardinality(s \ {x}) = Cardinality(s) - 1
    BY <1>6, <2>1, FS_RemoveElement
  <2>3. k \in Nat /\ Cardinality(s \ {x}) \in Nat
    BY <1>2, <1>3, <1>6
  <2>4. Cardinality(s \ {x}) \in J
    BY <1>1, <1>6, <2>3
  <2> QED
    BY <1>4, <1>5, <2>2, <2>3, <2>4
<1> QED
  BY <1>6

LEMMA SumsExist ==
  ASSUME NEW S, IsFiniteSet(S), NEW g
  PROVE  \E it : Sums(it, S, g)
<1>1. PICK N : N = Cardinality(S)
  OBVIOUS
<1>2. \A s \in SUBSET S : IsFiniteSet(s) /\ Cardinality(s) \in Nat /\ Cardinality(s) <= N
  BY <1>1, FS_Subset, FS_CardinalityType
<1> DEFINE Small(len) == {s \in SUBSET S : Cardinality(s) <= len}
           Bad == {len \in Nat : ~\E it : SumsOf(it, Small(len), g)}
<1>3. Bad = {}
  <2>1. SUFFICES ASSUME Bad # {} PROVE FALSE
    OBVIOUS
  <2>2. Bad \in SUBSET Nat
    OBVIOUS
  <2>3. PICK len \in Bad : \A j \in Bad : len <= j
    BY <2>1, <2>2, LeastExists
  <2>4. CASE len = 0
    <3>1. PICK it : it = [s \in Small(0) |-> 0]
      OBVIOUS
    <3>2. ASSUME NEW s \in Small(0) PROVE s = {}
      <4>1. IsFiniteSet(s) /\ Cardinality(s) = 0
        BY <1>2, <3>2
      <4> QED
        BY <4>1, FS_EmptySet
    <3>3. SumsOf(it, Small(0), g)
      BY <3>1, <3>2 DEF SumsOf
    <3> QED
      BY <2>3, <2>4, <3>3
  <2>5. CASE len # 0
    <3>1. PICK m : m = len - 1
      OBVIOUS
    <3>2. m \in Nat /\ len = m + 1 /\ m \notin Bad
      <4>1. len \in Nat
        BY <2>3
      <4>2. m \in Nat /\ len = m + 1 /\ ~(len <= m)
        BY <2>5, <3>1, <4>1
      <4>3. m \notin Bad
        BY <2>3, <4>2, Zenon
      <4> QED
        BY <4>2, <4>3
    <3>3. PICK it : SumsOf(it, Small(m), g)
      BY <3>2
    <3>4. PICK jt : jt = [s \in Small(len) |-> IF s = {} THEN 0 ELSE g[One(s)] + it[s \ {One(s)}]]
      OBVIOUS
    <3>5. \A s \in Small(m) : it[s] = IF s = {} THEN 0 ELSE g[One(s)] + it[s \ {One(s)}]
      BY <3>3, Zenon DEF SumsOf
    <3>6. \A s \in Small(m) : s \in Small(len)
      BY <1>2, <3>2
    <3>7. \A s \in Small(m) : jt[s] = it[s]
      BY <3>4, <3>5, <3>6, Zenon
    <3>8. ASSUME NEW s \in Small(len), s # {} PROVE s \ {One(s)} \in Small(m)
      <4>1. One(s) \in s
        BY <3>8, Zenon DEF One
      <4>2. IsFiniteSet(s) /\ Cardinality(s) \in Nat
        BY <1>2
      <4>3. Cardinality(s \ {One(s)}) = Cardinality(s) - 1
        BY <4>1, <4>2, FS_RemoveElement
      <4>4. Cardinality(s) <= len
        OBVIOUS
      <4>5. Cardinality(s \ {One(s)}) <= m
        BY <3>2, <4>2, <4>3, <4>4
      <4> QED
        BY <4>5
    <3>9. \A s \in Small(len) : s # {} => jt[s \ {One(s)}] = it[s \ {One(s)}]
      BY <3>7, <3>8, Zenon
    <3>10. jt = [s \in Small(len) |-> IF s = {} THEN 0 ELSE g[One(s)] + jt[s \ {One(s)}]]
      BY <3>4, <3>9
    <3> QED
      BY <2>3, <3>10 DEF SumsOf
  <2> QED
    BY <2>4, <2>5
<1>4. N \in Nat
  BY <1>1, FS_CardinalityType
<1>5. PICK it : SumsOf(it, Small(N), g)
  BY <1>3, <1>4
<1>6. Small(N) = SUBSET S
  BY <1>2
<1> QED
  BY <1>5, <1>6 DEF Sums

\* A sum stays in any set that holds zero, what is added, and what two of its own add up to.
LEMMA SumsWithin ==
  ASSUME NEW V, 0 \in V, \A x, y \in V : x + y \in V,
         NEW S, IsFiniteSet(S), NEW g, \A x \in S : g[x] \in V, NEW it, Sums(it, S, g)
  PROVE  \A s \in SUBSET S : it[s] \in V
<1>1. PICK Bad : Bad = {s \in SUBSET S : it[s] \notin V}
  OBVIOUS
<1>2. SUFFICES ASSUME Bad # {} PROVE FALSE
  BY <1>1
<1>3. Bad \in SUBSET SUBSET S
  BY <1>1
<1>4. PICK s \in Bad : \A x \in s : s \ {x} \notin Bad
  BY <1>2, <1>3, SmallestSubset
<1>5. /\ it[{}] = 0
      /\ \A u \in SUBSET S : u # {} => One(u) \in u /\ it[u] = g[One(u)] + it[u \ {One(u)}]
  BY SumsStep
<1>6. PICK x : x = One(s)
  OBVIOUS
<1>7. x \in s /\ it[s] = g[x] + it[s \ {x}]
  <2>1. s \in SUBSET S /\ ~(it[s] \in V)
    BY <1>1
  <2>2. it[{}] \in V
    <3>1. PICK z : z = it[{}]
      OBVIOUS
    <3>2. z = 0
      BY <1>5, <3>1
    <3> QED
      BY <3>1, <3>2
  <2>3. s # {}
    BY <2>1, <2>2, Zenon
  <2> QED
    BY <1>5, <1>6, <2>1, <2>3
<1>8. it[s \ {x}] \in V /\ g[x] \in V
  BY <1>1, <1>3, <1>4, <1>7
<1> QED
  BY <1>1, <1>7, <1>8

LEMMA SumsTyped ==
  ASSUME NEW S, IsFiniteSet(S), NEW g, \A x \in S : g[x] \in Int, NEW it, Sums(it, S, g)
  PROVE  \A s \in SUBSET S : it[s] \in Int
<1>1. 0 \in Int /\ \A x, y \in Int : x + y \in Int
  OBVIOUS
<1> QED
  BY <1>1, SumsWithin

LEMMA SumsNatural ==
  ASSUME NEW S, IsFiniteSet(S), NEW g, \A x \in S : g[x] \in Nat, NEW it, Sums(it, S, g)
  PROVE  \A s \in SUBSET S : it[s] \in Nat
<1>1. 0 \in Nat /\ \A x, y \in Nat : x + y \in Nat
  OBVIOUS
<1> QED
  BY <1>1, SumsWithin

\* Whatever element is taken first, the sum is the same.
LEMMA SumsRemove ==
  ASSUME NEW S, IsFiniteSet(S), NEW g, \A x \in S : g[x] \in Int, NEW it, Sums(it, S, g)
  PROVE  \A s \in SUBSET S : \A x \in s : it[s] = g[x] + it[s \ {x}]
<1>1. PICK Bad : Bad = {s \in SUBSET S : \E x \in s : it[s] # g[x] + it[s \ {x}]}
  OBVIOUS
<1>2. SUFFICES ASSUME Bad # {} PROVE FALSE
  BY <1>1
<1>3. Bad \in SUBSET SUBSET S
  BY <1>1
<1>4. PICK s \in Bad : \A x \in s : s \ {x} \notin Bad
  BY <1>2, <1>3, SmallestSubset
<1>5. PICK x \in s : it[s] # g[x] + it[s \ {x}]
  BY <1>1
<1>6. PICK y : y = One(s)
  OBVIOUS
<1>7. y \in s /\ it[s] = g[y] + it[s \ {y}]
  <2>1. s \in SUBSET S /\ s # {}
    BY <1>3, <1>5
  <2>2. One(s) \in s /\ it[s] = g[One(s)] + it[s \ {One(s)}]
    BY <2>1, SumsStep
  <2> QED
    BY <1>6, <2>2, Zenon
<1>8. x # y
  BY <1>5, <1>7
<1>9. it[s \ {y}] = g[x] + it[(s \ {y}) \ {x}]
  BY <1>1, <1>3, <1>4, <1>7, <1>8
<1>10. it[s \ {x}] = g[y] + it[(s \ {x}) \ {y}]
  BY <1>1, <1>3, <1>4, <1>7, <1>8
<1>11. PICK t : t = (s \ {x}) \ {y}
  OBVIOUS
<1> t \in SUBSET S /\ t = (s \ {y}) \ {x}
  BY <1>3, <1>11
<1>12. PICK a, b, c : a = g[x] /\ b = g[y] /\ c = it[t]
  OBVIOUS
<1>13. a \in Int /\ b \in Int /\ c \in Int
  BY <1>3, <1>7, <1>11, <1>12, SumsTyped
<1>14. it[s] = b + (a + c) /\ it[s \ {x}] = b + c
  BY <1>7, <1>9, <1>10, <1>11, <1>12
<1> QED
  BY <1>5, <1>12, <1>13, <1>14

LEMMA SumsWithout ==
  ASSUME NEW S, IsFiniteSet(S), NEW g, \A x \in S : g[x] \in Int, NEW it, Sums(it, S, g),
         NEW y \in S
  PROVE  it[S] = g[y] + it[S \ {y}]
<1>1. S \in SUBSET S
  OBVIOUS
<1> QED
  BY <1>1, SumsRemove

\* A sum depends on what is added alone.
LEMMA SumsAgree ==
  ASSUME NEW S, NEW g, NEW it, Sums(it, S, g), NEW T, NEW h, NEW jt, Sums(jt, T, h),
         NEW U \in SUBSET (S \cap T), IsFiniteSet(U), \A x \in U : g[x] = h[x]
  PROVE  it[U] = jt[U]
<1>1. PICK Bad : Bad = {s \in SUBSET U : it[s] # jt[s]}
  OBVIOUS
<1>2. SUFFICES ASSUME Bad # {} PROVE FALSE
  BY <1>1
<1>3. Bad \in SUBSET SUBSET U
  BY <1>1
<1>4. PICK s \in Bad : \A x \in s : s \ {x} \notin Bad
  BY <1>2, <1>3, SmallestSubset
<1>5. s # {}
  BY <1>1, SumsStep
<1>6. PICK x : x = One(s)
  OBVIOUS
<1>7. x \in s /\ it[s] = g[x] + it[s \ {x}] /\ jt[s] = h[x] + jt[s \ {x}]
  <2>1. s \in SUBSET S /\ s \in SUBSET T
    BY <1>3
  <2>2. One(s) \in s /\ it[s] = g[One(s)] + it[s \ {One(s)}]
    BY <1>5, <2>1, SumsStep
  <2>3. jt[s] = h[One(s)] + jt[s \ {One(s)}]
    BY <1>5, <2>1, SumsStep
  <2> QED
    BY <1>6, <2>2, <2>3
<1>8. it[s \ {x}] = jt[s \ {x}] /\ g[x] = h[x]
  BY <1>1, <1>3, <1>4, <1>7
<1> QED
  BY <1>1, <1>7, <1>8

\* Elements that count zero do not count.
LEMMA ZerosDoNotCount ==
  ASSUME NEW T, IsFiniteSet(T), NEW g, \A x \in T : g[x] \in Int, NEW it, Sums(it, T, g),
         NEW S \in SUBSET T, \A x \in T \ S : g[x] = 0
  PROVE  it[T] = it[S]
<1>1. PICK Bad : Bad = {N \in SUBSET (T \ S) : it[S \cup N] # it[S]}
  OBVIOUS
<1>2. Bad = {}
  <2>1. SUFFICES ASSUME Bad # {} PROVE FALSE
    OBVIOUS
  <2>2. Bad \in SUBSET SUBSET (T \ S) /\ IsFiniteSet(T \ S)
    BY <1>1, FS_Subset
  <2>3. PICK N \in Bad : \A x \in N : N \ {x} \notin Bad
    BY <2>1, <2>2, SmallestSubset
  <2>4. N # {}
    BY <1>1
  <2>5. PICK x \in N : TRUE
    BY <2>4
  <2>6. PICK U : U = S \cup N
    OBVIOUS
  <2>7. U \in SUBSET T /\ x \in U /\ U \ {x} = S \cup (N \ {x})
    BY <1>1, <2>5, <2>6
  <2>8. it[U] = g[x] + it[U \ {x}]
    BY <2>7, SumsRemove
  <2>9. it[S \cup (N \ {x})] = it[S] /\ g[x] = 0 /\ N \ {x} \in SUBSET (T \ S)
    BY <1>1, <2>3, <2>5
  <2>10. it[S] \in Int
    BY SumsTyped
  <2>11. PICK z, y : z = it[S] /\ y = it[U \ {x}]
    OBVIOUS
  <2>12. it[U] = 0 + z
    BY <2>7, <2>8, <2>9, <2>11
  <2>13. it[U] = it[S]
    BY <2>10, <2>11, <2>12
  <2> QED
    BY <1>1, <2>3, <2>6, <2>13
<1>3. PICK N : N = T \ S
  OBVIOUS
<1>4. it[S \cup N] = it[S]
  BY <1>1, <1>2, <1>3
<1>5. S \cup N = T
  BY <1>3
<1> QED
  BY <1>4, <1>5

\* What a node has is its own and what its children have together.
Balanced(own, total, S, g) ==
  \E it : Sums(it, S, g) /\ it[S] \in Int /\ total = own + it[S]

LEMMA BalancedAgree ==
  ASSUME NEW S, IsFiniteSet(S), NEW g, NEW h, \A x \in S : g[x] = h[x],
         NEW own, NEW total, Balanced(own, total, S, g)
  PROVE  Balanced(own, total, S, h)
<1>1. PICK it : Sums(it, S, g) /\ it[S] \in Int /\ total = own + it[S]
  BY DEF Balanced
<1>2. PICK jt : Sums(jt, S, h)
  BY SumsExist
<1>3. S \in SUBSET (S \cap S)
  OBVIOUS
<1>4. it[S] = jt[S]
  BY <1>1, <1>2, <1>3, SumsAgree
<1> QED
  BY <1>1, <1>2, <1>4 DEF Balanced

LEMMA BalancedRaised ==
  ASSUME NEW S, IsFiniteSet(S), NEW g, NEW h, NEW y \in S, NEW d \in Int,
         \A x \in S : g[x] \in Int, \A x \in S \ {y} : g[x] = h[x], h[y] = g[y] + d,
         NEW own \in Int, NEW total, Balanced(own, total, S, g)
  PROVE  Balanced(own, total + d, S, h)
<1>1. PICK it : Sums(it, S, g) /\ it[S] \in Int /\ total = own + it[S]
  BY DEF Balanced
<1>2. PICK jt : Sums(jt, S, h)
  BY SumsExist
<1>3. PICK U : U = S \ {y}
  OBVIOUS
<1>4. U \in SUBSET (S \cap S) /\ IsFiniteSet(U) /\ S \in SUBSET S
  BY <1>3, FS_Subset
<1>5. it[U] = jt[U]
  <2>1. \A x \in U : g[x] = h[x]
    BY <1>3
  <2> QED
    BY <1>1, <1>2, <1>4, <2>1, SumsAgree
<1>6. \A x \in S : h[x] \in Int
  <2>1. ASSUME NEW x \in S PROVE h[x] \in Int
    <3>1. CASE x = y
      <4>1. PICK e : e = g[y]
        OBVIOUS
      <4>2. e + d \in Int
        BY <4>1
      <4> QED
        BY <3>1, <4>1, <4>2
    <3>2. CASE x # y
      BY <3>2
    <3> QED
      BY <3>1, <3>2
  <2> QED
    BY <2>1
<1>7. it[S] = g[y] + it[U]
  BY <1>1, <1>3, <1>4, SumsRemove
<1>8. jt[S] = h[y] + jt[U]
  <2>1. jt[S] = h[y] + jt[S \ {y}]
    BY <1>2, <1>6, SumsWithout
  <2> QED
    BY <1>3, <2>1, Zenon
<1>9. PICK e, u : e = g[y] /\ u = it[U]
  OBVIOUS
<1>10. e \in Int /\ u \in Int
  BY <1>1, <1>4, <1>9, SumsTyped
<1>11. jt[S] = (e + d) + u /\ it[S] = e + u
  BY <1>5, <1>7, <1>8, <1>9
<1>12. jt[S] \in Int /\ total + d = own + jt[S]
  BY <1>1, <1>10, <1>11
<1> QED
  BY <1>2, <1>12 DEF Balanced

LEMMA BalancedOwn ==
  ASSUME NEW S, NEW g, NEW own \in Int, NEW total, NEW d \in Int, Balanced(own, total, S, g)
  PROVE  Balanced(own + d, total + d, S, g)
<1>1. PICK it : Sums(it, S, g) /\ it[S] \in Int /\ total = own + it[S]
  BY DEF Balanced
<1>2. total + d = (own + d) + it[S]
  BY <1>1
<1> QED
  BY <1>1, <1>2 DEF Balanced

LEMMA BalancedGrown ==
  ASSUME NEW S, NEW T, IsFiniteSet(T), S \subseteq T, NEW g, NEW h,
         \A x \in S : g[x] = h[x] /\ g[x] \in Int, \A x \in T \ S : h[x] = 0,
         NEW own, NEW total, Balanced(own, total, S, g)
  PROVE  Balanced(own, total, T, h)
<1>1. PICK it : Sums(it, S, g) /\ it[S] \in Int /\ total = own + it[S]
  BY DEF Balanced
<1>2. PICK jt : Sums(jt, T, h)
  BY SumsExist
<1>3. S \in SUBSET (S \cap T) /\ IsFiniteSet(S) /\ S \in SUBSET T
  BY FS_Subset
<1>4. it[S] = jt[S]
  BY <1>1, <1>2, <1>3, SumsAgree
<1>5. \A x \in T : h[x] \in Int
  OBVIOUS
<1>6. jt[T] = jt[S]
  BY <1>2, <1>3, <1>5, ZerosDoNotCount
<1> QED
  BY <1>1, <1>2, <1>4, <1>6 DEF Balanced

LEMMA BalancedAtLeast ==
  ASSUME NEW S, IsFiniteSet(S), NEW g, \A x \in S : g[x] \in Nat,
         NEW own \in Nat, NEW total, Balanced(own, total, S, g)
  PROVE  /\ total \in Nat /\ own <= total
         /\ \A x, y \in S : x # y => g[x] + g[y] <= total
<1>1. PICK it : Sums(it, S, g) /\ total = own + it[S]
  BY DEF Balanced
<1>2. Sums(it, S, g) /\ it[S] \in Nat
  BY <1>1, SumsNatural
<1>3. ASSUME NEW x \in S, NEW y \in S, x # y PROVE g[x] + g[y] <= total
  <2>1. PICK U : U = S \ {x}
    OBVIOUS
  <2>2. PICK V : V = U \ {y}
    OBVIOUS
  <2>3. S \in SUBSET S /\ U \in SUBSET S /\ V \in SUBSET S /\ y \in U
    BY <1>3, <2>1, <2>2
  <2>4. it[S] = g[x] + it[U] /\ it[U] = g[y] + it[V]
    <3>1. it[S] = g[x] + it[S \ {x}]
      BY <1>2, <2>3, SumsRemove
    <3>2. it[U] = g[y] + it[U \ {y}]
      BY <1>2, <2>3, SumsRemove
    <3> QED
      BY <2>1, <2>2, <3>1, <3>2, Zenon
  <2>5. PICK a, b, c : a = g[x] /\ b = g[y] /\ c = it[V]
    OBVIOUS
  <2>6. a \in Nat /\ b \in Nat /\ c \in Nat
    BY <1>1, <2>3, <2>5, SumsNatural
  <2>7. it[S] = a + (b + c)
    BY <2>4, <2>5
  <2>8. a + b <= total
    BY <1>1, <2>6, <2>7
  <2> QED
    BY <2>5, <2>8
<1>4. total \in Nat /\ own <= total
  BY <1>1, <1>2
<1> QED
  BY <1>3, <1>4

-----------------------------------------------------------------------------
(* The ancestors of a node, which backprop counts its reward for.          *)

\* A chain of parents from c down to a node that has none.
Path(t, A, c) ==
  /\ A \subseteq 1..c /\ c \in A
  /\ \A a \in A : t[a].parent # 0 => t[a].parent \in A
  /\ \A a \in A : a # c => \E b \in A : t[b].parent = a
  /\ \A a, b \in A : t[a].parent = t[b].parent => a = b

Rooted(t, len) == \A k \in 1..len : t[k].parent \in 0..(k - 1)

Climbs(up, t, len) == up = [k \in 0..len |-> IF k = 0 THEN {} ELSE {k} \cup up[t[k].parent]]

LEMMA ClimbExists ==
  ASSUME NEW t, NEW len \in Nat, Rooted(t, len)
  PROVE  \E up : Climbs(up, t, len)
<1>1. PICK Bad : Bad = {m \in 0..len : ~\E up : Climbs(up, t, m)}
  OBVIOUS
<1>2. SUFFICES ASSUME Bad # {} PROVE FALSE
  BY <1>1
<1>3. Bad \in SUBSET Nat
  BY <1>1
<1>4. PICK m \in Bad : \A j \in Bad : m <= j
  BY <1>2, <1>3, LeastExists
<1>5. CASE m = 0
  <2>1. PICK up : up = [k \in 0..0 |-> {}]
    OBVIOUS
  <2>2. Climbs(up, t, 0)
    BY <2>1 DEF Climbs
  <2> QED
    BY <1>1, <1>5, <2>2
<1>6. CASE m # 0
  <2>1. PICK l : l = m - 1
    OBVIOUS
  <2>2. m \in 1..len /\ l \in 0..len /\ m = l + 1 /\ l \notin Bad /\ 0..m = 0..l \cup {m}
    BY <1>1, <1>4, <1>6, <2>1
  <2>3. PICK up : Climbs(up, t, l)
    BY <1>1, <2>2
  <2>4. PICK vp : vp = [k \in 0..m |-> IF k = 0 THEN {} ELSE {k} \cup up[t[k].parent]]
    OBVIOUS
  <2>5. \A k \in 0..l : up[k] = IF k = 0 THEN {} ELSE {k} \cup up[t[k].parent]
    BY <2>3, Zenon DEF Climbs
  <2>6. \A k \in 0..l : vp[k] = up[k]
    BY <2>2, <2>4, <2>5
  <2>7. \A k \in 0..m : k # 0 => t[k].parent \in 0..l
    BY <2>2 DEF Rooted
  <2>8. \A k \in 0..m : k # 0 => vp[t[k].parent] = up[t[k].parent]
    BY <2>6, <2>7, Zenon
  <2>9. vp = [k \in 0..m |-> IF k = 0 THEN {} ELSE {k} \cup vp[t[k].parent]]
    BY <2>4, <2>8
  <2> QED
    BY <1>1, <2>9 DEF Climbs
<1> QED
  BY <1>5, <1>6

LEMMA ClimbIsPath ==
  ASSUME NEW t, NEW len \in Nat, Rooted(t, len), NEW up, Climbs(up, t, len)
  PROVE  \A c \in 1..len : Path(t, up[c], c)
<1>1. PICK Bad : Bad = {c \in 1..len : ~Path(t, up[c], c)}
  OBVIOUS
<1>2. SUFFICES ASSUME Bad # {} PROVE FALSE
  BY <1>1
<1>3. Bad \in SUBSET Nat
  BY <1>1
<1>4. PICK c \in Bad : \A j \in Bad : c <= j
  BY <1>2, <1>3, LeastExists
<1>5. PICK p : p = t[c].parent
  OBVIOUS
<1>6. c \in 1..len /\ c \in Nat /\ c # 0 /\ p \in 0..(c - 1)
  BY <1>1, <1>5 DEF Rooted
<1>7. \A k \in 0..len : up[k] = IF k = 0 THEN {} ELSE {k} \cup up[t[k].parent]
  BY Zenon DEF Climbs
<1>8. up[c] = {c} \cup up[p] /\ up[0] = {}
  <2>1. c \in 0..len /\ 0 \in 0..len
    BY <1>6
  <2> QED
    BY <1>5, <1>6, <1>7, <2>1, Zenon
<1>9. CASE p = 0
  <2>1. up[c] = {c}
    BY <1>8, <1>9
  <2>2. PICK A : A = {c}
    OBVIOUS
  <2>3. A \subseteq 1..c /\ t[c].parent = 0
    BY <1>5, <1>6, <1>9, <2>2
  <2>4. Path(t, A, c)
    BY <2>2, <2>3 DEF Path
  <2> QED
    BY <1>1, <2>1, <2>2, <2>4
<1>10. CASE p # 0
  <2>1. p \in 1..len /\ p < c /\ p \notin Bad
    BY <1>4, <1>6, <1>10
  <2>2. PICK A : A = up[p]
    OBVIOUS
  <2>3. Path(t, A, p)
    BY <1>1, <2>1, <2>2
  <2>4. A \subseteq 1..p /\ p \in A
    BY <2>3 DEF Path
  <2>5. \A a \in A : t[a].parent < a /\ a <= p /\ a \in 1..len
    BY <2>1, <2>4 DEF Rooted
  <2>6. \A a \in A : t[a].parent # p
    BY <2>1, <2>4, <2>5 DEF Rooted
  <2>7. PICK B : B = {c} \cup A
    OBVIOUS
  <2>8. B \subseteq 1..c /\ c \in B /\ p \in B /\ A \subseteq B
    BY <1>6, <2>1, <2>4, <2>7
  <2>9. \A a \in B : t[a].parent # 0 => t[a].parent \in B
    BY <1>5, <2>3, <2>7, <2>8 DEF Path
  <2>10. \A a \in B : a # c => \E b \in B : t[b].parent = a
    <3>1. ASSUME NEW a \in B, a # c PROVE \E b \in B : t[b].parent = a
      <4>1. CASE a = p
        BY <1>5, <2>8, <4>1
      <4>2. CASE a # p
        <5>1. a \in A
          BY <2>7, <3>1
        <5>2. \E b \in A : t[b].parent = a
          BY <2>3, <4>2, <5>1 DEF Path
        <5> QED
          BY <2>8, <5>2
      <4> QED
        BY <4>1, <4>2
    <3> QED
      BY <3>1
  <2>11. \A a, b \in B : t[a].parent = t[b].parent => a = b
    BY <1>5, <2>3, <2>6, <2>7 DEF Path
  <2>12. Path(t, B, c)
    BY <2>8, <2>9, <2>10, <2>11 DEF Path
  <2> QED
    BY <1>1, <1>8, <2>2, <2>7, <2>12
<1> QED
  BY <1>9, <1>10

LEMMA AncestorsArePath ==
  ASSUME Rooted(tree, Len(tree)), Len(tree) \in Nat, NEW c \in 1..Len(tree)
  PROVE  Path(tree, Ancestors(c), c)
<1>1. c \in Nat /\ Rooted(tree, c)
  BY DEF Rooted
<1>2. \E up : Climbs(up, tree, c)
  BY <1>1, ClimbExists
<1>3. PICK climb : climb = CHOOSE up : Climbs(up, tree, c)
  OBVIOUS
<1>4. Climbs(climb, tree, c)
  BY <1>2, <1>3, Zenon
<1>5. Ancestors(c) = climb[c]
  BY <1>3, Zenon DEF Ancestors, Climbs
<1>6. c \in 1..c
  BY <1>1
<1> QED
  BY <1>1, <1>4, <1>5, <1>6, ClimbIsPath

\* g counts d more on the nodes of A.
Raised(g, h, A, d, len) ==
  \A k \in 1..len : g[k] \in Int /\ h[k] = IF k \in A THEN g[k] + d ELSE g[k]

\* What backprop adds to the nodes of a path keeps every node in balance with its children.
LEMMA PathBalance ==
  ASSUME NEW t, Len(t) \in Nat, Rooted(t, Len(t)),
         NEW c \in 1..Len(t), NEW A, Path(t, A, c),
         NEW g, NEW h, NEW d \in Int, Raised(g, h, A, d, Len(t)),
         NEW k \in 1..Len(t), NEW own \in Int, Balanced(own, g[k], Under(t, k), g),
         NEW mine, mine = IF k = c THEN own + d ELSE own
  PROVE  Balanced(mine, h[k], Under(t, k), h)
<1> USE DEF Raised
<1>1. PICK S : S = Under(t, k)
  OBVIOUS
<1>2. IsFiniteSet(S) /\ S \subseteq 1..Len(t)
  BY <1>1, FewUnder DEF Under
<1>3. A \subseteq 1..c /\ c \in A
  BY DEF Path
<1>4. \A x \in S : t[x].parent = k /\ k < x
  BY <1>1 DEF Under, Rooted
<1>5. PICK total : total = g[k]
  OBVIOUS
<1>6. Balanced(own, total, S, g)
  BY <1>1, <1>5
<1>7. CASE k = c
  <2>1. \A x \in S : x \notin A
    BY <1>2, <1>3, <1>4, <1>7
  <2>2. \A x \in S : g[x] = h[x]
    BY <1>2, <2>1
  <2>3. Balanced(own, total, S, h)
    BY <1>2, <1>6, <2>2, BalancedAgree
  <2>4. Balanced(own + d, total + d, S, h)
    BY <2>3, BalancedOwn
  <2>5. h[k] = total + d
    BY <1>3, <1>5, <1>7
  <2> QED
    BY <1>1, <1>7, <2>4, <2>5
<1>8. CASE k # c /\ k \in A
  <2>1. PICK y \in A : t[y].parent = k
    BY <1>8 DEF Path
  <2>2. y \in S
    BY <1>1, <1>3, <2>1 DEF Under
  <2>3. \A x \in S \ {y} : x \notin A
    BY <1>4, <2>1 DEF Path
  <2>4. \A x \in S \ {y} : g[x] = h[x]
    BY <1>2, <2>3
  <2>5. h[y] = g[y] + d /\ h[k] = total + d
    BY <1>2, <1>5, <1>8, <2>1, <2>2
  <2>6. \A x \in S : g[x] \in Int
    BY <1>2
  <2>7. Balanced(own, total + d, S, h)
    BY <1>2, <1>6, <2>2, <2>4, <2>5, <2>6, BalancedRaised
  <2> QED
    BY <1>1, <1>8, <2>5, <2>7
<1>9. CASE k # c /\ k \notin A
  <2>1. ASSUME NEW x \in S, x \in A PROVE FALSE
    <3>1. t[x].parent = k /\ k # 0
      BY <1>4
    <3>2. t[x].parent \in A
      BY <2>1, <3>1, Zenon DEF Path
    <3> QED
      BY <1>9, <3>1, <3>2
  <2>2. \A x \in S : g[x] = h[x]
    BY <1>2, <2>1
  <2>3. Balanced(own, total, S, h)
    BY <1>2, <1>6, <2>2, BalancedAgree
  <2>4. h[k] = total
    BY <1>5, <1>9
  <2> QED
    BY <1>1, <1>9, <2>3, <2>4
<1> QED
  BY <1>7, <1>8, <1>9

\* New nodes, which have no visits yet, disturb no balance.
LEMMA GrownBalance ==
  ASSUME NEW t, Len(t) \in Nat, NEW u, Len(u) \in Nat, Len(t) <= Len(u),
         \A k \in 1..Len(t) : u[k] = t[k],
         NEW g, NEW h, \A k \in 1..Len(t) : g[k] = h[k] /\ g[k] \in Int,
         \A k \in (Len(t) + 1)..Len(u) : h[k] = 0,
         NEW k \in 1..Len(t), NEW own, Balanced(own, g[k], Under(t, k), g)
  PROVE  Balanced(own, h[k], Under(u, k), h)
<1>1. PICK S, T : S = Under(t, k) /\ T = Under(u, k)
  OBVIOUS
<1>2. IsFiniteSet(T)
  BY <1>1, FewUnder
<1>3. S \subseteq T /\ S \subseteq 1..Len(t)
  BY <1>1 DEF Under
<1>4. \A x \in T \ S : h[x] = 0
  <2>1. ASSUME NEW x \in T \ S PROVE x \in (Len(t) + 1)..Len(u)
    <3>1. x \in 1..Len(u) /\ u[x].parent = k
      BY <1>1 DEF Under
    <3>2. x \notin 1..Len(t)
      BY <1>1, <3>1 DEF Under
    <3> QED
      BY <3>1, <3>2
  <2> QED
    BY <2>1
<1>5. \A x \in S : g[x] = h[x] /\ g[x] \in Int
  BY <1>3
<1>6. PICK total : total = g[k] /\ total = h[k]
  OBVIOUS
<1>7. Balanced(own, total, S, g)
  BY <1>1, <1>6
<1>8. Balanced(own, total, T, h)
  BY <1>2, <1>3, <1>4, <1>5, <1>7, BalancedGrown
<1> QED
  BY <1>1, <1>6, <1>8

-----------------------------------------------------------------------------
(* The statistics of the tree.                                             *)

Runs(x) == IF x.observed THEN 1 ELSE 0
VisitsIn(t) == [k \in 1..Len(t) |-> t[k].visits]
SumsIn(t) == [k \in 1..Len(t) |-> t[k].sum]
SeenIn(t) == {k \in 1..Len(t) : t[k].observed}
Counts(t) == \A k \in 1..Len(t) : t[k].visits \in Nat /\ t[k].sum \in Int

\* A node's visits and rewards are its own and its children's, and no more than the
\* evaluations there were.
Tally(t) ==
  \A k \in 1..Len(t) :
    /\ t[k].reward \in Int /\ (~t[k].observed => t[k].reward = 0)
    /\ Balanced(Runs(t[k]), t[k].visits, Under(t, k), VisitsIn(t))
    /\ Balanced(t[k].reward, t[k].sum, Under(t, k), SumsIn(t))
    /\ t[k].visits <= Cardinality(SeenIn(t))

Fresh(x) == ~x.observed /\ x.visits = 0 /\ x.sum = 0 /\ x.reward = 0

\* The most nodes that so many rollouts make.
Room(r) == 1 + r * NBranches

TallyInv ==
  /\ Tally(tree)
  /\ phase = "observe" => \E c \in 1..Len(tree) : tree[c].parent = at /\ ~tree[c].observed
  /\ phase = "forced" => ~tree[Len(tree)].observed
  /\ phase = "descend" => \A k \in 2..Len(tree) : tree[k].observed
  /\ phase = "observe" => \A k \in 2..Len(tree) : tree[k].observed \/ tree[k].parent = at
  /\ phase = "ended" /\ NoneComplete(tree) => \A k \in 2..Len(tree) : tree[k].observed
  /\ phase = "descend" => Len(tree) <= Room(rollouts - 1)
  /\ ~Late => Len(tree) <= Room(rollouts)

LEMMA BalancedLeaf ==
  ASSUME NEW g, NEW own \in Int
  PROVE  Balanced(own, own, {}, g)
<1>1. PICK it : Sums(it, {}, g)
  BY FS_EmptySet, SumsExist
<1>2. it[{}] = 0
  BY <1>1, SumsStep
<1>3. it[{}] \in Int /\ own = own + it[{}]
  BY <1>2
<1> QED
  BY <1>1, <1>3 DEF Balanced

LEMMA SameTally ==
  ASSUME NEW t, Tally(t), NEW u, Len(u) = Len(t),
         \A k \in 1..Len(t) : SamePlace(t[k], u[k]) /\ SameScore(t[k], u[k])
  PROVE  Tally(u)
<1>1. VisitsIn(u) = VisitsIn(t) /\ SumsIn(u) = SumsIn(t) /\ SeenIn(u) = SeenIn(t)
  BY DEF VisitsIn, SumsIn, SeenIn, SameScore
<1>2. ASSUME NEW w PROVE Under(u, w) = Under(t, w)
  BY DEF Under, SamePlace
<1>3. ASSUME NEW k \in 1..Len(u)
      PROVE  /\ u[k].reward = t[k].reward /\ u[k].observed = t[k].observed
             /\ u[k].visits = t[k].visits /\ u[k].sum = t[k].sum /\ k \in 1..Len(t)
  BY DEF SameScore
<1> QED
  BY <1>1, <1>2, <1>3, Zenon DEF Tally, Runs

LEMMA GrownTally ==
  ASSUME NEW t, Len(t) \in Nat, Rooted(t, Len(t)), Counts(t), Tally(t),
         NEW u, Len(u) \in Nat, Len(t) <= Len(u),
         \A k \in 1..Len(t) : u[k] = t[k],
         \A k \in (Len(t) + 1)..Len(u) : Fresh(u[k]) /\ u[k].parent \in 0..Len(t)
  PROVE  Tally(u)
<1>1. ASSUME NEW k \in 1..Len(u), k \notin 1..Len(t) PROVE k \in (Len(t) + 1)..Len(u)
  BY <1>1
<1>2. SeenIn(u) = SeenIn(t)
  BY <1>1 DEF SeenIn, Fresh
<1>3. \A k \in 1..Len(t) : k \in 1..Len(u)
  OBVIOUS
<1>4. PICK g, h : g = VisitsIn(t) /\ h = VisitsIn(u)
  OBVIOUS
<1>5. PICK p, q : p = SumsIn(t) /\ q = SumsIn(u)
  OBVIOUS
<1>6. \A k \in 1..Len(t) : /\ g[k] = t[k].visits /\ h[k] = g[k] /\ g[k] \in Int
                           /\ p[k] = t[k].sum /\ q[k] = p[k] /\ p[k] \in Int
  BY <1>3, <1>4, <1>5 DEF VisitsIn, SumsIn, Counts
<1>7. \A k \in (Len(t) + 1)..Len(u) : h[k] = 0 /\ q[k] = 0
  <2>1. \A k \in (Len(t) + 1)..Len(u) : k \in 1..Len(u)
    OBVIOUS
  <2> QED
    BY <1>4, <1>5, <2>1 DEF VisitsIn, SumsIn, Fresh
<1>8. PICK seen : seen = Cardinality(SeenIn(t))
  OBVIOUS
<1>9. seen \in Nat
  <2>1. IsFiniteSet(1..Len(t))
    BY FS_Interval
  <2>2. IsFiniteSet(SeenIn(t))
    BY <2>1, FS_Subset DEF SeenIn
  <2> QED
    BY <1>8, <2>2, FS_CardinalityType
<1>10. ASSUME NEW k \in 1..Len(t)
       PROVE  /\ u[k].reward \in Int /\ (~u[k].observed => u[k].reward = 0)
              /\ Balanced(Runs(u[k]), u[k].visits, Under(u, k), h)
              /\ Balanced(u[k].reward, u[k].sum, Under(u, k), q)
              /\ u[k].visits <= seen
  <2>1. PICK own, reward : own = Runs(t[k]) /\ reward = t[k].reward
    OBVIOUS
  <2>2. /\ reward \in Int /\ (~t[k].observed => reward = 0) /\ t[k].visits <= seen
        /\ Balanced(own, t[k].visits, Under(t, k), g) /\ Balanced(reward, t[k].sum, Under(t, k), p)
    BY <1>4, <1>5, <1>8, <2>1 DEF Tally
  <2>3. Balanced(own, g[k], Under(t, k), g) /\ Balanced(reward, p[k], Under(t, k), p)
    BY <1>6, <2>2
  <2>4. Balanced(own, h[k], Under(u, k), h)
    BY <1>6, <1>7, <2>3, GrownBalance
  <2>5. Balanced(reward, q[k], Under(u, k), q)
    BY <1>6, <1>7, <2>3, GrownBalance
  <2> QED
    BY <1>6, <2>1, <2>2, <2>4, <2>5
<1>11. ASSUME NEW k \in 1..Len(u), k \notin 1..Len(t)
       PROVE  /\ u[k].reward \in Int /\ (~u[k].observed => u[k].reward = 0)
              /\ Balanced(Runs(u[k]), u[k].visits, Under(u, k), h)
              /\ Balanced(u[k].reward, u[k].sum, Under(u, k), q)
              /\ u[k].visits <= seen
  <2>1. k \in (Len(t) + 1)..Len(u)
    BY <1>1, <1>11
  <2>2. ASSUME NEW c \in Under(u, k) PROVE FALSE
    <3>1. c \in 1..Len(u) /\ u[c].parent = k
      BY DEF Under
    <3>2. CASE c \in 1..Len(t)
      <4>1. t[c].parent \in 0..(c - 1) /\ t[c].parent = k
        BY <3>1, <3>2 DEF Rooted
      <4> QED
        BY <2>1, <3>2, <4>1
    <3>3. CASE c \notin 1..Len(t)
      <4>1. u[c].parent \in 0..Len(t)
        BY <1>1, <3>1, <3>3
      <4> QED
        BY <1>11, <3>1, <4>1
    <3> QED
      BY <3>2, <3>3
  <2>3. Under(u, k) = {}
    BY <2>2
  <2>4. ~u[k].observed /\ u[k].visits = 0 /\ u[k].sum = 0 /\ u[k].reward = 0
    BY <2>1 DEF Fresh
  <2>5. Balanced(0, 0, {}, h) /\ Balanced(0, 0, {}, q)
    BY BalancedLeaf
  <2>6. Runs(u[k]) = 0
    BY <2>4 DEF Runs
  <2>7. Balanced(Runs(u[k]), u[k].visits, Under(u, k), h)
    BY <2>3, <2>4, <2>5, <2>6
  <2>8. Balanced(u[k].reward, u[k].sum, Under(u, k), q)
    BY <2>3, <2>4, <2>5
  <2> QED
    BY <1>9, <2>4, <2>7, <2>8
<1> QED
  BY <1>2, <1>4, <1>5, <1>8, <1>10, <1>11, Zenon DEF Tally

\* backprop: an evaluation is added to the node and to each of its ancestors.
LEMMA EvaluatedTally ==
  ASSUME IsTree(tree), NoneComplete(tree), Rooted(tree, Len(tree)), Counts(tree), Tally(tree),
         NEW c \in 1..Len(tree), ~tree[c].observed, NEW reward \in Int, NEW failed,
         NEW next, next = Evaluated(c, reward, failed)
  PROVE  Tally(next)
<1>1. Len(tree) \in Nat
  BY TreeIsSequence
<1>2. PICK A : A = Ancestors(c)
  OBVIOUS
<1>3. Path(tree, A, c)
  BY <1>1, <1>2, AncestorsArePath
<1>4. /\ Len(next) = Len(tree)
      /\ \A k \in 1..Len(tree) : SamePlace(tree[k], next[k])
      /\ \A k \in 1..Len(tree) : Scored(c, reward, k, tree[k], next[k])
  BY EvaluatedTree
<1>5. ASSUME NEW w PROVE Under(next, w) = Under(tree, w)
  BY <1>4 DEF Under, SamePlace
<1>6. PICK g, h : g = VisitsIn(tree) /\ h = VisitsIn(next)
  OBVIOUS
<1>7. PICK p, q : p = SumsIn(tree) /\ q = SumsIn(next)
  OBVIOUS
<1>8. \A k \in 1..Len(tree) : /\ g[k] = tree[k].visits /\ g[k] \in Int /\ h[k] = next[k].visits
                              /\ p[k] = tree[k].sum /\ p[k] \in Int /\ q[k] = next[k].sum
  BY <1>4, <1>6, <1>7 DEF VisitsIn, SumsIn, Counts
<1>9. \A k \in 1..Len(tree) : /\ h[k] = IF k \in A THEN g[k] + 1 ELSE g[k]
                              /\ q[k] = IF k \in A THEN p[k] + reward ELSE p[k]
  BY <1>2, <1>4, <1>8 DEF Scored
<1>10. PICK seen, more : seen = Cardinality(SeenIn(tree)) /\ more = Cardinality(SeenIn(next))
  OBVIOUS
<1>11. seen \in Nat /\ more = seen + 1
  <2>1. IsFiniteSet(1..Len(tree))
    BY <1>1, FS_Interval
  <2>2. IsFiniteSet(SeenIn(tree))
    BY <2>1, FS_Subset DEF SeenIn
  <2>3. SeenIn(next) = SeenIn(tree) \cup {c} /\ c \notin SeenIn(tree)
    BY <1>4 DEF SeenIn, Scored
  <2>4. Cardinality(SeenIn(tree)) \in Nat
    BY <2>2, FS_CardinalityType
  <2>5. Cardinality(SeenIn(tree) \cup {c}) = Cardinality(SeenIn(tree)) + 1
    BY <2>2, <2>3, FS_AddElement
  <2> QED
    BY <1>10, <2>3, <2>4, <2>5
<1>12. ASSUME NEW k \in 1..Len(tree)
       PROVE  /\ next[k].reward \in Int /\ (~next[k].observed => next[k].reward = 0)
              /\ Balanced(Runs(next[k]), next[k].visits, Under(next, k), h)
              /\ Balanced(next[k].reward, next[k].sum, Under(next, k), q)
              /\ next[k].visits <= more
  <2>1. PICK own, gain : own = Runs(tree[k]) /\ gain = tree[k].reward
    OBVIOUS
  <2>2. own \in Int /\ gain \in Int /\ (~tree[k].observed => gain = 0) /\ tree[k].visits <= seen
    BY <1>10, <2>1 DEF Tally, Runs
  <2>3. Balanced(own, g[k], Under(tree, k), g) /\ Balanced(gain, p[k], Under(tree, k), p)
    BY <1>6, <1>7, <1>8, <2>1 DEF Tally
  <2>4. Raised(g, h, A, 1, Len(tree)) /\ Raised(p, q, A, reward, Len(tree)) /\ 1 \in Int
    BY <1>8, <1>9 DEF Raised
  <2>5. Balanced(IF k = c THEN own + 1 ELSE own, h[k], Under(tree, k), h)
    BY <1>1, <1>3, <2>2, <2>3, <2>4, PathBalance, Zenon
  <2>6. Balanced(IF k = c THEN gain + reward ELSE gain, q[k], Under(tree, k), q)
    BY <1>1, <1>3, <2>2, <2>3, <2>4, PathBalance, Zenon
  <2>7. /\ next[k].observed = IF k = c THEN TRUE ELSE tree[k].observed
        /\ next[k].reward = IF k = c THEN reward ELSE gain
    BY <1>4, <2>1 DEF Scored
  <2>8. Runs(next[k]) = IF k = c THEN own + 1 ELSE own
    BY <2>1, <2>7 DEF Runs
  <2>9. next[k].reward = IF k = c THEN gain + reward ELSE gain
    BY <2>2, <2>7
  <2>10. Balanced(Runs(next[k]), next[k].visits, Under(next, k), h)
    BY <1>5, <1>8, <2>5, <2>8
  <2>11. Balanced(next[k].reward, next[k].sum, Under(next, k), q)
    BY <1>5, <1>8, <2>6, <2>9
  <2>12. next[k].visits <= more
    BY <1>8, <1>9, <1>11, <2>2
  <2>13. next[k].reward \in Int /\ (~next[k].observed => next[k].reward = 0)
    BY <2>2, <2>7
  <2> QED
    BY <2>10, <2>11, <2>12, <2>13
<1> QED
  BY <1>4, <1>6, <1>7, <1>10, <1>12, Zenon DEF Tally

LEMMA FreshScore ==
  ASSUME NEW action, NEW parent, NEW depth
  PROVE  Fresh(Node(action, parent, depth)) /\ Node(action, parent, depth).parent = parent
BY DEF Node, Fresh

LEMMA RoomGrows ==
  ASSUME NEW r \in Nat
  PROVE  /\ Room(r) \in Nat /\ Room(r + 1) = Room(r) + NBranches
         /\ NBranches \in Nat /\ MaxRollouts \in Nat
         /\ r <= MaxRollouts => Room(r) <= Room(MaxRollouts)
<1>1. NBranches \in Nat /\ MaxRollouts \in Nat
  BY LatsAssumption DEF LatsAssumption
<1>2. PICK b, m : b = NBranches /\ m = MaxRollouts
  OBVIOUS
<1>3. b \in Nat /\ m \in Nat
  BY <1>1, <1>2
<1>4. 1 + r * b \in Nat /\ 1 + (r + 1) * b = (1 + r * b) + b
  BY <1>3
<1>5. ASSUME r <= m PROVE 1 + r * b <= 1 + m * b
  <2>1. PICK d : d = m - r
    OBVIOUS
  <2>2. d \in Nat /\ m = r + d
    BY <1>3, <1>5, <2>1
  <2>3. (r + d) * b = r * b + d * b /\ r * b \in Nat /\ d * b \in Nat
    BY <1>3, <2>2
  <2>4. PICK x, y : x = r * b /\ y = d * b
    OBVIOUS
  <2>5. m * b = x + y /\ x \in Nat /\ y \in Nat
    BY <2>2, <2>3, <2>4
  <2> QED
    BY <2>4, <2>5
<1> QED
  BY <1>1, <1>2, <1>4, <1>5 DEF Room

LEMMA ShapeOfTree ==
  ASSUME SearchInv, ShapeInv
  PROVE  /\ IsTree(tree) /\ Len(tree) \in Nat /\ Rooted(tree, Len(tree)) /\ Counts(tree)
         /\ at \in 1..Len(tree) /\ rollouts \in Nat /\ rollouts <= MaxRollouts
<1>1. IsTree(tree) /\ Len(tree) \in Nat
  BY TreeIsSequence DEF SearchInv
<1>2. \A k \in 1..Len(tree) : Typed(tree[k], k)
  BY DEF ShapeInv, Within
<1>3. Rooted(tree, Len(tree)) /\ Counts(tree)
  BY <1>2, AmountAdds DEF Typed, Rooted, Counts
<1>4. MaxRollouts \in Nat /\ rollouts \in 1..MaxRollouts
  BY LatsAssumption DEF LatsAssumption, ShapeInv
<1> QED
  BY <1>1, <1>3, <1>4 DEF ShapeInv

LEMMA TallyInitially ==
  ASSUME LatsInit
  PROVE  TallyInv
<1>1. PICK root : root = Node("none", 0, 1)
  OBVIOUS
<1>2. Len(tree) = 1 /\ tree[1] = root
  BY <1>1 DEF LatsInit
<1>3. Fresh(root) /\ root.parent = 0
  BY <1>1 DEF Node, Fresh
<1>4. PICK t : t = <<>>
  OBVIOUS
<1>5. Len(t) = 0
  BY <1>4
<1>6. Rooted(t, Len(t)) /\ Counts(t) /\ Tally(t)
  BY <1>5 DEF Rooted, Counts, Tally
<1>7. /\ Len(t) \in Nat /\ Len(tree) \in Nat /\ Len(t) <= Len(tree)
      /\ \A k \in 1..Len(t) : tree[k] = t[k]
      /\ \A k \in (Len(t) + 1)..Len(tree) : Fresh(tree[k]) /\ tree[k].parent \in 0..Len(t)
  BY <1>2, <1>3, <1>5
<1>8. Tally(tree)
  BY <1>6, <1>7, GrownTally
<1>9. rollouts = 1 /\ phase = "descend"
  BY DEF LatsInit
<1>10. Len(tree) <= Room(rollouts - 1) /\ Len(tree) <= Room(rollouts)
  <2>1. NBranches \in Nat
    BY LatsAssumption DEF LatsAssumption
  <2> QED
    BY <1>2, <1>9, <2>1 DEF Room
<1> QED
  BY <1>2, <1>8, <1>9, <1>10 DEF TallyInv

LEMMA FailKeepsTally ==
  ASSUME SearchInv, ShapeInv, TallyInv, phase = "descend",
         tree' = MarkFailed(at), phase' = "ended", UNCHANGED <<at, rollouts>>
  PROVE  TallyInv'
<1>1. PICK next : next = MarkFailed(at)
  OBVIOUS
<1>2. /\ Len(next) = Len(tree)
      /\ \A k \in 1..Len(tree) : SamePlace(tree[k], next[k]) /\ SameScore(tree[k], next[k])
  BY <1>1, FailedTree, ShapeOfTree
<1>3. Tally(next)
  BY <1>2, SameTally DEF TallyInv
<1>4. tree' = next
  BY <1>1
<1>5. \A k \in 2..Len(next) : next[k].observed
  BY <1>2 DEF TallyInv, SameScore
<1>6. Len(next) <= Room(rollouts)
  BY <1>2 DEF TallyInv, Late
<1> QED
  BY <1>3, <1>4, <1>5, <1>6 DEF TallyInv

LEMMA ExpandKeepsTally ==
  ASSUME SearchInv, ShapeInv, TallyInv, NEW actions \in Proposals, Expand(actions)
  PROVE  TallyInv'
<1>1. CASE actions = <<>>
  BY <1>1, FailKeepsTally DEF Expand
<1>2. CASE actions # <<>>
  <2>1. PICK depth : depth = tree[at].depth + 1
    OBVIOUS
  <2>2. PICK next : next = tree \o [i \in DOMAIN actions |-> Node(actions[i], at, depth)]
    OBVIOUS
  <2>3. /\ tree' = next /\ phase' = "observe" /\ phase = "descend"
        /\ UNCHANGED <<at, rollouts>>
    BY <1>2, <2>1, <2>2 DEF Expand
  <2>4. /\ IsTree(tree) /\ Len(tree) \in Nat /\ Rooted(tree, Len(tree)) /\ Counts(tree)
        /\ at \in 1..Len(tree) /\ rollouts \in Nat
    BY ShapeOfTree
  <2>5. PICK m \in 1..NBranches :
          /\ Len(next) = Len(tree) + m
          /\ \A k \in 1..Len(tree) : next[k] = tree[k]
          /\ \A k \in (Len(tree) + 1)..Len(next) :
               \E a \in Actions : next[k] = Node(a, at, depth)
    BY <1>2, <2>2, <2>4, ExpandedTree
  <2>6. NBranches \in Nat
    BY LatsAssumption DEF LatsAssumption
  <2>7. \A k \in (Len(tree) + 1)..Len(next) : Fresh(next[k]) /\ next[k].parent = at
    BY <2>5, FreshScore
  <2>8. Tally(next)
    <3>1. Len(next) \in Nat /\ Len(tree) <= Len(next) /\ Tally(tree) /\ at \in 0..Len(tree)
      BY <2>4, <2>5, <2>6 DEF TallyInv
    <3>2. \A k \in (Len(tree) + 1)..Len(next) : Fresh(next[k]) /\ next[k].parent \in 0..Len(tree)
      BY <2>7, <3>1
    <3> QED
      BY <2>4, <2>5, <3>1, <3>2, GrownTally
  <2>9. \E c \in 1..Len(next) : next[c].parent = at /\ ~next[c].observed
    <3>1. Len(next) \in (Len(tree) + 1)..Len(next) /\ Len(next) \in 1..Len(next)
      BY <2>4, <2>5, <2>6
    <3> QED
      BY <2>7, <3>1 DEF Fresh
  <2>10. \A k \in 2..Len(next) : next[k].observed \/ next[k].parent = at
    <3>1. ASSUME NEW k \in 2..Len(next) PROVE k \in 2..Len(tree) \/ k \in (Len(tree) + 1)..Len(next)
      BY <2>4, <2>5, <2>6
    <3>2. \A k \in 2..Len(tree) : next[k].observed
      BY <2>3, <2>4, <2>5 DEF TallyInv
    <3> QED
      BY <2>7, <3>1, <3>2
  <2>11. Len(next) <= Room(rollouts)
    <3>1. PICK r : r = rollouts - 1
      OBVIOUS
    <3>2. r \in Nat /\ rollouts = r + 1
      BY <3>1, LatsAssumption DEF ShapeInv, LatsAssumption
    <3>3. Room(r) \in Nat /\ Room(rollouts) = Room(r) + NBranches
      BY <3>2, RoomGrows
    <3>4. Len(tree) <= Room(r)
      BY <2>3, <3>1 DEF TallyInv
    <3> QED
      BY <2>4, <2>5, <2>6, <3>3, <3>4
  <2> QED
    BY <2>3, <2>8, <2>9, <2>10, <2>11 DEF TallyInv
<1> QED
  BY <1>1, <1>2

LEMMA ObserveKeepsTally ==
  ASSUME SearchInv, ShapeInv, TallyInv, NEW reward \in Int, NEW failed, Observe(reward, failed)
  PROVE  TallyInv'
<1>1. PICK c : c = Min(Unobserved)
  OBVIOUS
<1>2. PICK next : next = Evaluated(c, reward, failed)
  OBVIOUS
<1>3. /\ tree' = next /\ phase = "observe" /\ UNCHANGED <<at, rollouts>>
      /\ phase' = IF next[c].complete \/ Unobserved = {c} THEN "ended" ELSE "observe"
  BY <1>1, <1>2, Zenon DEF Observe
<1>4. /\ IsTree(tree) /\ Len(tree) \in Nat /\ Rooted(tree, Len(tree)) /\ Counts(tree)
      /\ NoneComplete(tree) /\ DOMAIN tree = 1..Len(tree)
  BY <1>3, ShapeOfTree, TreeIsSequence DEF SearchInv
<1>5. Unobserved = {k \in 1..Len(tree) : tree[k].parent = at /\ ~tree[k].observed}
  BY <1>4 DEF Unobserved, Children
<1>6. c \in Unobserved
  <2>1. Unobserved \in SUBSET Nat /\ Unobserved # {}
    BY <1>3, <1>4, <1>5 DEF TallyInv
  <2>2. \E k \in Unobserved : \A j \in Unobserved : k <= j
    BY <2>1, LeastExists
  <2> QED
    BY <1>1, <2>2 DEF Min
<1>7. c \in 1..Len(tree) /\ ~tree[c].observed
  BY <1>5, <1>6
<1>8. Tally(next)
  BY <1>2, <1>4, <1>7, EvaluatedTally DEF TallyInv
<1>9. /\ Len(next) = Len(tree)
      /\ \A k \in 1..Len(tree) : SamePlace(tree[k], next[k])
      /\ \A k \in 1..Len(tree) : Scored(c, reward, k, tree[k], next[k])
  BY <1>2, <1>4, EvaluatedTree
<1>10. \A k \in 1..Len(tree) :
         /\ next[k].parent = tree[k].parent
         /\ next[k].observed <=> (k = c \/ tree[k].observed)
  BY <1>9 DEF SamePlace, Scored
<1>11. Len(next) <= Room(rollouts)
  BY <1>3, <1>9 DEF TallyInv, Late
<1>12. \A k \in 2..Len(next) : next[k].observed \/ next[k].parent = at
  BY <1>3, <1>4, <1>9, <1>10 DEF TallyInv
<1>13. CASE phase' = "observe"
  <2>1. Unobserved # {c}
    BY <1>3, <1>13
  <2>2. PICK d \in Unobserved : d # c
    BY <1>6, <2>1
  <2>3. d \in 1..Len(next) /\ next[d].parent = at /\ ~next[d].observed
    BY <1>5, <1>9, <1>10, <2>2
  <2> QED
    BY <1>3, <1>8, <1>11, <1>12, <1>13, <2>3 DEF TallyInv
<1>14. CASE phase' = "ended"
  <2>1. ASSUME NoneComplete(next), NEW k \in 2..Len(next) PROVE next[k].observed
    <3>1. Unobserved = {c}
      BY <1>3, <1>7, <1>9, <1>14, <2>1 DEF NoneComplete
    <3>2. k \in 1..Len(tree)
      BY <1>4, <1>9, <2>1
    <3>3. ASSUME ~next[k].observed PROVE FALSE
      <4>1. next[k].parent = at
        BY <1>12, <2>1, <3>3
      <4>2. k \in Unobserved /\ k # c
        BY <1>5, <1>10, <3>2, <3>3, <4>1
      <4> QED
        BY <3>1, <4>2
    <3> QED
      BY <3>3
  <2> QED
    BY <1>3, <1>8, <1>11, <1>14, <2>1 DEF TallyInv
<1> QED
  BY <1>3, <1>13, <1>14

LEMMA ObserveForcedKeepsTally ==
  ASSUME SearchInv, ShapeInv, TallyInv, NEW reward \in Int, NEW failed,
         ObserveForced(reward, failed)
  PROVE  TallyInv'
<1>1. PICK c : c = Len(tree)
  OBVIOUS
<1>2. PICK next : next = Evaluated(c, reward, failed)
  OBVIOUS
<1>3. tree' = next /\ phase = "forced" /\ phase' = "done" /\ UNCHANGED <<at, rollouts>>
  BY <1>1, <1>2, Zenon DEF ObserveForced
<1>4. /\ IsTree(tree) /\ Len(tree) \in Nat /\ Rooted(tree, Len(tree)) /\ Counts(tree)
      /\ NoneComplete(tree) /\ at \in 1..Len(tree)
  BY <1>3, ShapeOfTree DEF SearchInv
<1>5. c \in 1..Len(tree) /\ ~tree[c].observed
  BY <1>1, <1>3, <1>4 DEF TallyInv
<1>6. Tally(next)
  BY <1>2, <1>4, <1>5, EvaluatedTally DEF TallyInv
<1> QED
  BY <1>3, <1>6 DEF TallyInv, Late

LEMMA ForceFinalizeKeepsTally ==
  ASSUME SearchInv, ShapeInv, TallyInv, NEW action \in Finalizers, ForceFinalize(action)
  PROVE  TallyInv'
<1>1. PICK best, new : /\ best \in Observed
                       /\ new = Node(action, best, tree[best].depth + 1)
                       /\ tree' = Append(tree, new) /\ at' = best
  BY DEF ForceFinalize
<1>2. phase = "force" /\ phase' = "forced" /\ rollouts' = rollouts
  BY DEF ForceFinalize
<1>3. PICK next : next = Append(tree, new)
  OBVIOUS
<1>4. PICK S : tree \in Seq(S)
  BY DEF SearchInv, IsTree
<1>5. tree \in Seq(S \cup {new}) /\ new \in S \cup {new}
  BY <1>4, SeqMonotonic
<1>6. /\ Len(next) = Len(tree) + 1 /\ Len(tree) \in Nat /\ DOMAIN tree = 1..Len(tree)
      /\ \A k \in 1..Len(tree) : next[k] = tree[k]
      /\ next[Len(tree) + 1] = new
  BY <1>3, <1>5, AppendProperties, LenProperties
<1>7. best \in 1..Len(tree)
  BY <1>1, <1>6 DEF Observed
<1>8. Fresh(new) /\ new.parent = best
  BY <1>1, FreshScore
<1>9. Tally(next)
  <2>1. Rooted(tree, Len(tree)) /\ Counts(tree) /\ Tally(tree)
    BY ShapeOfTree DEF TallyInv
  <2>2. \A k \in (Len(tree) + 1)..Len(next) : Fresh(next[k]) /\ next[k].parent \in 0..Len(tree)
    BY <1>6, <1>7, <1>8
  <2>3. Len(next) \in Nat /\ Len(tree) <= Len(next)
    BY <1>6
  <2> QED
    BY <1>6, <2>1, <2>2, <2>3, GrownTally
<1>10. ~next[Len(next)].observed
  BY <1>6, <1>8 DEF Fresh
<1>11. tree' = next
  BY <1>1, <1>3
<1> QED
  BY <1>2, <1>9, <1>10, <1>11 DEF TallyInv, Late

LEMMA TallyPreserved ==
  ASSUME SearchInv, ShapeInv, TallyInv, [LatsNext]_latsVars
  PROVE  TallyInv'
<1>1. CASE GiveUp
  BY <1>1, FailKeepsTally DEF GiveUp
<1>2. CASE Descend
  <2>1. phase = "descend" /\ UNCHANGED <<tree, rollouts, phase>>
    BY <1>2 DEF Descend
  <2> QED
    BY <2>1 DEF TallyInv, Late
<1>3. CASE \E actions \in Proposals : Expand(actions)
  BY <1>3, ExpandKeepsTally
<1>4. CASE \E j \in Judgements : Observe(j[1], j[2]) \/ ObserveForced(j[1], j[2])
  BY <1>4, JudgedReward, AmountAdds, ObserveKeepsTally, ObserveForcedKeepsTally
<1>5. CASE NextRollout
  <2>1. /\ phase = "ended" /\ phase' = "descend" /\ Completed = {}
        /\ rollouts' = rollouts + 1 /\ UNCHANGED tree
    BY <1>5 DEF NextRollout
  <2>2. NoneComplete(tree)
    BY <2>1, NoneCompletes DEF SearchInv
  <2>3. Tally(tree) /\ (\A k \in 2..Len(tree) : tree[k].observed) /\ Len(tree) <= Room(rollouts)
    BY <2>1, <2>2 DEF TallyInv, Late
  <2>4. /\ rollouts \in Nat /\ Len(tree) \in Nat
        /\ Room(rollouts) \in Nat /\ Room(rollouts + 1) = Room(rollouts) + NBranches
        /\ NBranches \in Nat
    BY ShapeOfTree, RoomGrows
  <2>5. rollouts' - 1 = rollouts
    BY <2>1, <2>4
  <2>6. Len(tree) <= Room(rollouts' - 1) /\ Len(tree) <= Room(rollouts')
    BY <2>1, <2>3, <2>4, <2>5
  <2> QED
    BY <2>1, <2>3, <2>6 DEF TallyInv
<1>6. CASE Stop
  <2>1. /\ phase = "ended" /\ phase' \in {"done", "force"} /\ UNCHANGED <<tree, at, rollouts>>
    BY <1>6 DEF Stop
  <2> QED
    BY <2>1 DEF TallyInv, Late
<1>7. CASE \E a \in Finalizers : ForceFinalize(a)
  BY <1>7, ForceFinalizeKeepsTally
<1>8. CASE ForceNothing
  BY <1>8 DEF ForceNothing, TallyInv, Late
<1>9. CASE UNCHANGED latsVars
  BY <1>9 DEF latsVars, TallyInv, Late
<1> QED
  BY <1>1, <1>2, <1>3, <1>4, <1>5, <1>6, <1>7, <1>8, <1>9 DEF LatsNext

LEMMA TallyHolds == LatsSpec => [](SearchInv /\ ShapeInv /\ TallyInv)
<1>1. LatsInit => SearchInv /\ ShapeInv /\ TallyInv
  BY SearchInitially, ShapeInitially, TallyInitially
<1>2. SearchInv /\ ShapeInv /\ TallyInv /\ [LatsNext]_latsVars
        => SearchInv' /\ ShapeInv' /\ TallyInv'
  BY SearchPreserved, ShapePreserved, TallyPreserved
<1> QED
  BY <1>1, <1>2, PTL DEF LatsSpec

LEMMA VisitsSummed ==
  ASSUME IsTree(tree), NEW w, NEW own, NEW total,
         Balanced(own, total, Under(tree, w), VisitsIn(tree))
  PROVE  total = own + MapThenSumSet(LAMBDA c : tree[c].visits, Children(w))
<1>1. PICK S, g : S = Under(tree, w) /\ g = VisitsIn(tree)
  OBVIOUS
<1>2. S = Children(w) /\ IsFiniteSet(S)
  BY <1>1, ChildrenUnder, FewUnder, TreeIsSequence
<1>3. PICK it : Sums(it, S, g) /\ it[S] \in Int /\ total = own + it[S]
  BY <1>1 DEF Balanced
<1> DEFINE P(jt) ==
      jt = [s \in SUBSET S |->
              IF s = {} THEN 0
              ELSE tree[CHOOSE x \in s : TRUE].visits + jt[s \ {CHOOSE x \in s : TRUE}]]
<1>4. \A s \in SUBSET S : s # {} => g[One(s)] = tree[One(s)].visits
  <2>1. \A s \in SUBSET S : s # {} => One(s) \in S
    BY Zenon DEF One
  <2>2. \A c \in S : g[c] = tree[c].visits
    BY <1>1 DEF VisitsIn, Under
  <2> QED
    BY <2>1, <2>2
<1>5. \A jt : P(jt) <=> Sums(jt, S, g)
  BY <1>4 DEF Sums, SumsOf, One
<1>6. PICK jt : jt = CHOOSE j : P(j)
  OBVIOUS
<1>7. Sums(jt, S, g)
  BY <1>3, <1>5, <1>6, Zenon
<1>8. MapThenSumSet(LAMBDA c : tree[c].visits, S) = jt[S]
  BY <1>6 DEF MapThenSumSet, MapThenFoldSet
<1>9. S \in SUBSET (S \cap S)
  OBVIOUS
<1>10. it[S] = jt[S]
  BY <1>2, <1>3, <1>7, <1>9, SumsAgree
<1> QED
  BY <1>2, <1>3, <1>8, <1>10, Zenon

LEMMA RewardsSummed ==
  ASSUME IsTree(tree), NEW w, NEW own, NEW total,
         Balanced(own, total, Under(tree, w), SumsIn(tree))
  PROVE  total = own + MapThenSumSet(LAMBDA c : tree[c].sum, Children(w))
<1>1. PICK S, g : S = Under(tree, w) /\ g = SumsIn(tree)
  OBVIOUS
<1>2. S = Children(w) /\ IsFiniteSet(S)
  BY <1>1, ChildrenUnder, FewUnder, TreeIsSequence
<1>3. PICK it : Sums(it, S, g) /\ it[S] \in Int /\ total = own + it[S]
  BY <1>1 DEF Balanced
<1> DEFINE P(jt) ==
      jt = [s \in SUBSET S |->
              IF s = {} THEN 0
              ELSE tree[CHOOSE x \in s : TRUE].sum + jt[s \ {CHOOSE x \in s : TRUE}]]
<1>4. \A s \in SUBSET S : s # {} => g[One(s)] = tree[One(s)].sum
  <2>1. \A s \in SUBSET S : s # {} => One(s) \in S
    BY Zenon DEF One
  <2>2. \A c \in S : g[c] = tree[c].sum
    BY <1>1 DEF SumsIn, Under
  <2> QED
    BY <2>1, <2>2
<1>5. \A jt : P(jt) <=> Sums(jt, S, g)
  BY <1>4 DEF Sums, SumsOf, One
<1>6. PICK jt : jt = CHOOSE j : P(j)
  OBVIOUS
<1>7. Sums(jt, S, g)
  BY <1>3, <1>5, <1>6, Zenon
<1>8. MapThenSumSet(LAMBDA c : tree[c].sum, S) = jt[S]
  BY <1>6 DEF MapThenSumSet, MapThenFoldSet
<1>9. S \in SUBSET (S \cap S)
  OBVIOUS
<1>10. it[S] = jt[S]
  BY <1>2, <1>3, <1>7, <1>9, SumsAgree
<1> QED
  BY <1>2, <1>3, <1>8, <1>10, Zenon

(* For any actions, rewards, rollouts, branching and depth, what UCB selects by is conserved: *)
(* a node's visits and total reward are its own evaluation plus its children's (backprop).    *)
THEOREM StatisticsAlwaysConserved == LatsSpec => []StatisticsConserved
<1>1. ASSUME SearchInv, ShapeInv, TallyInv PROVE StatisticsConserved
  <2>1. IsTree(tree) /\ DOMAIN tree = 1..Len(tree)
    BY <1>1, TreeIsSequence DEF SearchInv
  <2>2. SUFFICES ASSUME NEW w \in 1..Len(tree)
                 PROVE  /\ tree[w].visits = (IF tree[w].observed THEN 1 ELSE 0)
                             + MapThenSumSet(LAMBDA c : tree[c].visits, Children(w))
                        /\ tree[w].sum = tree[w].reward
                             + MapThenSumSet(LAMBDA c : tree[c].sum, Children(w))
    BY <2>1, Zenon DEF StatisticsConserved
  <2>3. /\ Balanced(Runs(tree[w]), tree[w].visits, Under(tree, w), VisitsIn(tree))
        /\ Balanced(tree[w].reward, tree[w].sum, Under(tree, w), SumsIn(tree))
    BY <1>1 DEF TallyInv, Tally
  <2>4. tree[w].visits = Runs(tree[w]) + MapThenSumSet(LAMBDA c : tree[c].visits, Children(w))
    BY <2>1, <2>3, VisitsSummed
  <2>5. tree[w].sum = tree[w].reward + MapThenSumSet(LAMBDA c : tree[c].sum, Children(w))
    BY <2>1, <2>3, RewardsSummed
  <2> QED
    BY <2>4, <2>5, Zenon DEF Runs
<1> QED
  BY <1>1, TallyHolds, PTL

\* A failed child that was visited scores nothing, an open sibling something.
LEMMA OpenScoresHigher ==
  ASSUME SearchInv, ShapeInv, TallyInv, phase = "descend",
         NEW c \in Children(at), tree[c].status = "failed",
         NEW d \in Children(at), tree[d].status # "failed", Rewards \subseteq Nat
  PROVE  Ucb(c) = 0 /\ Ucb(d) \in Nat /\ Ucb(d) > 0
<1>1. /\ IsTree(tree) /\ Len(tree) \in Nat /\ Rooted(tree, Len(tree)) /\ Counts(tree)
      /\ at \in 1..Len(tree) /\ rollouts \in Nat /\ rollouts <= MaxRollouts
  BY ShapeOfTree
<1>2. PICK S : S = Under(tree, at)
  OBVIOUS
<1>3. S = Children(at) /\ IsFiniteSet(S) /\ c \in S /\ d \in S /\ c # d /\ S \subseteq 1..Len(tree)
  <2>1. S = Children(at)
    BY <1>1, <1>2, ChildrenUnder
  <2>2. IsFiniteSet(S)
    BY <1>1, <1>2, FewUnder
  <2>3. S \subseteq 1..Len(tree)
    BY <1>2 DEF Under
  <2> QED
    BY <2>1, <2>2, <2>3
<1>4. tree[c].parent = at /\ tree[d].parent = at
  BY <1>2, <1>3 DEF Under
<1>5. c \in 2..Len(tree) /\ d \in 2..Len(tree)
  BY <1>1, <1>3, <1>4 DEF Rooted
<1>6. PICK g : g = VisitsIn(tree)
  OBVIOUS
<1>7. ASSUME NEW k \in 1..Len(tree)
      PROVE  /\ tree[k].visits \in Nat /\ g[k] = tree[k].visits
             /\ Runs(tree[k]) <= tree[k].visits
             /\ \A x, y \in Under(tree, k) : x # y => g[x] + g[y] <= tree[k].visits
  <2>1. PICK own, total, T : own = Runs(tree[k]) /\ total = tree[k].visits /\ T = Under(tree, k)
    OBVIOUS
  <2>2. Balanced(own, total, T, g)
    BY <1>6, <2>1 DEF TallyInv, Tally
  <2>3. IsFiniteSet(T) /\ own \in Nat
    BY <1>1, <2>1, FewUnder DEF Runs
  <2>4. \A x \in T : g[x] \in Nat
    BY <1>1, <1>6, <2>1 DEF Under, VisitsIn, Counts
  <2>5. total \in Nat /\ own <= total /\ \A x, y \in T : x # y => g[x] + g[y] <= total
    BY <2>2, <2>3, <2>4, BalancedAtLeast
  <2> QED
    BY <1>6, <2>1, <2>5 DEF VisitsIn
<1>8. PICK v, w, N : v = tree[c].visits /\ w = tree[d].visits /\ N = tree[at].visits
  OBVIOUS
<1>9. v \in Nat /\ w \in Nat /\ N \in Nat /\ 1 <= v /\ 1 <= w
  <2>1. tree[c].observed /\ tree[d].observed
    BY <1>5 DEF TallyInv
  <2>2. Runs(tree[c]) = 1 /\ Runs(tree[d]) = 1
    BY <2>1 DEF Runs
  <2> QED
    BY <1>1, <1>3, <1>7, <1>8, <2>2
<1>10. v + w <= N
  <2>1. g[c] + g[d] <= tree[at].visits
    BY <1>1, <1>2, <1>3, <1>7
  <2> QED
    BY <1>3, <1>7, <1>8, <2>1
<1>11. N <= Room(MaxRollouts) /\ Room(MaxRollouts) \in Nat
  <2>1. PICK seen : seen = Cardinality(SeenIn(tree))
    OBVIOUS
  <2>2. seen \in Nat /\ seen <= Len(tree)
    <3>1. PICK len : len = Len(tree)
      OBVIOUS
    <3>2. len \in Nat
      BY <1>1, <3>1
    <3>3. IsFiniteSet(1..len) /\ Cardinality(1..len) = IF 1 > len THEN 0 ELSE len - 1 + 1
      BY <3>2, FS_Interval
    <3>4. SeenIn(tree) \in SUBSET (1..len)
      BY <3>1 DEF SeenIn
    <3>5. IsFiniteSet(SeenIn(tree)) /\ Cardinality(SeenIn(tree)) <= Cardinality(1..len)
      BY <3>3, <3>4, FS_Subset
    <3>6. Cardinality(SeenIn(tree)) \in Nat
      BY <3>5, FS_CardinalityType
    <3> QED
      BY <2>1, <3>1, <3>2, <3>3, <3>5, <3>6
  <2>3. N <= seen
    BY <1>1, <1>8, <2>1 DEF TallyInv, Tally
  <2>4. Len(tree) <= Room(rollouts)
    BY DEF TallyInv, Late
  <2>5. Room(rollouts) \in Nat /\ Room(rollouts) <= Room(MaxRollouts)
    BY <1>1, RoomGrows
  <2>6. Room(MaxRollouts) \in Nat
    BY <1>1, LatsAssumption, RoomGrows DEF LatsAssumption
  <2> QED
    BY <1>1, <1>9, <2>2, <2>3, <2>4, <2>5, <2>6
<1>12. PICK bonus : bonus = Bonus[<<N, w>>]
  OBVIOUS
<1>13. bonus \in Nat /\ bonus > 0
  <2>1. N \in 2..(1 + MaxRollouts * NBranches) /\ w \in 1..N
    BY <1>9, <1>10, <1>11 DEF Room
  <2>2. Bonus[<<N, w>>] \in Nat \ {0}
    BY <2>1, BonusAssumption, Zenon DEF BonusAssumption
  <2> QED
    BY <1>12, <2>2
<1>14. PICK a : a = tree[d].sum
  OBVIOUS
<1>15. a \in Nat /\ 500 * a \in Nat /\ w * w \in Nat \ {0}
  <2>1. Typed(tree[d], d)
    BY <1>3 DEF ShapeInv, Within
  <2>2. a \in Nat
    BY <1>14, <2>1, AmountAdds DEF Typed
  <2> QED
    BY <1>9, <2>2
<1>16. PICK p, q : p = 500 * a /\ q = w * w
  OBVIOUS
<1>17. p \div q \in Nat
  BY <1>15, <1>16
<1>18. Ucb(d) = p \div q + bonus
  BY <1>4, <1>8, <1>9, <1>12, <1>14, <1>16 DEF Ucb
<1>19. Ucb(c) = 0
  BY <1>8, <1>9 DEF Ucb
<1>20. PICK z : z = p \div q
  OBVIOUS
<1> QED
  BY <1>13, <1>17, <1>18, <1>19, <1>20

(* For any actions, rollouts, branching and depth, rewards that are never negative (the      *)
(* 0.0-1.0 that evaluate is asked for, which search.py does not enforce) and an exploration  *)
(* term that is positive from the second visit on, no rollout descends into a failed branch  *)
(* while a sibling is still open (_ucb).                                                     *)
THEOREM FailedAlwaysLast ==
  ASSUME Rewards \subseteq Nat
  PROVE  LatsSpec => FailedComesLast
<1>1. ASSUME SearchInv, ShapeInv, TallyInv, [LatsNext]_latsVars
      PROVE  [at' # at /\ phase = "descend" /\ tree[at'].status = "failed"
                => \A c \in Children(at) : tree[c].status = "failed"]_latsVars
  <2>1. SUFFICES ASSUME LatsNext, at' # at, phase = "descend", tree[at'].status = "failed",
                        NEW d \in Children(at), tree[d].status # "failed"
                 PROVE  FALSE
    BY <1>1
  <2>2. Descend
    BY <2>1 DEF LatsNext, GiveUp, Expand, Observe, ObserveForced, NextRollout, Stop,
                ForceFinalize, ForceNothing
  <2>3. PICK c \in Children(at) : IsFirstBest(c, Children(at), Ucb) /\ at' = c
    BY <2>2 DEF Descend
  <2>4. Ucb(d) < Ucb(c) \/ (Ucb(d) = Ucb(c) /\ c <= d)
    BY <2>1, <2>3 DEF IsFirstBest
  <2>5. Ucb(c) = 0 /\ Ucb(d) \in Nat /\ Ucb(d) > 0
    BY <1>1, <2>1, <2>3, OpenScoresHigher
  <2>6. PICK x, y : x = Ucb(c) /\ y = Ucb(d)
    OBVIOUS
  <2> QED
    BY <2>4, <2>5, <2>6
<1> QED
  BY <1>1, TallyHolds, PTL DEF LatsSpec, FailedComesLast

-----------------------------------------------------------------------------
(* The store.                                                              *)

USE DEF Known

Shapes == {"whole", "part", "no newline", "split"}
Writes == [episode : Episodes \cup {None}, by : Analyses, shape : Shapes]
Lines == [writes : Seq(Writes), ended : BOOLEAN]
Results == [key : {e.key : e \in Episodes \cup {None}}, wrote : BOOLEAN]
Places == {"idle", "next", "search", "load", "add", "output", "crashed", "exit 0", "exit 1"}

\* Only the last write on a line may be whole, and the line has its end when it is.
FileIsWritten ==
  /\ file \in Seq(Lines)
  /\ \A i \in DOMAIN file :
       LET writes == file[i].writes IN
       /\ writes # <<>>
       /\ file[i].ended <=> writes[Len(writes)].shape = "whole"
       /\ \A k \in 1..(Len(writes) - 1) : writes[k].shape # "whole"

AnalysesAreTyped ==
  /\ pc \in [Analyses -> Places]
  /\ found \in [Analyses -> Episodes \cup {None}]
  /\ DOMAIN begun = Analyses
  /\ results \in [Analyses -> Seq(Results)]

\* Line i is a record that p wrote for this key.
RecordOf(i, p, key) ==
  /\ IsRecord(file[i])
  /\ file[i].writes[1].by = p
  /\ file[i].writes[1].episode.key = key

\* What an analysis has stored, and what it is about to store, it stores once.
NothingTwice ==
  /\ \A i, j \in DOMAIN file, p \in Analyses :
       \A key : RecordOf(i, p, key) /\ RecordOf(j, p, key) => i = j
  /\ \A i \in DOMAIN file, p \in Analyses :
       \A key : RecordOf(i, p, key) => pc[p] # "idle" /\ key \notin Known(p)
  /\ \A p \in Analyses :
       pc[p] = "add" =>
         /\ found[p].key \notin Known(p)
         /\ \A i \in DOMAIN file : ~RecordOf(i, p, found[p].key)

BegunIsKept == \A p \in Analyses : begun[p] \subseteq Committed

\* The key stands on line i, which is a record or holds a torn write.
KeptAt(i, key) ==
  /\ \E k \in DOMAIN file[i].writes : file[i].writes[k].episode.key = key
  /\ \/ IsRecord(file[i])
     \/ \E k \in DOMAIN file[i].writes : file[i].writes[k].shape # "whole"

ResultsAreKept ==
  \A p \in Analyses : \A k \in DOMAIN results[p] :
    results[p][k].key # "none" => \E i \in DOMAIN file : KeptAt(i, results[p][k].key)

StoreInv ==
  /\ FileIsWritten
  /\ AnalysesAreTyped
  /\ NothingTwice
  /\ BegunIsKept
  /\ ResultsAreKept

-----------------------------------------------------------------------------

\* An append leaves every line as it is, but for an unended last line, which it
\* lengthens; a new line holds the new write alone.
LEMMA AppendedFacts ==
  ASSUME FileIsWritten, NEW w \in Writes, file' = Appended(w)
  PROVE  /\ FileIsWritten'
         /\ DOMAIN file \subseteq DOMAIN file'
         /\ \A i \in DOMAIN file :
              \/ file'[i] = file[i]
              \/ /\ ~file[i].ended /\ ~IsRecord(file'[i])
                 /\ \A k \in DOMAIN file[i].writes :
                      k \in DOMAIN file'[i].writes /\ file'[i].writes[k] = file[i].writes[k]
                 /\ \E k \in DOMAIN file[i].writes : file[i].writes[k].shape # "whole"
         /\ \A i \in DOMAIN file' \ DOMAIN file :
              Len(file'[i].writes) = 1 /\ file'[i].writes[1] = w
         /\ \E i \in DOMAIN file' : \E k \in DOMAIN file'[i].writes :
              /\ file'[i].writes[k] = w
              /\ \/ i \notin DOMAIN file
                 \/ \E j \in DOMAIN file'[i].writes : file'[i].writes[j].shape # "whole"
         /\ \A i, j \in DOMAIN file' \ DOMAIN file : i = j
<1> DEFINE N == Len(file)
<1>0. N \in Nat
  BY LenProperties DEF FileIsWritten
<1>1. file \in Seq(Lines) /\ DOMAIN file = 1..N /\ w.shape \in Shapes
  BY LenProperties DEF FileIsWritten, Writes
<1>2. CASE file # <<>> /\ ~Last(file).ended
  <2>1. N \in 1..N /\ Last(file) = file[N]
    BY <1>1, <1>2, EmptySeq DEF Last
  <2>2. PICK line : line = file[N]
    OBVIOUS
  <2>3. line \in Lines
    BY <1>1, <2>1, <2>2, ElementOfSeq
  <2>4. line.writes \in Seq(Writes) /\ line.writes # <<>>
    BY <1>1, <2>1, <2>2, <2>3 DEF FileIsWritten, Lines
  <2>5. PICK L : L = Len(line.writes)
    OBVIOUS
  <2>6. L \in Nat \ {0} /\ DOMAIN line.writes = 1..L
    BY <2>4, <2>5, EmptySeq, LenProperties
  <2>7. PICK ws : ws = Append(line.writes, w)
    OBVIOUS
  <2>8. /\ ws \in Seq(Writes) /\ Len(ws) = L + 1 /\ DOMAIN ws = 1..(L + 1)
        /\ ws[L + 1] = w /\ \A k \in 1..L : ws[k] = line.writes[k]
    BY <2>4, <2>5, <2>6, <2>7, AppendProperties
  <2>9. PICK new : new = [writes |-> ws, ended |-> w.shape = "whole"]
    OBVIOUS
  <2>10. new \in Lines /\ new.writes = ws /\ (new.ended <=> w.shape = "whole")
    BY <1>1, <2>8, <2>9 DEF Lines
  <2>11. PICK front : front = Front(file)
    OBVIOUS
  <2>12. /\ front \in Seq(Lines) /\ Len(front) = N - 1
         /\ \A i \in 1..(N - 1) : front[i] = file[i]
    <3>1. \A i \in 1..(N - 1) : file[i] \in Lines
      BY <1>1, ElementOfSeq
    <3>2. /\ SubSeq(file, 1, N - 1) \in Seq(Lines)
          /\ Len(SubSeq(file, 1, N - 1)) = N - 1
          /\ \A i \in 1..(N - 1) : SubSeq(file, 1, N - 1)[i] = file[i]
      <4>1. PICK M \in Nat : M = N - 1
        BY <1>0, <2>1
      <4>2. /\ SubSeq(file, 1, M) \in Seq(Lines)
            /\ Len(SubSeq(file, 1, M)) = IF 1 <= M THEN M - 1 + 1 ELSE 0
            /\ \A i \in 1..(M - 1 + 1) : SubSeq(file, 1, M)[i] = file[1 + i - 1]
        BY <3>1, <4>1, SubSeqProperties
      <4>3. Len(SubSeq(file, 1, M)) = M
        BY <4>2
      <4>4. \A i \in 1..M : SubSeq(file, 1, M)[i] = file[i]
        BY <4>2
      <4> QED
        BY <4>1, <4>2, <4>3, <4>4
    <3> QED
      BY <2>11, <3>2 DEF Front
  <2>13. file' = Append(front, new)
    BY <1>2, <2>1, <2>2, <2>7, <2>9, <2>11 DEF Appended
  <2>14. /\ file' \in Seq(Lines) /\ DOMAIN file' = 1..N
         /\ file'[N] = new /\ \A i \in 1..(N - 1) : file'[i] = file[i]
    <3>1. /\ file' \in Seq(Lines) /\ Len(file') = Len(front) + 1
          /\ file'[Len(front) + 1] = new
          /\ \A i \in 1..Len(front) : file'[i] = front[i]
      BY <2>10, <2>12, <2>13, AppendProperties
    <3>2. Len(front) + 1 = N
      BY <1>0, <2>12
    <3> QED
      BY <2>12, <3>1, <3>2, LenProperties
  <2>15. /\ ~line.ended /\ line.writes[L].shape # "whole"
         /\ \A k \in 1..(L - 1) : line.writes[k].shape # "whole"
    BY <1>1, <1>2, <2>1, <2>2, <2>5 DEF FileIsWritten
  <2>16. \A k \in 1..L : ws[k].shape # "whole"
    BY <2>6, <2>8, <2>15
  <2>17. FileIsWritten'
    <3> SUFFICES ASSUME NEW i \in 1..N
                 PROVE  /\ file'[i].writes # <<>>
                        /\ file'[i].ended <=> file'[i].writes[Len(file'[i].writes)].shape = "whole"
                        /\ \A k \in 1..(Len(file'[i].writes) - 1) : file'[i].writes[k].shape # "whole"
      BY <2>14 DEF FileIsWritten
    <3>1. CASE i = N
      <4>1. ws # <<>>
        BY <2>6, <2>8
      <4> QED
        BY <2>6, <2>8, <2>10, <2>14, <2>16, <3>1, <4>1
    <3>2. CASE i # N
      <4>1. i \in 1..(N - 1)
        BY <1>0, <3>2
      <4> QED
        BY <1>1, <2>14, <4>1 DEF FileIsWritten
    <3> QED
      BY <3>1, <3>2
  <2>18. ~IsRecord(file'[N])
    <3>1. Len(file'[N].writes) = L + 1
      BY <2>8, <2>10, <2>14
    <3>2. L + 1 # 1
      BY <2>6
    <3> QED
      BY <3>1, <3>2 DEF IsRecord
  <2>19. ASSUME NEW i \in DOMAIN file
         PROVE  \/ file'[i] = file[i]
                \/ /\ ~file[i].ended /\ ~IsRecord(file'[i])
                   /\ \A k \in DOMAIN file[i].writes :
                        k \in DOMAIN file'[i].writes /\ file'[i].writes[k] = file[i].writes[k]
                   /\ \E k \in DOMAIN file[i].writes : file[i].writes[k].shape # "whole"
    <3>1. CASE i = N
      <4>1. L \in DOMAIN line.writes /\ \A k \in 1..L : k \in 1..(L + 1)
        BY <2>6
      <4> QED
        BY <2>2, <2>6, <2>8, <2>10, <2>14, <2>15, <2>18, <3>1, <4>1
    <3>2. CASE i # N
      <4>1. i \in 1..(N - 1)
        BY <1>0, <1>1, <3>2
      <4> QED
        BY <2>14, <4>1
    <3> QED
      BY <3>1, <3>2
  <2>20. N \in DOMAIN file' /\ L + 1 \in DOMAIN file'[N].writes /\ file'[N].writes[L + 1] = w
    BY <2>1, <2>6, <2>8, <2>10, <2>14
  <2>21. 1 \in DOMAIN file'[N].writes /\ file'[N].writes[1].shape # "whole"
    BY <2>6, <2>8, <2>10, <2>14, <2>16
  <2> QED
    BY <1>1, <2>14, <2>17, <2>19, <2>20, <2>21
<1>3. CASE ~(file # <<>> /\ ~Last(file).ended)
  <2>1. PICK ws : ws = <<w>>
    OBVIOUS
  <2>2. ws \in Seq(Writes) /\ ws # <<>> /\ Len(ws) = 1 /\ DOMAIN ws = {1} /\ ws[1] = w
    BY <2>1
  <2>3. PICK new : new = [writes |-> ws, ended |-> w.shape = "whole"]
    OBVIOUS
  <2>4. new \in Lines /\ new.writes = ws /\ (new.ended <=> w.shape = "whole")
    BY <1>1, <2>2, <2>3 DEF Lines
  <2>5. file' = Append(file, new)
    BY <1>3, <2>1, <2>3 DEF Appended
  <2>6. /\ file' \in Seq(Lines) /\ DOMAIN file' = 1..(N + 1)
        /\ file'[N + 1] = new /\ \A i \in 1..N : file'[i] = file[i]
    BY <1>1, <2>4, <2>5, AppendProperties, LenProperties
  <2>7. FileIsWritten'
    <3> SUFFICES ASSUME NEW i \in 1..(N + 1)
                 PROVE  /\ file'[i].writes # <<>>
                        /\ file'[i].ended <=> file'[i].writes[Len(file'[i].writes)].shape = "whole"
                        /\ \A k \in 1..(Len(file'[i].writes) - 1) : file'[i].writes[k].shape # "whole"
      BY <2>6 DEF FileIsWritten
    <3>1. CASE i = N + 1
      <4>1. file'[i] = new /\ new.writes = ws /\ (new.ended <=> ws[1].shape = "whole")
        BY <2>2, <2>4, <2>6, <3>1
      <4>2. Len(ws) = 1 /\ ws # <<>> /\ 1..(Len(ws) - 1) = {}
        BY <2>2
      <4> QED
        BY <4>1, <4>2
    <3>2. CASE i # N + 1
      <4>1. i \in 1..N
        BY <1>0, <3>2
      <4> QED
        BY <1>1, <2>6, <4>1 DEF FileIsWritten
    <3> QED
      BY <3>1, <3>2
  <2>8. /\ N + 1 \in DOMAIN file' /\ N + 1 \notin DOMAIN file
        /\ 1 \in DOMAIN file'[N + 1].writes /\ file'[N + 1].writes[1] = w
    BY <1>0, <1>1, <2>2, <2>4, <2>6
  <2>9. \A i \in DOMAIN file : i \in DOMAIN file' /\ file'[i] = file[i]
    BY <1>0, <1>1, <2>6
  <2>10. \A i \in DOMAIN file' \ DOMAIN file : i = N + 1
    BY <1>0, <1>1, <2>6
  <2>11. Len(file'[N + 1].writes) = 1 /\ file'[N + 1].writes[1] = w
    BY <2>2, <2>4, <2>6
  <2> QED
    BY <2>7, <2>8, <2>9, <2>10, <2>11
<1> QED
  BY <1>2, <1>3

LEMMA RecordIsOneWrite ==
  ASSUME NEW line, IsRecord(line)
  PROVE  Len(line.writes) = 1
BY Zenon DEF IsRecord

\* A result that is added keeps the others, and is itself kept.
LEMMA ResultAdded ==
  ASSUME StoreInv, NEW p \in Analyses, NEW key \in {e.key : e \in Episodes \cup {None}},
         NEW wrote \in BOOLEAN,
         results' = [results EXCEPT ![p] = Append(@, [key |-> key, wrote |-> wrote])],
         \A i \in DOMAIN file : \A old : KeptAt(i, old) => i \in DOMAIN file' /\ KeptAt(i, old)',
         key # "none" => \E i \in DOMAIN file' : KeptAt(i, key)'
  PROVE  results' \in [Analyses -> Seq(Results)] /\ ResultsAreKept'
<1>1. PICK rs, r : rs = results[p] /\ r = [key |-> key, wrote |-> wrote]
  OBVIOUS
<1>2. results \in [Analyses -> Seq(Results)] /\ rs \in Seq(Results)
  BY <1>1 DEF StoreInv, AnalysesAreTyped
<1>3. r \in Results /\ r.key = key
  BY <1>1 DEF Results
<1>4. PICK longer : longer = Append(rs, r)
  OBVIOUS
<1>5. /\ longer \in Seq(Results) /\ DOMAIN longer = 1..(Len(rs) + 1)
      /\ Len(rs) \in Nat /\ DOMAIN rs = 1..Len(rs)
      /\ longer[Len(rs) + 1] = r /\ \A k \in 1..Len(rs) : longer[k] = rs[k]
  BY <1>2, <1>3, <1>4, AppendProperties, LenProperties
<1>6. results' = [results EXCEPT ![p] = longer]
  BY <1>1, <1>4
<1>7. results'[p] = longer /\ \A q \in Analyses : q # p => results'[q] = results[q]
  BY <1>2, <1>6
<1>8. results' \in [Analyses -> Seq(Results)]
  BY <1>2, <1>5, <1>6
<1>9. ResultsAreKept'
  <2> SUFFICES ASSUME NEW q \in Analyses, NEW k \in DOMAIN results'[q],
                      results'[q][k].key # "none", NEW old, old = results'[q][k].key
               PROVE  \E i \in DOMAIN file' : KeptAt(i, old)'
    BY DEF ResultsAreKept
  <2>1. CASE k \in DOMAIN results[q] /\ results'[q][k] = results[q][k]
    <3>1. PICK i \in DOMAIN file : KeptAt(i, old)
      BY <2>1 DEF StoreInv, ResultsAreKept
    <3> QED
      BY <3>1
  <2>2. CASE results'[q][k] = r
    BY <1>3, <2>2
  <2>3. \/ k \in DOMAIN results[q] /\ results'[q][k] = results[q][k]
        \/ results'[q][k] = r
    <3>1. CASE q = p
      BY <1>1, <1>5, <1>7, <3>1
    <3>2. CASE q # p
      BY <1>7, <3>2
    <3> QED
      BY <3>1, <3>2
  <2> QED
    BY <2>1, <2>2, <2>3
<1> QED
  BY <1>8, <1>9

\* Results stay when none is added.
LEMMA ResultsStay ==
  ASSUME StoreInv, results' = results,
         \A i \in DOMAIN file : \A old : KeptAt(i, old) => i \in DOMAIN file' /\ KeptAt(i, old)'
  PROVE  ResultsAreKept'
<1> SUFFICES ASSUME NEW q \in Analyses, NEW k \in DOMAIN results[q], results[q][k].key # "none",
                    NEW old, old = results[q][k].key
             PROVE  \E i \in DOMAIN file' : KeptAt(i, old)'
  BY DEF ResultsAreKept
<1>1. PICK i \in DOMAIN file : KeptAt(i, old)
  BY DEF StoreInv, ResultsAreKept
<1> QED
  BY <1>1

\* Every step that leaves the file alone and does not lead to a write.
LEMMA ReadingKeeps ==
  ASSUME StoreInv, NEW p \in Analyses, file' = file, begun' = begun,
         NEW where \in Places \ {"idle", "add"}, pc' = [pc EXCEPT ![p] = where],
         found' \in [Analyses -> Episodes \cup {None}],
         \A q \in Analyses : q # p => found'[q] = found[q]
  PROVE  /\ FileIsWritten' /\ NothingTwice' /\ BegunIsKept'
         /\ pc' \in [Analyses -> Places]
         /\ \A i \in DOMAIN file : \A old :
              KeptAt(i, old) => i \in DOMAIN file' /\ KeptAt(i, old)'
<1>1. FileIsWritten'
  BY DEF StoreInv, FileIsWritten
<1>2. \A i, q, key : RecordOf(i, q, key)' <=> RecordOf(i, q, key)
  BY DEF RecordOf
<1>3. pc' \in [Analyses -> Places] /\ pc'[p] = where /\ \A q \in Analyses : q # p => pc'[q] = pc[q]
  BY DEF StoreInv, AnalysesAreTyped
<1>4. NothingTwice'
  <2>1. \A i, j \in DOMAIN file, q \in Analyses :
          \A key : RecordOf(i, q, key)' /\ RecordOf(j, q, key)' => i = j
    BY <1>2 DEF StoreInv, NothingTwice
  <2>2. \A i \in DOMAIN file, q \in Analyses :
          \A key : RecordOf(i, q, key)' => pc'[q] # "idle" /\ key \notin Known(q)'
    BY <1>2, <1>3 DEF StoreInv, NothingTwice
  <2>3. ASSUME NEW q \in Analyses, pc'[q] = "add", NEW key, key = found'[q].key
        PROVE  key \notin Known(q)' /\ \A i \in DOMAIN file : ~RecordOf(i, q, key)'
    BY <1>2, <1>3, <2>3 DEF StoreInv, NothingTwice
  <2> QED
    BY <2>1, <2>2, <2>3 DEF NothingTwice
<1>5. BegunIsKept'
  BY DEF StoreInv, BegunIsKept, Committed, Records, EpisodeAt
<1>6. \A i, old : KeptAt(i, old)' <=> KeptAt(i, old)
  BY DEF KeptAt
<1> QED
  BY <1>1, <1>3, <1>4, <1>5, <1>6

\* What is committed stays committed, and what is committed can be read.
LEMMA CommittedFacts ==
  /\ \A key : key \in Keys <=>
       \E i \in DOMAIN file : IsRecord(file[i]) /\ file[i].writes[1].episode.key = key
  /\ \A e : e \in Committed <=>
       \E i \in DOMAIN file : IsRecord(file[i]) /\ file[i].ended /\ file[i].writes[1].episode = e
  /\ \A e \in Committed : e.key \in Keys
BY DEF Keys, Committed, Records, EpisodeAt

LEMMA AppendingKeeps ==
  ASSUME StoreInv, NEW p \in Analyses, pc[p] = "add", NEW shape \in Shapes,
         file' = Appended(Write(found[p], p, shape)), begun' = begun, found' = found,
         NEW where \in Places \ {"idle", "add"}, pc' = [pc EXCEPT ![p] = where]
  PROVE  /\ FileIsWritten' /\ NothingTwice' /\ BegunIsKept'
         /\ pc' \in [Analyses -> Places]
         /\ \A i \in DOMAIN file : \A old :
              KeptAt(i, old) => i \in DOMAIN file' /\ KeptAt(i, old)'
         /\ shape = "whole" => \E i \in DOMAIN file' : KeptAt(i, found[p].key)'
<1>1. PICK w : w = Write(found[p], p, shape)
  OBVIOUS
<1>2. PICK key : key = found[p].key
  OBVIOUS
<1>3. w \in Writes /\ w.by = p /\ w.episode.key = key /\ w.shape = shape
  BY <1>1, <1>2 DEF Write, Writes, StoreInv, AnalysesAreTyped
<1>4. /\ FileIsWritten'
      /\ DOMAIN file \subseteq DOMAIN file'
      /\ \A i \in DOMAIN file :
           \/ file'[i] = file[i]
           \/ /\ ~file[i].ended /\ ~IsRecord(file'[i])
              /\ \A k \in DOMAIN file[i].writes :
                   k \in DOMAIN file'[i].writes /\ file'[i].writes[k] = file[i].writes[k]
              /\ \E k \in DOMAIN file[i].writes : file[i].writes[k].shape # "whole"
      /\ \A i \in DOMAIN file' \ DOMAIN file : Len(file'[i].writes) = 1 /\ file'[i].writes[1] = w
      /\ \E i \in DOMAIN file' : \E k \in DOMAIN file'[i].writes :
           /\ file'[i].writes[k] = w
           /\ \/ i \notin DOMAIN file
              \/ \E j \in DOMAIN file'[i].writes : file'[i].writes[j].shape # "whole"
      /\ \A i, j \in DOMAIN file' \ DOMAIN file : i = j
  BY <1>1, <1>3, AppendedFacts DEF StoreInv
<1>5. pc' \in [Analyses -> Places] /\ pc'[p] = where /\ \A q \in Analyses : q # p => pc'[q] = pc[q]
  BY DEF StoreInv, AnalysesAreTyped
<1>6. ASSUME NEW i \in DOMAIN file', NEW q \in Analyses, NEW k, RecordOf(i, q, k)'
      PROVE  \/ i \in DOMAIN file /\ RecordOf(i, q, k)
             \/ i \notin DOMAIN file /\ q = p /\ k = key
  BY <1>3, <1>4, <1>6 DEF RecordOf
<1>7. NothingTwice'
  <2>1. ASSUME NEW i \in DOMAIN file', NEW j \in DOMAIN file', NEW q \in Analyses, NEW k,
               RecordOf(i, q, k)', RecordOf(j, q, k)'
        PROVE  i = j
    BY <1>2, <1>4, <1>6, <2>1 DEF StoreInv, NothingTwice
  <2>2. ASSUME NEW i \in DOMAIN file', NEW q \in Analyses, NEW k, RecordOf(i, q, k)'
        PROVE  pc'[q] # "idle" /\ k \notin Known(q)
    BY <1>2, <1>5, <1>6, <2>2 DEF StoreInv, NothingTwice
  <2>3. ASSUME NEW q \in Analyses, pc'[q] = "add", NEW k, k = found[q].key
        PROVE  k \notin Known(q) /\ \A i \in DOMAIN file' : ~RecordOf(i, q, k)'
    BY <1>5, <1>6, <2>3 DEF StoreInv, NothingTwice
  <2> QED
    BY <2>1, <2>2, <2>3 DEF NothingTwice
<1>8. BegunIsKept'
  <2> SUFFICES ASSUME NEW q \in Analyses, NEW e \in begun[q] PROVE e \in Committed'
    BY DEF BegunIsKept
  <2>1. PICK i \in DOMAIN file : /\ IsRecord(file[i]) /\ file[i].ended
                                 /\ file[i].writes[1].episode = e
    BY CommittedFacts DEF StoreInv, BegunIsKept
  <2>2. i \in DOMAIN file' /\ file'[i] = file[i]
    BY <1>4, <2>1
  <2>3. \E j \in DOMAIN file' : /\ IsRecord(file'[j]) /\ file'[j].ended
                                /\ file'[j].writes[1].episode = e
    BY <2>1, <2>2
  <2> QED
    BY <2>3 DEF Committed, Records, EpisodeAt
<1>9. ASSUME NEW i \in DOMAIN file, NEW old, KeptAt(i, old)
      PROVE  i \in DOMAIN file' /\ KeptAt(i, old)'
  <2>1. CASE file'[i] = file[i]
    BY <1>4, <1>9, <2>1 DEF KeptAt
  <2>2. CASE file'[i] # file[i]
    BY <1>4, <1>9, <2>2 DEF KeptAt
  <2> QED
    BY <2>1, <2>2
<1>10. ASSUME shape = "whole" PROVE \E i \in DOMAIN file' : KeptAt(i, key)'
  <2>1. PICK i, k :
          /\ i \in DOMAIN file' /\ k \in DOMAIN file'[i].writes /\ file'[i].writes[k] = w
          /\ \/ i \notin DOMAIN file
             \/ \E j \in DOMAIN file'[i].writes : file'[i].writes[j].shape # "whole"
    BY <1>4
  <2>2. i \notin DOMAIN file => IsRecord(file'[i])
    BY <1>3, <1>4, <1>10, <2>1 DEF IsRecord
  <2>3. KeptAt(i, key)'
    BY <1>3, <2>1, <2>2 DEF KeptAt
  <2> QED
    BY <2>1, <2>3
<1> QED
  BY <1>2, <1>4, <1>5, <1>7, <1>8, <1>9, <1>10

-----------------------------------------------------------------------------
(* Every step of an analysis keeps the invariant.                          *)

LEMMA StoreStarts == TriageInit => StoreInv
<1> SUFFICES ASSUME TriageInit PROVE StoreInv
  OBVIOUS
<1>1. file \in Seq(Lines) /\ DOMAIN file = {}
  BY EmptySeq DEF TriageInit
<1>2. FileIsWritten
  BY <1>1 DEF FileIsWritten
<1>3. AnalysesAreTyped
  BY EmptySeq DEF TriageInit, AnalysesAreTyped, Places
<1>4. NothingTwice
  BY <1>1 DEF TriageInit, NothingTwice
<1>5. BegunIsKept
  BY DEF TriageInit, BegunIsKept
<1>6. ResultsAreKept
  BY DEF TriageInit, ResultsAreKept
<1> QED
  BY <1>2, <1>3, <1>4, <1>5, <1>6 DEF StoreInv

\* A step that moves p and changes nothing the invariant speaks of.
LEMMA MovingKeeps ==
  ASSUME StoreInv, NEW p \in Analyses, file' = file, begun' = begun, found' = found,
         results' = results, NEW where \in Places \ {"idle", "add"}, pc' = [pc EXCEPT ![p] = where]
  PROVE  StoreInv'
<1>1. found \in [Analyses -> Episodes \cup {None}] /\ results \in [Analyses -> Seq(Results)]
      /\ DOMAIN begun = Analyses
  BY DEF StoreInv, AnalysesAreTyped
<1>2. /\ FileIsWritten' /\ NothingTwice' /\ BegunIsKept'
      /\ pc' \in [Analyses -> Places]
      /\ \A i \in DOMAIN file : \A old : KeptAt(i, old) => i \in DOMAIN file' /\ KeptAt(i, old)'
  BY <1>1, ReadingKeeps
<1>3. ResultsAreKept'
  BY <1>2, ResultsStay
<1> QED
  BY <1>1, <1>2, <1>3 DEF StoreInv, AnalysesAreTyped

LEMMA BeginKeeps ==
  ASSUME StoreInv, NEW p \in Analyses, Begin(p)
  PROVE  StoreInv'
<1>1. /\ pc[p] = "idle" /\ pc' = [pc EXCEPT ![p] = "next"]
      /\ begun' = [begun EXCEPT ![p] = Committed]
      /\ file' = file /\ found' = found /\ results' = results
  BY DEF Begin, Goto
<1>2. /\ pc'[p] = "next" /\ begun'[p] = Committed
      /\ \A q \in Analyses : q # p => pc'[q] = pc[q] /\ begun'[q] = begun[q]
  BY <1>1 DEF StoreInv, AnalysesAreTyped
<1>3. AnalysesAreTyped'
  BY <1>1 DEF StoreInv, AnalysesAreTyped, Places
<1>4. FileIsWritten'
  BY <1>1 DEF StoreInv, FileIsWritten
<1>5. \A i, q, key : RecordOf(i, q, key)' <=> RecordOf(i, q, key)
  BY <1>1 DEF RecordOf
<1>6. \A i \in DOMAIN file : \A key : ~RecordOf(i, p, key)
  BY <1>1 DEF StoreInv, NothingTwice
<1>7. NothingTwice'
  <2>1. \A i, j \in DOMAIN file, q \in Analyses :
          \A key : RecordOf(i, q, key)' /\ RecordOf(j, q, key)' => i = j
    BY <1>5 DEF StoreInv, NothingTwice
  <2>2. \A i \in DOMAIN file, q \in Analyses :
          \A key : RecordOf(i, q, key)' => pc'[q] # "idle" /\ key \notin Known(q)'
    BY <1>2, <1>5, <1>6 DEF StoreInv, NothingTwice
  <2>3. ASSUME NEW q \in Analyses, pc'[q] = "add", NEW key, key = found[q].key
        PROVE  key \notin Known(q)' /\ \A i \in DOMAIN file : ~RecordOf(i, q, key)'
    BY <1>2, <1>5, <2>3 DEF StoreInv, NothingTwice
  <2> QED
    BY <1>1, <2>1, <2>2, <2>3 DEF NothingTwice
<1>8. BegunIsKept'
  <2>1. Committed' = Committed
    BY <1>1 DEF Committed, Records, EpisodeAt
  <2> QED
    BY <1>2, <2>1 DEF StoreInv, BegunIsKept
<1>9. ResultsAreKept'
  <2>1. \A i, old : KeptAt(i, old)' <=> KeptAt(i, old)
    BY <1>1 DEF KeptAt
  <2> QED
    BY <1>1, <2>1, ResultsStay
<1> QED
  BY <1>3, <1>4, <1>7, <1>8, <1>9 DEF StoreInv

LEMMA LoadKeeps ==
  ASSUME StoreInv, NEW p \in Analyses, Load(p)
  PROVE  StoreInv'
<1>1. PICK key : key = found[p].key
  OBVIOUS
<1>2. /\ file' = file /\ begun' = begun /\ found' = found
      /\ found \in [Analyses -> Episodes \cup {None}] /\ DOMAIN begun = Analyses
      /\ results \in [Analyses -> Seq(Results)]
      /\ key \in {e.key : e \in Episodes \cup {None}}
  BY <1>1 DEF Load, StoreInv, AnalysesAreTyped
<1>3. CASE key \in Keys
  <2>1. /\ pc' = [pc EXCEPT ![p] = "next"]
        /\ results' = [results EXCEPT ![p] = Append(@, [key |-> key, wrote |-> FALSE])]
    BY <1>1, <1>3 DEF Load, Record, Goto
  <2>2. /\ FileIsWritten' /\ NothingTwice' /\ BegunIsKept'
        /\ pc' \in [Analyses -> Places]
        /\ \A i \in DOMAIN file : \A old :
             KeptAt(i, old) => i \in DOMAIN file' /\ KeptAt(i, old)'
    <3>1. "next" \in Places \ {"idle", "add"}
      BY DEF Places
    <3> QED
      BY <1>2, <2>1, <3>1, ReadingKeeps
  <2>3. \E i \in DOMAIN file : KeptAt(i, key)'
    <3>1. PICK i \in DOMAIN file : IsRecord(file[i]) /\ file[i].writes[1].episode.key = key
      BY <1>3, CommittedFacts DEF StoreInv
    <3>2. 1 \in DOMAIN file[i].writes
      <4>1. file[i] \in Lines
        BY ElementOfSeq, LenProperties DEF StoreInv, FileIsWritten
      <4>2. file[i].writes \in Seq(Writes)
        BY <4>1 DEF Lines
      <4> QED
        BY <3>1, <4>2, LenProperties, RecordIsOneWrite
    <3>3. KeptAt(i, key)'
      BY <1>2, <3>1, <3>2 DEF KeptAt
    <3> QED
      BY <3>3
  <2>4. results' \in [Analyses -> Seq(Results)] /\ ResultsAreKept'
    BY <1>2, <2>1, <2>2, <2>3, ResultAdded
  <2> QED
    BY <1>2, <2>2, <2>4 DEF StoreInv, AnalysesAreTyped
<1>4. CASE key \notin Keys
  <2>1. pc' = [pc EXCEPT ![p] = "add"] /\ results' = results
    BY <1>1, <1>4 DEF Load, Goto
  <2>2. /\ pc' \in [Analyses -> Places]
        /\ \A q \in Analyses : q # p => pc'[q] = pc[q]
        /\ pc'[p] = "add" /\ pc[p] # "idle"
    BY <2>1 DEF StoreInv, AnalysesAreTyped, Places, Load
  <2>3. \A i, q, k : RecordOf(i, q, k)' <=> RecordOf(i, q, k)
    BY <1>2 DEF RecordOf
  <2>4. \A i \in DOMAIN file : ~RecordOf(i, p, key)
    BY <1>4, CommittedFacts DEF RecordOf, StoreInv
  <2>5. key \notin Known(p)
    <3>1. \A e \in begun[p] : e.key \in Keys
      BY CommittedFacts DEF StoreInv, BegunIsKept
    <3> QED
      BY <1>4, <3>1
  <2>6. NothingTwice'
    <3>1. \A i, j \in DOMAIN file, q \in Analyses :
            \A k : RecordOf(i, q, k)' /\ RecordOf(j, q, k)' => i = j
      BY <2>3 DEF StoreInv, NothingTwice
    <3>2. \A i \in DOMAIN file, q \in Analyses :
            \A k : RecordOf(i, q, k)' => pc'[q] # "idle" /\ k \notin Known(q)
      BY <2>2, <2>3 DEF StoreInv, NothingTwice
    <3>3. ASSUME NEW q \in Analyses, pc'[q] = "add", NEW k, k = found[q].key
          PROVE  k \notin Known(q) /\ \A i \in DOMAIN file : ~RecordOf(i, q, k)'
      BY <1>1, <2>2, <2>3, <2>4, <2>5, <3>3 DEF StoreInv, NothingTwice
    <3> QED
      BY <1>2, <3>1, <3>2, <3>3 DEF NothingTwice
  <2>7. FileIsWritten' /\ BegunIsKept'
    BY <1>2 DEF StoreInv, FileIsWritten, BegunIsKept, Committed, Records, EpisodeAt
  <2>8. ResultsAreKept'
    <3>1. \A i, old : KeptAt(i, old)' <=> KeptAt(i, old)
      BY <1>2 DEF KeptAt
    <3> QED
      BY <1>2, <2>1, <3>1, ResultsStay
  <2> QED
    BY <1>2, <2>1, <2>2, <2>6, <2>7, <2>8 DEF StoreInv, AnalysesAreTyped
<1> QED
  BY <1>3, <1>4

LEMMA FoundKeeps ==
  ASSUME StoreInv, NEW p \in Analyses, NEW e \in Episodes, Found(p, e)
  PROVE  StoreInv'
<1>1. /\ file' = file /\ begun' = begun /\ results' = results
      /\ found' = [found EXCEPT ![p] = e] /\ pc' = [pc EXCEPT ![p] = "load"]
      /\ results \in [Analyses -> Seq(Results)] /\ DOMAIN begun = Analyses
  BY DEF Found, Goto, StoreInv, AnalysesAreTyped
<1>2. /\ found' \in [Analyses -> Episodes \cup {None}]
      /\ \A q \in Analyses : q # p => found'[q] = found[q]
  BY <1>1 DEF StoreInv, AnalysesAreTyped
<1>3. "load" \in Places \ {"idle", "add"}
  BY DEF Places
<1>4. /\ FileIsWritten' /\ NothingTwice' /\ BegunIsKept'
      /\ pc' \in [Analyses -> Places]
      /\ \A i \in DOMAIN file : \A old : KeptAt(i, old) => i \in DOMAIN file' /\ KeptAt(i, old)'
  BY <1>1, <1>2, <1>3, ReadingKeeps
<1>5. ResultsAreKept'
  BY <1>1, <1>4, ResultsStay
<1> QED
  BY <1>1, <1>2, <1>4, <1>5 DEF StoreInv, AnalysesAreTyped

LEMMA FoundNothingKeeps ==
  ASSUME StoreInv, NEW p \in Analyses, FoundNothing(p)
  PROVE  StoreInv'
<1>1. /\ file' = file /\ begun' = begun /\ found' = found /\ pc' = [pc EXCEPT ![p] = "next"]
      /\ results' = [results EXCEPT ![p] = Append(@, [key |-> "none", wrote |-> FALSE])]
      /\ found \in [Analyses -> Episodes \cup {None}] /\ DOMAIN begun = Analyses
  BY DEF FoundNothing, Record, Goto, StoreInv, AnalysesAreTyped
<1>2. "next" \in Places \ {"idle", "add"}
  BY DEF Places
<1>3. /\ FileIsWritten' /\ NothingTwice' /\ BegunIsKept'
      /\ pc' \in [Analyses -> Places]
      /\ \A i \in DOMAIN file : \A old : KeptAt(i, old) => i \in DOMAIN file' /\ KeptAt(i, old)'
  BY <1>1, <1>2, ReadingKeeps
<1>4. "none" \in {e.key : e \in Episodes \cup {None}}
  <2>1. None.key = "none" /\ None \in Episodes \cup {None}
    BY DEF None
  <2> QED
    BY <2>1
<1>5. results' \in [Analyses -> Seq(Results)] /\ ResultsAreKept'
  BY <1>1, <1>3, <1>4, ResultAdded
<1> QED
  BY <1>1, <1>3, <1>5 DEF StoreInv, AnalysesAreTyped

LEMMA AddKeeps ==
  ASSUME StoreInv, NEW p \in Analyses, Add(p)
  PROVE  StoreInv'
<1>1. PICK key : key = found[p].key
  OBVIOUS
<1>2. /\ pc[p] = "add" /\ file' = Appended(Write(found[p], p, "whole"))
      /\ begun' = begun /\ found' = found /\ pc' = [pc EXCEPT ![p] = "next"]
      /\ results' = [results EXCEPT ![p] = Append(@, [key |-> key, wrote |-> TRUE])]
      /\ found \in [Analyses -> Episodes \cup {None}] /\ DOMAIN begun = Analyses
      /\ key \in {e.key : e \in Episodes \cup {None}}
  BY <1>1 DEF Add, Record, Goto, StoreInv, AnalysesAreTyped
<1>3. "next" \in Places \ {"idle", "add"} /\ "whole" \in Shapes
  BY DEF Places, Shapes
<1>4. /\ FileIsWritten' /\ NothingTwice' /\ BegunIsKept'
      /\ pc' \in [Analyses -> Places]
      /\ \A i \in DOMAIN file : \A old : KeptAt(i, old) => i \in DOMAIN file' /\ KeptAt(i, old)'
      /\ \E i \in DOMAIN file' : KeptAt(i, found[p].key)'
  BY <1>2, <1>3, AppendingKeeps
<1>5. \E i \in DOMAIN file' : KeptAt(i, key)'
  BY <1>1, <1>2, <1>4 DEF KeptAt
<1>6. results' \in [Analyses -> Seq(Results)] /\ ResultsAreKept'
  BY <1>2, <1>4, <1>5, ResultAdded
<1> QED
  BY <1>2, <1>4, <1>6 DEF StoreInv, AnalysesAreTyped

LEMMA AddTornKeeps ==
  ASSUME StoreInv, NEW p \in Analyses, NEW shape \in Torn, AddTorn(p, shape)
  PROVE  StoreInv'
<1>1. /\ pc[p] = "add" /\ file' = Appended(Write(found[p], p, shape))
      /\ begun' = begun /\ found' = found /\ results' = results
      /\ pc' = [pc EXCEPT ![p] = "crashed"]
      /\ found \in [Analyses -> Episodes \cup {None}] /\ DOMAIN begun = Analyses
      /\ results \in [Analyses -> Seq(Results)]
  BY DEF AddTorn, Goto, StoreInv, AnalysesAreTyped
<1>2. "crashed" \in Places \ {"idle", "add"} /\ shape \in Shapes
  BY TriageAssumption DEF Places, Shapes, TriageAssumption
<1>3. /\ FileIsWritten' /\ NothingTwice' /\ BegunIsKept'
      /\ pc' \in [Analyses -> Places]
      /\ \A i \in DOMAIN file : \A old : KeptAt(i, old) => i \in DOMAIN file' /\ KeptAt(i, old)'
  BY <1>1, <1>2, AppendingKeeps
<1>4. ResultsAreKept'
  BY <1>1, <1>3, ResultsStay
<1> QED
  BY <1>1, <1>3, <1>4 DEF StoreInv, AnalysesAreTyped

LEMMA StoreKept == StoreInv /\ [TriageNext]_triageVars => StoreInv'
<1> SUFFICES ASSUME StoreInv, [TriageNext]_triageVars PROVE StoreInv'
  OBVIOUS
<1>1. ASSUME NEW p \in Analyses, Step(p) PROVE StoreInv'
  <2>1. {"search", "output", "crashed", "exit 0", "exit 1"} \subseteq Places \ {"idle", "add"}
    BY DEF Places
  <2>2. CASE Begin(p)
    BY <2>2, BeginKeeps
  <2>3. CASE NextIncident(p)
    BY <2>1, <2>3, MovingKeeps DEF NextIncident, Goto
  <2>4. CASE Unreadable(p)
    BY <2>1, <2>4, MovingKeeps DEF Unreadable, Goto
  <2>5. CASE \E e \in Episodes : Found(p, e)
    BY <2>5, FoundKeeps
  <2>6. CASE FoundNothing(p)
    BY <2>6, FoundNothingKeeps
  <2>7. CASE SearchFails(p)
    BY <2>1, <2>7, MovingKeeps DEF SearchFails, Goto
  <2>8. CASE Load(p)
    BY <2>8, LoadKeeps
  <2>9. CASE Add(p)
    BY <2>9, AddKeeps
  <2>10. CASE \E shape \in Torn : AddTorn(p, shape)
    BY <2>10, AddTornKeeps
  <2>11. CASE Output(p)
    BY <2>1, <2>11, MovingKeeps DEF Output, Goto
  <2>12. CASE OutputFails(p)
    BY <2>1, <2>12, MovingKeeps DEF OutputFails, Goto
  <2> QED
    BY <1>1, <2>2, <2>3, <2>4, <2>5, <2>6, <2>7, <2>8, <2>9, <2>10, <2>11, <2>12 DEF Step
<1>2. CASE UNCHANGED triageVars
  <2>1. /\ file' = file /\ pc' = pc /\ found' = found /\ results' = results /\ begun' = begun
    BY <1>2 DEF triageVars
  <2>2. \A i, p, key : RecordOf(i, p, key)' <=> RecordOf(i, p, key)
    BY <2>1 DEF RecordOf
  <2>3. \A i, old : KeptAt(i, old)' <=> KeptAt(i, old)
    BY <2>1 DEF KeptAt
  <2>4. FileIsWritten' /\ AnalysesAreTyped' /\ BegunIsKept'
    BY <2>1 DEF StoreInv, FileIsWritten, AnalysesAreTyped, BegunIsKept, Committed, Records, EpisodeAt
  <2>5. NothingTwice'
    BY <2>1, <2>2 DEF StoreInv, NothingTwice
  <2>6. ResultsAreKept'
    BY <2>1, <2>3, ResultsStay
  <2> QED
    BY <2>4, <2>5, <2>6 DEF StoreInv
<1> QED
  BY <1>1, <1>2 DEF TriageNext

-----------------------------------------------------------------------------

LEMMA StoreInvImpliesOnce == StoreInv => StoredOncePerAnalysis
<1> SUFFICES ASSUME StoreInv, NEW i \in DOMAIN file, NEW j \in DOMAIN file,
                    IsRecord(file[i]), IsRecord(file[j]),
                    NEW v, v = file[i].writes[1], NEW w, w = file[j].writes[1]
             PROVE  /\ i # j /\ v.by = w.by => v.episode.key # w.episode.key
                    /\ v.episode.key \notin Known(v.by)
  BY DEF StoredOncePerAnalysis
<1>1. file[i] \in Lines
  BY ElementOfSeq, LenProperties DEF StoreInv, FileIsWritten
<1>2. file[i].writes \in Seq(Writes) /\ 1 \in 1..Len(file[i].writes)
  BY <1>1, RecordIsOneWrite DEF Lines
<1>3. v \in Writes
  BY <1>2, ElementOfSeq
<1>4. v.by \in Analyses
  BY <1>3 DEF Writes
<1>5. RecordOf(i, v.by, v.episode.key)
  BY DEF RecordOf
<1>6. v.by = w.by /\ v.episode.key = w.episode.key => RecordOf(j, v.by, v.episode.key)
  BY DEF RecordOf
<1> QED
  BY <1>4, <1>5, <1>6 DEF StoreInv, NothingTwice

LEMMA StoreInvImpliesRemembered == StoreInv => ReportedIsRemembered
<1> SUFFICES ASSUME StoreInv, NEW p \in Analyses, NEW r \in Range(results[p]), r.key # "none"
             PROVE  \E line \in Range(file) :
                      /\ r.key \in {w.episode.key : w \in Range(line.writes)}
                      /\ IsRecord(line) \/ \E w \in Range(line.writes) : w.shape # "whole"
  BY DEF ReportedIsRemembered
<1>1. PICK k \in DOMAIN results[p] : r = results[p][k]
  BY DEF Range
<1>2. PICK i \in DOMAIN file : KeptAt(i, r.key)
  BY <1>1 DEF StoreInv, ResultsAreKept
<1>3. file[i] \in Range(file)
  BY DEF Range
<1>4. r.key \in {w.episode.key : w \in Range(file[i].writes)}
  BY <1>2 DEF KeptAt, Range
<1>5. IsRecord(file[i]) \/ \E w \in Range(file[i].writes) : w.shape # "whole"
  BY <1>2 DEF KeptAt, Range
<1> QED
  BY <1>3, <1>4, <1>5

(* However many analyses share the store and however their writes stop: none of them      *)
(* stores the same Episode in two readable lines, nor one that it could read when it      *)
(* began (consolidate).                                                                   *)
THEOREM AlwaysStoredOnce == TriageSpec => []StoredOncePerAnalysis
<1> QED
  BY StoreStarts, StoreKept, StoreInvImpliesOnce, PTL DEF TriageSpec

(* What an analysis has reported as remembered stays in the store, and readable but for a  *)
(* torn write on its line, whatever the other analyses append (consolidate, add, load).    *)
THEOREM ReportedIsAlwaysRemembered == TriageSpec => []ReportedIsRemembered
<1> QED
  BY StoreStarts, StoreKept, StoreInvImpliesRemembered, PTL DEF TriageSpec

-----------------------------------------------------------------------------
(* The seeds.                                                              *)

LEMMA EpisodesAreScored ==
  ASSUME FileIsWritten, NEW i \in Records, NEW incident
  PROVE  Score(EpisodeAt(i), incident) \in Int
<1>1. PICK e : e = EpisodeAt(i)
  OBVIOUS
<1>2. e \in Episodes \cup {None}
  <2>1. i \in DOMAIN file /\ Len(file[i].writes) = 1
    BY DEF Records, IsRecord
  <2>2. file[i] \in Lines
    BY <2>1, ElementOfSeq, LenProperties DEF FileIsWritten
  <2>3. file[i].writes \in Seq(Writes)
    BY <2>2 DEF Lines
  <2>4. file[i].writes[1] \in Writes
    BY <2>1, <2>3, ElementOfSeq
  <2> QED
    BY <1>1, <2>4 DEF EpisodeAt, Writes
<1>3. IsFiniteSet(e.causes) /\ IsFiniteSet(e.names)
  <2>1. CASE e \in Episodes
    BY <2>1, TriageAssumption DEF TriageAssumption
  <2>2. CASE e = None
    BY <2>2, FS_EmptySet DEF None
  <2> QED
    BY <1>2, <2>1, <2>2
<1>4. PICK causes \in Nat : causes = Cardinality(e.causes \cap incident.causes)
  <2>1. IsFiniteSet(e.causes \cap incident.causes)
    BY <1>3, FS_Intersection
  <2> QED
    BY <2>1, FS_CardinalityType
<1>5. PICK names \in Nat : names = Cardinality(e.names \cap incident.names)
  <2>1. IsFiniteSet(e.names \cap incident.names)
    BY <1>3, FS_Intersection
  <2> QED
    BY <2>1, FS_CardinalityType
<1>6. PICK same \in {0, 2} :
        same = IF incident.procedure # "none" /\ e.procedure = incident.procedure THEN 2 ELSE 0
  OBVIOUS
<1>7. Score(e, incident) = 3 * causes + names + same
  BY <1>4, <1>5, <1>6 DEF Score
<1> QED
  BY <1>1, <1>7

\* The k-th seed is the Episode of the k-th record of a ranking of the relevant ones, cut
\* at three.
TopSeeds(top, c, shown, incident) ==
  /\ shown = [k \in 1..c |-> EpisodeAt(top[k])]
  /\ \A k \in 1..c : Score(EpisodeAt(top[k]), incident) >= 2
  /\ \A j, k \in 1..c :
       j < k => Score(EpisodeAt(top[j]), incident) >= Score(EpisodeAt(top[k]), incident)
  /\ \A i \in Records : Score(EpisodeAt(i), incident) >= 2 =>
       \/ \E k \in 1..c : top[k] = i
       \/ /\ c = 3
          /\ \A k \in 1..c : Score(EpisodeAt(top[k]), incident) >= Score(EpisodeAt(i), incident)

LEMMA SeedsAreTop ==
  ASSUME FileIsWritten, NEW incident
  PROVE  \E c \in 0..3 : \E top : TopSeeds(top, c, Seeds(incident), incident)
<1>1. PICK N \in Nat : DOMAIN file = 1..N
  BY LenProperties DEF FileIsWritten
<1>2. PICK S : S = {i \in Records : Score(EpisodeAt(i), incident) >= 2}
  OBVIOUS
<1>3. PICK before : before = {x \in S \X S : Before(x[1], x[2], incident)}
  OBVIOUS
<1>4. S \subseteq Records /\ S \subseteq 1..N
  BY <1>1, <1>2 DEF Records
<1>5. IsFiniteSet(S)
  <2>1. IsFiniteSet(1..N)
    BY FS_Interval
  <2> QED
    BY <1>4, <2>1, FS_Subset
<1>6. PICK score : score = [i \in S |-> Score(EpisodeAt(i), incident)]
  OBVIOUS
<1>7. \A i \in S : score[i] = Score(EpisodeAt(i), incident) /\ score[i] \in Int /\ score[i] >= 2 /\ i \in Int
  BY <1>2, <1>4, <1>6, EpisodesAreScored
<1>8. \A i, j \in S : <<i, j>> \in before <=> score[i] > score[j] \/ (score[i] = score[j] /\ i > j)
  BY <1>3, <1>7 DEF Before
<1>9. StrictOrder(S, before)
  <2>1. \A x \in S : <<x, x>> \notin before
    BY <1>7, <1>8
  <2>2. ASSUME NEW x \in S, NEW y \in S PROVE x = y \/ <<x, y>> \in before \/ <<y, x>> \in before
    <3>1. x \in Int /\ y \in Int /\ score[x] \in Int /\ score[y] \in Int
      BY <1>7
    <3>2. \/ x = y
          \/ score[x] > score[y] \/ (score[x] = score[y] /\ x > y)
          \/ score[y] > score[x] \/ (score[y] = score[x] /\ y > x)
      BY <3>1
    <3> QED
      BY <1>8, <3>2
  <2>3. \A x, y, z \in S : <<x, y>> \in before /\ <<y, z>> \in before => <<x, z>> \in before
    BY <1>7, <1>8
  <2> QED
    BY <2>1, <2>2, <2>3 DEF StrictOrder
<1>10. PICK top, size : top = SortedBy(S, before) /\ size = Cardinality(S)
  OBVIOUS
<1>11. Enumerates(top, size, S, before) /\ size \in Nat
  BY <1>5, <1>9, <1>10, SortedByEnumerates, FS_CardinalityType
<1>12. /\ top \in [1..size -> S]
       /\ \A x \in S : \E k \in 1..size : top[k] = x
       /\ \A j, k \in 1..size : j < k => <<top[j], top[k]>> \in before
  BY <1>11 DEF Enumerates
<1>13. PICK c \in 0..3 : DOMAIN top \cap 1..3 = 1..c /\ c <= size /\ (c = 3 \/ c = size)
  <2>1. CASE size >= 3
    BY <1>11, <1>12, <2>1
  <2>2. CASE size < 3
    <3>1. size \in 0..3 /\ DOMAIN top \cap 1..3 = 1..size
      BY <1>11, <1>12, <2>2
    <3> QED
      BY <3>1
  <2> QED
    BY <1>11, <2>1, <2>2
<1>14. Seeds(incident) = [k \in 1..c |-> EpisodeAt(top[k])]
  <2>1. Ranked(incident) = top
    BY <1>2, <1>3, <1>10, Zenon DEF Ranked
  <2> QED
    BY <1>13, <2>1, Zenon DEF Seeds
<1>15. ASSUME NEW j \in 1..size, NEW k \in 1..size, j <= k PROVE score[top[j]] >= score[top[k]]
  <2>1. j = k \/ <<top[j], top[k]>> \in before
    BY <1>12, <1>15
  <2> QED
    BY <1>7, <1>8, <1>12, <2>1
<1>16. \A k \in 1..c : k \in 1..size /\ top[k] \in S
  BY <1>11, <1>12, <1>13
<1>17. \A k \in 1..c : Score(EpisodeAt(top[k]), incident) >= 2
  BY <1>7, <1>16
<1>18. \A j, k \in 1..c :
         j < k => Score(EpisodeAt(top[j]), incident) >= Score(EpisodeAt(top[k]), incident)
  <2>1. ASSUME NEW j \in 1..c, NEW k \in 1..c, j < k
        PROVE  Score(EpisodeAt(top[j]), incident) >= Score(EpisodeAt(top[k]), incident)
    <3>1. score[top[j]] >= score[top[k]]
      BY <1>15, <1>16, <2>1
    <3> QED
      BY <1>7, <1>16, <3>1
  <2> QED
    BY <2>1
<1>19. ASSUME NEW i \in Records, Score(EpisodeAt(i), incident) >= 2
       PROVE  \/ \E k \in 1..c : top[k] = i
              \/ /\ c = 3
                 /\ \A k \in 1..c :
                      Score(EpisodeAt(top[k]), incident) >= Score(EpisodeAt(i), incident)
  <2>1. i \in S
    BY <1>2, <1>19
  <2>2. PICK k \in 1..size : top[k] = i
    BY <1>12, <2>1
  <2>3. CASE k <= c
    BY <2>2, <2>3
  <2>4. CASE ~(k <= c)
    <3>1. c = 3
      BY <1>11, <1>13, <2>4
    <3>2. \A j \in 1..c : j \in 1..size /\ j <= k
      BY <1>11, <1>13, <2>4
    <3>3. \A j \in 1..c : score[top[j]] >= score[i]
      BY <1>15, <2>2, <3>2
    <3> QED
      BY <1>7, <1>16, <2>1, <3>1, <3>3
  <2> QED
    BY <2>3, <2>4
<1> QED
  BY <1>14, <1>17, <1>18, <1>19 DEF TopSeeds

\* What SeedsAreBest says of one search.
BestSeeds(shown, past, incident) ==
  /\ Len(shown) <= 3
  /\ \A i \in DOMAIN shown : Score(shown[i], incident) >= 2
  /\ \A i, j \in DOMAIN shown : i < j => Score(shown[i], incident) >= Score(shown[j], incident)
  /\ \A e \in past :
       Score(e, incident) >= 2 =>
         \/ e \in Range(shown)
         \/ Len(shown) = 3 /\ \A s \in Range(shown) : Score(s, incident) >= Score(e, incident)

LEMMA CommittedAreSeeded ==
  ASSUME FileIsWritten, NEW past \in SUBSET Committed, NEW incident
  PROVE  BestSeeds(Seeds(incident), past, incident)
<1>1. PICK shown : shown = Seeds(incident)
  OBVIOUS
<1>2. PICK c \in 0..3 : \E top : TopSeeds(top, c, shown, incident)
  BY <1>1, SeedsAreTop
<1>3. PICK top : TopSeeds(top, c, shown, incident)
  BY <1>2
<1>4. DOMAIN shown = 1..c /\ Len(shown) = c /\ \A k \in 1..c : shown[k] = EpisodeAt(top[k])
  BY <1>3 DEF TopSeeds
<1>5. ASSUME NEW e \in past, Score(e, incident) >= 2
      PROVE  \/ e \in Range(shown)
             \/ Len(shown) = 3 /\ \A s \in Range(shown) : Score(s, incident) >= Score(e, incident)
  <2>1. PICK i \in Records : EpisodeAt(i) = e
    BY DEF Committed
  <2>2. CASE \E k \in 1..c : top[k] = i
    BY <1>4, <2>1, <2>2 DEF Range
  <2>3. CASE ~\E k \in 1..c : top[k] = i
    <3>1. c = 3 /\ \A k \in 1..c : Score(shown[k], incident) >= Score(e, incident)
      BY <1>3, <1>4, <1>5, <2>1, <2>3 DEF TopSeeds
    <3> QED
      BY <1>4, <3>1 DEF Range
  <2> QED
    BY <2>2, <2>3
<1>6. \A i, j \in DOMAIN shown : i < j => Score(shown[i], incident) >= Score(shown[j], incident)
  BY <1>3, <1>4 DEF TopSeeds
<1>7. \A i \in DOMAIN shown : Score(shown[i], incident) >= 2
  BY <1>3, <1>4 DEF TopSeeds
<1> QED
  BY <1>1, <1>4, <1>5, <1>6, <1>7 DEF BestSeeds

\* The seeds of a search in progress.
SeedsInv ==
  /\ StoreInv
  /\ DOMAIN seeds = Analyses /\ DOMAIN n = Analyses
  /\ \A p \in Analyses : pc[p] = "search" => BestSeeds(seeds[p], begun[p], Incident(p))

(* For any number of analyses and incidents, any Episodes and any writes that stop: a       *)
(* search is seeded with the best three of the Episodes committed when its analysis began,  *)
(* or with better ones stored since, whatever others append meanwhile.                      *)
THEOREM AlwaysSeededWithBest == TriageSpec => []SeedsAreBest
<1>1. TriageInit => SeedsInv
  BY StoreStarts DEF TriageInit, SeedsInv
<1>2. ASSUME SeedsInv, [TriageNext]_triageVars
      PROVE  SeedsInv'
  <2>1. StoreInv'
    BY <1>2, StoreKept DEF SeedsInv
  <2>2. ASSUME NEW p \in Analyses, NextIncident(p) PROVE SeedsInv'
    <3>1. CASE n[p] <= Len(Incidents[p])
      <4>1. /\ pc' = [pc EXCEPT ![p] = "search"] /\ seeds' = [seeds EXCEPT ![p] = Seeds(Incident(p))]
            /\ n' = n /\ begun' = begun
        BY <2>2, <3>1 DEF NextIncident, Goto
      <4>2. BestSeeds(Seeds(Incident(p)), begun[p], Incident(p))
        BY <1>2, CommittedAreSeeded DEF SeedsInv, StoreInv, BegunIsKept
      <4>3. seeds'[p] = Seeds(Incident(p)) /\ \A q \in Analyses : q # p => seeds'[q] = seeds[q] /\ pc'[q] = pc[q]
        BY <1>2, <4>1 DEF SeedsInv, StoreInv, AnalysesAreTyped
      <4>4. \A q \in Analyses : Incident(q)' = Incident(q)
        BY <4>1 DEF Incident
      <4> QED
        BY <1>2, <2>1, <4>1, <4>2, <4>3, <4>4 DEF SeedsInv
    <3>2. CASE ~(n[p] <= Len(Incidents[p]))
      <4>1. /\ pc' = [pc EXCEPT ![p] = "output"] /\ seeds' = seeds /\ n' = n /\ begun' = begun
        BY <2>2, <3>2 DEF NextIncident, Goto
      <4>2. \A q \in Analyses : Incident(q)' = Incident(q)
        BY <4>1 DEF Incident
      <4> QED
        BY <1>2, <2>1, <4>1, <4>2 DEF SeedsInv, StoreInv, AnalysesAreTyped
    <3> QED
      BY <3>1, <3>2
  <2>3. ASSUME NEW p \in Analyses, seeds' = seeds, pc'[p] # "search", DOMAIN n' = Analyses,
               \A q \in Analyses : q # p => pc'[q] = pc[q] /\ n'[q] = n[q] /\ begun'[q] = begun[q]
        PROVE  SeedsInv'
    BY <1>2, <2>1, <2>3 DEF SeedsInv, Incident
  <2>4. ASSUME NEW p \in Analyses, Step(p), ~NextIncident(p)
        PROVE  /\ seeds' = seeds /\ pc'[p] # "search" /\ DOMAIN n' = Analyses
               /\ \A q \in Analyses : q # p => pc'[q] = pc[q] /\ n'[q] = n[q] /\ begun'[q] = begun[q]
    <3>1. /\ pc \in [Analyses -> Places] /\ DOMAIN begun = Analyses /\ DOMAIN n = Analyses
      BY <1>2 DEF SeedsInv, StoreInv, AnalysesAreTyped
    <3>2. CASE Begin(p)
      BY <3>1, <3>2 DEF Begin, Goto
    <3>3. CASE Unreadable(p)
      BY <3>1, <3>3 DEF Unreadable, Goto
    <3>4. ASSUME NEW e \in Episodes, Found(p, e)
          PROVE  /\ seeds' = seeds /\ pc'[p] # "search" /\ DOMAIN n' = Analyses
                 /\ \A q \in Analyses : q # p => pc'[q] = pc[q] /\ n'[q] = n[q] /\ begun'[q] = begun[q]
      BY <3>1, <3>4 DEF Found, Goto
    <3>5. CASE FoundNothing(p)
      BY <3>1, <3>5 DEF FoundNothing, Record, Goto
    <3>6. CASE SearchFails(p)
      BY <3>1, <3>6 DEF SearchFails, Goto
    <3>7. CASE Load(p)
      BY <3>1, <3>7 DEF Load, Record, Goto
    <3>8. CASE Add(p)
      BY <3>1, <3>8 DEF Add, Record, Goto
    <3>9. ASSUME NEW shape \in Torn, AddTorn(p, shape)
          PROVE  /\ seeds' = seeds /\ pc'[p] # "search" /\ DOMAIN n' = Analyses
                 /\ \A q \in Analyses : q # p => pc'[q] = pc[q] /\ n'[q] = n[q] /\ begun'[q] = begun[q]
      BY <3>1, <3>9 DEF AddTorn, Goto
    <3>10. CASE Output(p)
      BY <3>1, <3>10 DEF Output, Goto
    <3>11. CASE OutputFails(p)
      BY <3>1, <3>11 DEF OutputFails, Goto
    <3> QED
      BY <2>4, <3>2, <3>3, <3>4, <3>5, <3>6, <3>7, <3>8, <3>9, <3>10, <3>11 DEF Step
  <2>5. CASE UNCHANGED triageVars
    <3>1. /\ pc' = pc /\ n' = n /\ seeds' = seeds /\ begun' = begun
      BY <2>5 DEF triageVars
    <3> QED
      BY <1>2, <2>1, <3>1 DEF SeedsInv, Incident
  <2> QED
    BY <1>2, <2>2, <2>3, <2>4, <2>5 DEF TriageNext
<1>3. SeedsInv => SeedsAreBest
  BY DEF SeedsInv, SeedsAreBest, BestSeeds
<1> QED
  BY <1>1, <1>2, <1>3, PTL DEF TriageSpec
=============================================================================
