---------------------------- MODULE CondValidator ---------------------------
(***************************************************************************)
(* The pool of conditions of a recipe: how modr_validate walks it          *)
(* (validate_cond_pool, validate_cond_at, validate_composite) and what     *)
(* evaluate_condition makes of a pool that was accepted.                   *)
(*                                                                         *)
(* A node is a leaf, with a registered function or an unknown one, or one  *)
(* of the three composites with the indices of its children; bytes, hashes *)
(* and parameter pools are left out.  The recursion is a stack of frames.  *)
(***************************************************************************)
EXTENDS Naturals, Sequences, FiniteSets

CONSTANTS
  Pools,                \* the pools a file may hold: functions from 0..n-1 to nodes
  MAX_CONDITION_DEPTH

CondAssumption ==
  /\ MAX_CONDITION_DEPTH \in Nat \ {0}
  /\ \A p \in Pools : \A i \in DOMAIN p :
       p[i].kind \in {"leaf", "unknown", "not", "all", "any"} /\ p[i].children \in Seq(Nat)

VARIABLES
  pool,     \* cond_pool
  colour,   \* cond_state: 0 new, 1 on the stack, 2 done
  stack,    \* frames [node, depth, next child], the current call last
  at,       \* the node validate_cond_pool goes on with
  verdict,  \* "running", then what validate_cond_pool returns
  visits    \* how often each node has been entered

vars == <<pool, colour, stack, at, verdict, visits>>

Nodes(p) == DOMAIN p
Composite(p, i) == p[i].kind \in {"not", "all", "any"}

Init ==
  /\ pool \in Pools /\ colour = [i \in Nodes(pool) |-> 0] /\ visits = [i \in Nodes(pool) |-> 0]
  /\ stack = <<>> /\ at = 0 /\ verdict = "running"

(* validate_composite() before it goes into the children                   *)
Sound(i, depth) ==
  /\ depth < MAX_CONDITION_DEPTH
  /\ pool[i].children # <<>> /\ (pool[i].kind = "not" => Len(pool[i].children) = 1)

(* A node that was done is passed over, one on the stack closes a cycle.   *)
Accepts(i, depth) == IF Composite(pool, i) THEN Sound(i, depth) ELSE pool[i].kind = "leaf"

Rejects(i, depth) ==
  i \notin Nodes(pool) \/ colour[i] = 1 \/ (colour[i] = 0 /\ ~Accepts(i, depth))

PassedOver(i) == colour[i] # 0

(* validate_cond_at(), on top of the calls s.                              *)
Enter(i, depth, s) ==
  IF Rejects(i, depth) THEN verdict' = "refused" /\ UNCHANGED <<colour, stack, visits>>
  ELSE IF PassedOver(i) THEN stack' = s /\ UNCHANGED <<verdict, colour, visits>>
  ELSE /\ colour' = [colour EXCEPT ![i] = 1] /\ visits' = [visits EXCEPT ![i] = @ + 1]
       /\ stack' = Append(s, [node |-> i, depth |-> depth, next |-> 1])
       /\ UNCHANGED verdict

(* validate_cond_pool(): every node in turn, at depth 0.                   *)
More == at \in Nodes(pool)
NextNode ==
  /\ verdict = "running" /\ stack = <<>> /\ More
  /\ at' = at + 1 /\ Enter(at, 0, stack)
  /\ UNCHANGED pool

(* The children of a composite, one deeper.                                *)
Top == stack[Len(stack)]
Advanced(s) == [s EXCEPT ![Len(s)].next = @ + 1]
Child ==
  /\ verdict = "running" /\ stack # <<>>
  /\ Composite(pool, Top.node) /\ Top.next <= Len(pool[Top.node].children)
  /\ Enter(pool[Top.node].children[Top.next], Top.depth + 1, Advanced(stack))
  /\ UNCHANGED <<pool, at>>

Done ==
  /\ verdict = "running" /\ stack # <<>>
  /\ Composite(pool, Top.node) => Top.next > Len(pool[Top.node].children)
  /\ colour' = [colour EXCEPT ![Top.node] = 2]
  /\ stack' = SubSeq(stack, 1, Len(stack) - 1)
  /\ UNCHANGED <<pool, at, verdict, visits>>

Accepted ==
  /\ verdict = "running" /\ stack = <<>> /\ ~More
  /\ verdict' = "accepted" /\ UNCHANGED <<pool, colour, stack, at, visits>>

Next == NextNode \/ Child \/ Done \/ Accepted
Fairness == WF_vars(Next)
Spec == Init /\ [][Next]_vars /\ Fairness

-----------------------------------------------------------------------------
(* evaluate_condition() under the answers `true' of the leaves: below the  *)
(* depth it is false.                                                      *)
Value(p, f, d, i, true) ==
  LET child(k) == f[d + 1, p[i].children[k]]
      kids == DOMAIN p[i].children
  IN CASE p[i].kind = "leaf" -> i \in true
       [] p[i].kind = "not" -> kids # {} /\ ~child(1)
       [] p[i].kind = "all" -> kids # {} /\ \A k \in kids : child(k)
       [] p[i].kind = "any" -> \E k \in kids : child(k)
       [] OTHER -> FALSE
DepthBounded(p, bound, true) ==
  LET f[d \in 0..bound, i \in Nodes(p)] == IF d >= bound THEN FALSE ELSE Value(p, f, d, i, true)
  IN [i \in Nodes(p) |-> f[0, i]]
Evaluate(p, true) == DepthBounded(p, MAX_CONDITION_DEPTH, true)

(* What an expression means: its value with all its levels.                *)
Meaning(p, true) == DepthBounded(p, Cardinality(Nodes(p)) + 1, true)

(* How many composites are nested in one another, for a pool without cycles *)
Nesting(p) ==
  LET h[d \in Nat, i \in Nodes(p)] ==
        IF d = 0 \/ ~Composite(p, i) THEN 0
        ELSE 1 + (CHOOSE m \in 0..d : /\ \E k \in DOMAIN p[i].children : h[d - 1, p[i].children[k]] = m
                                     /\ \A k \in DOMAIN p[i].children : h[d - 1, p[i].children[k]] <= m)
  IN [i \in Nodes(p) |-> h[Cardinality(Nodes(p)), i]]

Leaves(p) == {i \in Nodes(p) : p[i].kind = "leaf"}

(* A walk of as many steps as there are nodes goes round a cycle.          *)
Cyclic(p) ==
  LET edges == {e \in Nodes(p) \X Nodes(p) : Composite(p, e[1]) /\ \E k \in DOMAIN p[e[1]].children : p[e[1]].children[k] = e[2]}
      walk[n \in Nat] == IF n = 0 THEN Nodes(p) ELSE {i \in Nodes(p) : \E j \in walk[n - 1] : <<i, j>> \in edges}
  IN walk[Cardinality(Nodes(p))] # {}

-----------------------------------------------------------------------------
(* Colours, the place in the pool and the verdict.                         *)
TypeOK ==
  /\ colour \in [Nodes(pool) -> 0..2] /\ at \in 0..Cardinality(Nodes(pool))
  /\ verdict \in {"running", "accepted", "refused"}

(* What the evaluator relies on: a pool that was accepted has no cycle, no *)
(* index outside it, no empty composite.                                   *)
AcceptedIsSound ==
  verdict = "accepted" =>
    /\ \A i \in Nodes(pool) : pool[i].kind # "unknown"
    /\ \A i \in Nodes(pool) : Composite(pool, i) =>
         pool[i].children # <<>> /\ \A k \in DOMAIN pool[i].children : pool[i].children[k] \in Nodes(pool)
    /\ ~Cyclic(pool)

(* The walk needs no more of the task's stack than the nesting allows, and *)
(* time in proportion to the pool however its nodes are shared.            *)
StackIsBounded == Len(stack) <= MAX_CONDITION_DEPTH + 1
EachOnce == \A i \in Nodes(pool) : visits[i] <= 1

(* Conditions nested less deeply than the limit have the value they spell. *)
ShallowIsExact ==
  verdict = "accepted" => \A true \in SUBSET Leaves(pool) : \A i \in Nodes(pool) :
    Nesting(pool)[i] < MAX_CONDITION_DEPTH => Evaluate(pool, true)[i] = Meaning(pool, true)[i]

(* Every pool gets a verdict.                                              *)
Decides == <>(verdict # "running")

-----------------------------------------------------------------------------
(* "The compiler and loader both reject deeper trees" (recipe-actions.md). *)
\* Broken by the code: a pool that stores children first is accepted however
\* deeply it nests.
DeepIsRefused == verdict = "accepted" => \A i \in Nodes(pool) : Nesting(pool)[i] <= MAX_CONDITION_DEPTH

(* "Composites can nest up to 16 levels deep (MAX_CONDITION_DEPTH)": what   *)
(* is nested as deeply as that means what it spells.                       *)
LimitIsUsable ==
  verdict = "accepted" => \A true \in SUBSET Leaves(pool) : \A i \in Nodes(pool) :
    Nesting(pool)[i] <= MAX_CONDITION_DEPTH => Evaluate(pool, true)[i] = Meaning(pool, true)[i]
=============================================================================
