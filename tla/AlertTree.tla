----------------------------- MODULE AlertTree ------------------------------
(***************************************************************************)
(* Alerts as AlertUtility and the Grafana plugin handle them.  Grafana     *)
(* evaluates the conditions of an alert one after the other, so the tree   *)
(* of an alert with conditions 1 .. n is a chain: operator 2 combines      *)
(* conditions 1 and 2, operator k the condition k and the operator k - 1.  *)
(* An alert with one condition has an operator 1 over it.                  *)
(*                                                                         *)
(* A tree is a record of the host (deployOn) of every condition and        *)
(* operator, and of the children <<k, j>> of operators that have been      *)
(* replaced by a proxy condition, which has neither a name nor a deployOn. *)
(***************************************************************************)
EXTENDS Naturals, Sequences, SequencesExt, FiniteSets

Null    == "null"     \* deployOn before the first policy is applied
Nowhere == ""         \* the policy keeps the node in the central system

Cond(i) == <<"cond", i>>
Op(k)   == <<"op", k>>

Kids(k) == IF k <= 2 THEN [i \in 1 .. k |-> Cond(i)] ELSE <<Cond(k), Op(k - 1)>>

NewTree(n) ==
  [cond |-> [i \in 1 .. n |-> Null], op |-> [k \in 1 .. n |-> Null],
   proxied |-> {}]

deployOn(tree, node) ==
  IF node[1] = "cond" THEN tree.cond[node[2]] ELSE tree.op[node[2]]

(* The policy of a node is found by its name, which a proxy does not have. *)
applyPolicy(tree, policy) ==
  [tree EXCEPT !.cond = policy.cond, !.op = policy.op]

(* An operator whose children are all on one host goes there too, whatever *)
(* its policy says.                                                        *)
optimizeAlertTree(tree) ==
  LET op[k \in DOMAIN tree.op] ==
        LET on == [j \in DOMAIN Kids(k) |->
                     IF Kids(k)[j][1] = "op" THEN op[k - 1]
                     ELSE tree.cond[Kids(k)[j][2]]]
        IN  IF \A j \in DOMAIN on : on[j] = on[1] THEN on[1] ELSE tree.op[k]
  IN  [tree EXCEPT !.op = op]

(* The operators that optimizeAlertTree gives the time window of their     *)
(* conditions: an operator has none of its own.                            *)
Together(tree) ==
  {k \in DOMAIN tree.op : \A j \in DOMAIN Kids(k) :
     deployOn(tree, Kids(k)[j]) = deployOn(tree, Kids(k)[1])}

(* The recursion asks every node for its deployOn, and a node that is      *)
(* deployed nowhere for its children; a condition has none.                *)
PlacementFails(tree) ==
  \/ tree.proxied # {}
  \/ \E i \in DOMAIN tree.cond : tree.cond[i] \in {Nowhere, Null}

(* The child is deployed on another host than its operator, and is left to *)
(* it: a tree of its own, and a proxy in its place.                        *)
Moved(tree, k, j) ==
  /\ tree.op[k] # Nowhere
  /\ deployOn(tree, Kids(k)[j]) \notin {Nowhere, tree.op[k]}

(* createNewRootNode, for the operator k and for the children of k.        *)
IsNewRoot(tree, k) ==
  \/ k = Len(tree.op)
  \/ tree.op[k + 1] = Nowhere
  \/ Moved(tree, k + 1, 2)
IsNewRootChild(tree, k, j) == tree.op[k] = Nowhere \/ Moved(tree, k, j)

(* A root is copied before its children are replaced; another operator is  *)
(* changed in the alert's own tree.                                        *)
ReplacedBelow(tree) ==
  {p \in {<<k, j>> : k \in 1 .. Len(tree.op), j \in 1 .. 2} :
     /\ p[1] >= 2 \/ Len(tree.op) = 1
     /\ p[2] \in DOMAIN Kids(p[1])
     /\ ~ IsNewRoot(tree, p[1])
     /\ Moved(tree, p[1], p[2])}

Proxy(tree, node) == <<"proxy", deployOn(tree, node)>>

(* getAlertConditionsFromAlertTree, for an operator of the alert's tree    *)
(* and for the copy that is the root of a local tree.                      *)
ConditionsBelow(tree, replaced) ==
  LET below[k \in DOMAIN tree.op] ==
        FlattenSeq([j \in DOMAIN Kids(k) |->
          IF <<k, j>> \in replaced THEN <<Proxy(tree, Kids(k)[j])>>
          ELSE IF Kids(k)[j][1] = "op" THEN below[k - 1]
          ELSE <<Kids(k)[j]>>])
  IN  below

RootConditions(tree, k) ==
  LET below == ConditionsBelow(tree, ReplacedBelow(tree))
  IN  FlattenSeq([j \in DOMAIN Kids(k) |->
        IF Moved(tree, k, j) THEN <<Proxy(tree, Kids(k)[j])>>
        ELSE IF Kids(k)[j][1] = "op" THEN below[k - 1]
        ELSE <<Kids(k)[j]>>])

(* The trees to deploy, in the order in which the recursion finds them.    *)
getLocallyPlaceableAlertTrees(tree) ==
  LET trees[k \in DOMAIN tree.op] ==
        FlattenSeq([j \in DOMAIN Kids(k) |->
          IF Kids(k)[j][1] = "op" THEN trees[k - 1]
          ELSE IF IsNewRootChild(tree, k, j)
               THEN <<[root  |-> Kids(k)[j],
                       host  |-> deployOn(tree, Kids(k)[j]),
                       conds |-> <<Kids(k)[j]>>]>>
               ELSE <<>>])
        \o (IF tree.op[k] # Nowhere /\ IsNewRoot(tree, k)
            THEN <<[root  |-> Op(k), host |-> tree.op[k],
                    conds |-> RootConditions(tree, k)]>>
            ELSE <<>>)
  IN  trees[Len(tree.op)]

(* Mutant: operators that are deployed are not looked for.                 *)
createDashboardPanelAlertConditions_leaves(tree) ==
  [i \in DOMAIN tree.cond |-> Cond(i)]

(* The conditions that the central system is left with: the result of an   *)
(* operator that is deployed, or its children's.                           *)
createDashboardPanelAlertConditions(tree) ==
  LET central[k \in DOMAIN tree.op] ==
        CASE tree.op[k] # Nowhere -> <<Op(k)>>
          [] tree.op[k] = Nowhere /\ k <= 2 -> Kids(k)
          [] OTHER -> Append(central[k - 1], Cond(k))
  IN  central[Len(tree.op)]
=============================================================================
