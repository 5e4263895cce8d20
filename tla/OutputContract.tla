--------------------------- MODULE OutputContract ---------------------------
(***************************************************************************)
(* What the agent may rely on when it hands metrics to an output: each     *)
(* metric is refused by the filter or kept, a kept metric is written once  *)
(* or dropped because a buffer was full, and it leaves no other way.       *)
(***************************************************************************)
CONSTANT Metric

VARIABLE fate    \* where each metric is in its life

Fates == {"new", "filtered", "held", "written", "dropped"}

Init == fate = [m \in Metric |-> "new"]

(* The steps of a life.                                                    *)
Refuse    == <<"new", "filtered">>
Keep      == <<"new", "held">>
Deliver   == <<"held", "written">>
Overwrite == <<"held", "dropped">>

(* One successful Output.Write delivers several metrics; nothing else      *)
(* happens to two metrics at once.                                         *)
Next ==
  LET moved == {m \in Metric : fate'[m] # fate[m]}
      step(m) == <<fate[m], fate'[m]>>
  IN  /\ fate' \in [Metric -> Fates]
      /\ \/ \A m \in moved : step(m) = Deliver
         \/ \E m \in Metric : /\ moved \subseteq {m}
                              /\ step(m) \in {Refuse, Keep, Overwrite}

Spec == Init /\ [][Next]_fate
=============================================================================
