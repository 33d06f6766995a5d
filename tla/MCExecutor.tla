----------------------------- MODULE MCExecutor -----------------------------
(* Small plans for TLC: every graph of four stages whose kinds are allowed *)
(* at their places, with at most one stage of each policy.                 *)
EXTENDS Executor

(* A stage reads one relation before it, or all of them; a sink reads one. *)
Reads(k, i) ==
    LET before == {j \in 1 .. i - 1 : k[j] \notin SinkKinds}
    IN  IF k[i] \in SourceKinds THEN {{}}
        ELSE {{j} : j \in before} \cup (IF k[i] \in SinkKinds THEN {} ELSE {before})

AtMostOne(S) == {{}} \cup {{i} : i \in S}

Graphs(kinds, retried, carryingOn, onDisk, splitting, counts) ==
    UNION {{[kind |-> k, inputs |-> <<{}, a, b, c>>,
             retries |-> [i \in Stages |-> IF i \in r THEN 1 ELSE 0],
             carryOn |-> o, disk |-> d, splits |-> s,
             extended |-> s # {}, counts |-> counts] :
              a \in Reads(k, 2), b \in Reads(k, 3), c \in Reads(k, 4),
              r \in AtMostOne(retried), o \in AtMostOne(carryingOn),
              d \in AtMostOne({i \in onDisk : k[i] \notin SinkKinds}),
              s \in AtMostOne({i \in splitting : k[i] = "step"})} : k \in kinds}

(* Driven runs without counts: failures, retries, branches.                *)
DrivenPlans ==
    Graphs({"queue"} \X {"branch", "check", "marked"} \X {"native", "branch", "nativesink"}
             \X {"sink", "nativesink"}, {4}, {2, 3}, {1}, {}, FALSE)

(* One script with counts: it stops at the first statement that fails.     *)
(* Those that split load an extension too.                                 *)
ScriptPlans ==
    Graphs({"queue", "stream", "marked"} \X {"step", "source", "queue"}
             \X {"step", "nativesink"} \X {"sink", "nativesink"}, {}, {}, {1, 2}, {2, 3}, TRUE)
    \cup Graphs({"marked"} \X {"marked"} \X {"step"} \X {"sink"}, {}, {}, {}, {3}, TRUE)
    \cup Graphs({"marked"} \X {"marked"} \X {"step"} \X {"sink"}, {}, {}, {}, {}, FALSE)

SmallPlans == DrivenPlans \cup ScriptPlans

(* A driven run with counts.                                               *)
CountedPlans == Graphs({<<"queue", "step", "check", "sink">>}, {}, {}, {}, {}, TRUE)
=============================================================================
