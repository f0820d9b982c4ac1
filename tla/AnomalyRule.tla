---------------------------- MODULE AnomalyRule ----------------------------
(***************************************************************************)
(* The per-device anomaly rule of the Spark job (anomaly_state.py): an     *)
(* exponentially weighted mean and variance, seeded from the source CSV,   *)
(* against which each reading is judged BEFORE it is folded in.            *)
(*                                                                         *)
(* One metric stands for the five the code loops over: the loop keeps a    *)
(* separate (mean, var) per metric and an event is flagged when any metric *)
(* gives a reason.  Readings are integers and 1/alpha is an integer, so    *)
(* the divisions truncate; the rule is otherwise the one in the code.      *)
(***************************************************************************)
EXTENDS Integers

CONSTANTS
    AlphaInverse,   \* 1 / ANOMALY_EWMA_ALPHA
    SigmaN,         \* ANOMALY_SIGMA_N
    Ceiling,        \* the device's ceiling for the metric, from the CSV
    SeedMean        \* SeedMean[s]: the CSV mean shifted to the season s

ASSUME RuleAssumption ==
    /\ AlphaInverse \in Nat \ {0}
    /\ SigmaN \in Nat
    /\ Ceiling \in Int
    /\ \A s \in DOMAIN SeedMean : SeedMean[s] \in Int

\* The state one device keeps: [mean, var].
EwmaState == [mean : Int, var : Int]

MinVar == 1

\* baseline.get(device): the seed of a device that has no state yet.
SeedState(s) == [mean |-> SeedMean[s], var |-> 1]

Floor(v) == IF v < MinVar THEN MinVar ELSE v

\* The reading x judged against the state e: the ceiling first, then sigma.
Reason(e, x) ==
    LET delta == x - e.mean
    IN  IF x > Ceiling THEN "ceiling"
        ELSE IF delta * delta > SigmaN * SigmaN * Floor(e.var) THEN "sigma"
        ELSE "none"

Flagged(e, x) == Reason(e, x) # "none"

\* The state after the reading x has been folded in.
Fold(e, x) ==
    LET delta == x - e.mean
    IN  [mean |-> e.mean + (delta \div AlphaInverse),
         var  |-> ((AlphaInverse - 1) * (e.var + ((delta * delta) \div AlphaInverse)))
                      \div AlphaInverse]
=============================================================================
