--------------------------- MODULE MC_ShmExchange ---------------------------
(***************************************************************************)
(* Workloads for ShmExchange.                                              *)
(***************************************************************************)
EXTENDS ShmExchange

T(in, out, then) == [in |-> in, out |-> out, then |-> then]

(* The segment used in one direction: values of either size going back,    *)
(* and large inputs answered inline, in the last turn of a stream or with  *)
(* a turn of the other direction behind them.                              *)
OneWay ==
    {<<T(0, a, "go"), T(0, b, "go"), T(0, c, t)>> :
        a, b \in 0..2, c \in {0, 2}, t \in {"go", "finish", "raise"}}
    \cup {<<T(0, a, "go"), T(b, 0, "go")>> : a \in 0..3, b \in 1..3}
    \cup {<<T(a, 0, "go"), T(0, b, t), T(c, 0, "go")>> :
              a, c \in 1..2, b \in 0..2, t \in {"go", "raise"}}

(* It is a workload the theorems of ShmExchangeProofs are about. *)
ASSUME OneWayAssumption == Streams = OneWay => OneDirection

(* One turn with a large input and a large output. *)
BothWays == {<<T(1, 1, "go")>>}
=============================================================================
