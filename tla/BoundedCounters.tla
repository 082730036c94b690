--------------------------- MODULE BoundedCounters ---------------------------
(***************************************************************************)
(* Counters that each hand out at most a limit of units and get every unit *)
(* back: what the serve gate promises of its in-flight counters.  held     *)
(* says how many units of a counter each holder has; a counter is their    *)
(* sum here, and is kept by compare-and-swap and fetch_sub in the code.    *)
(***************************************************************************)
EXTENDS Integers, FiniteSets

CONSTANTS Counters, Holders

VARIABLES held, total, limit   \* limit[c]: a natural number, fixed

counterVars == <<held, total, limit>>

(* The units of a counter that are held, counted one by one. *)
HeldOf(c) == Cardinality({u \in Holders \X (1..limit[c]) : u[2] <= held[c][u[1]]})

CounterInit ==
    /\ held = [c \in Counters |-> [h \in Holders |-> 0]]
    /\ total = [c \in Counters |-> 0]

Take(c, h) ==
    LET n == total'[c] - total[c]
    IN  /\ n > 0
        /\ held[c][h] = 0
        /\ HeldOf(c) + n <= limit[c]
        /\ held' = [held EXCEPT ![c][h] = n]
        /\ total' = [total EXCEPT ![c] = @ + n]
        /\ UNCHANGED limit

GiveBack(c, h) ==
    /\ total'[c] < total[c]
    /\ held[c][h] > 0
    /\ total' = [total EXCEPT ![c] = @ - held[c][h]]
    /\ held' = [held EXCEPT ![c][h] = 0]
    /\ UNCHANGED limit

CounterNext == \E c \in Counters, h \in Holders : Take(c, h) \/ GiveBack(c, h)

CounterSpec == CounterInit /\ [][CounterNext]_counterVars
==============================================================================
