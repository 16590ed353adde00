--------------------------- MODULE MCOrderExecution ---------------------------
(* Small squads for OrderExecution.                                        *)
EXTENDS OrderExecution

CONSTANTS LedByOne,     \* the soldiers of the first squad
          MaxOrders, MaxDecisions, MaxNews, MaxHits

MCSoldier == 1..LastSoldier
MCStartLeader == [s \in MCSoldier |-> IF s \in LedByOne THEN 1 ELSE s]
MCLimit == [k \in Kinds |-> IF k = "order" THEN MaxOrders
                        ELSE IF k = "decision" THEN MaxDecisions
                        ELSE IF k = "news" THEN MaxNews ELSE MaxHits]
=============================================================================
