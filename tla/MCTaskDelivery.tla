--------------------------- MODULE MCTaskDelivery ---------------------------
(* A finite instance of TaskDelivery.  Jobs meet only at the workers, so a *)
(* behaviour has requests for at most two of the three.                    *)
EXTENDS TaskDelivery

CONSTANTS form, payment, mail, w1, w2

TwoJobs == Cardinality({j \in Jobs : web[j] # "new"}) <= 2

TwoJobsSpec ==
    /\ DeliveryInit /\ [][DeliveryNext /\ TwoJobs']_deliveryVars
    /\ \A w \in Workers : WF_deliveryVars(Work(w))
=============================================================================
