------------------------------ MODULE MCWorker ------------------------------
EXTENDS Worker

MCMaxPrinted == [dev |-> 2, review |-> 1]
=============================================================================
