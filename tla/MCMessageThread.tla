---- MODULE MCMessageThread ----
EXTENDS MessageThread, TLC

CONSTANTS t1, t2
====
