---- MODULE MCLiveBoard ----
EXTENDS LiveBoard, TLC

CONSTANTS t1, t2, w1, w2, p1, p2, inbox, review
====
