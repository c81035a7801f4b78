---- MODULE MCChannelsLayout ----
EXTENDS ChannelsLayout, TLC

CONSTANTS c1, c2, t1, t2

\* Both threads are of the first channel.
HomeOf == t1 :> c1 @@ t2 :> c1

ThreadSymmetry == Permutations({t1, t2})
====
