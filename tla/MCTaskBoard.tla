---- MODULE MCTaskBoard ----
EXTENDS TaskBoard, TLC

CONSTANTS t1, t2, a1, a2, r1, r2

\* One field at a time, a lead's assignment with a start, and creations.
MCChanges ==
    [status : {"in_progress", "review", "done"}, owner : {Keep}, deps : {Keep}]
    \cup [status : {"in_progress"}, owner : {a1}, deps : {Keep}]
    \cup [status : {Keep}, owner : {Keep}, deps : {{}, {t1}, {t2}}]
    \cup [status : {"inbox"}, owner : {Nobody}, deps : {{}}]
    \cup [status : {"review"}, owner : {Nobody}, deps : {{t1}, {t2}}]

MCInitial == [status : {"inbox", "review", "done"}, owner : {Nobody}]

MCSettings == {[approval |-> TRUE, review |-> TRUE, pending |-> TRUE, onlyLead |-> FALSE]}

MCApprovals == {{"approved"}, {"pending"}}

Symmetry == {p @@ q : p \in Permutations(Requests), q \in Permutations(Tasks)}
====
