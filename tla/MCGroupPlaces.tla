---------------------------- MODULE MCGroupPlaces ----------------------------
\* Small instances of GroupPlaces for TLC.
EXTENDS GroupPlaces, TLC

\* All groups are of one branch, or each is of its own.
OneBranch == [g \in Groups |-> CHOOSE b \in Branches : TRUE]
OwnBranch == CHOOSE f \in [Groups -> Branches] : \A g, h \in Groups : f[g] = f[h] => g = h

Alike == Permutations(Children) \cup Permutations(Clerks)

\* Groups of one branch are interchangeable as well.
AlikeGroups == Alike \cup Permutations(Groups)
=============================================================================
