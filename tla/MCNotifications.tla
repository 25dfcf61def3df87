--------------------------- MODULE MCNotifications ---------------------------
\* Small instances of Notifications for TLC.
EXTENDS Notifications, TLC

Alike == Permutations(Slots) \cup Permutations(Callers)
=============================================================================
