--------------------------- MODULE MCUserManager ---------------------------
(* Instances of UserManager for TLC. *)
EXTENDS UserManager, TLC
CONSTANTS u1, u2, t1, t2

OneUser == {u1}
TwoUsers == {u1, u2}
NoTemps == {}
OneTemp == {t1}
TwoTemps == {t1, t2}
NoStops == {}
CrashOnly == {"crash"}
ExitOnly == {"exit"}
AllStops == {"crash", "exit"}

\* Players and accesses are interchangeable.
Interchange == Permutations(Users) \cup Permutations(Temps)
=============================================================================
