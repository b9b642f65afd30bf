----------------------------- MODULE MCSaveGames -----------------------------
(* The constants of the runs over SaveGames. *)
EXTENDS SaveGames, TLC

CONSTANTS s1, s2

AllKinds == {"failure", "damage", "crash"}

limit(in, begun, wrong, of) == [slots |-> in, saves |-> begun, faults |-> wrong, kinds |-> of]

\* Long histories of one slot, with several faults, and shorter ones of two.
MCLimits ==
  {limit({s1}, 4, 1, AllKinds), limit({s1}, 3, 2, AllKinds), limit({s1}, 2, 3, AllKinds),
   limit({s1, s2}, 3, 1, AllKinds)}
=============================================================================
