-------------------------- MODULE MCJesdSyncTiming --------------------------
(* One group of two links and one of a single link: a link can go down
   alone or with its partner, and each group can be hit without the other. *)
EXTENDS JesdSyncTiming

MCLink == 0 .. 2
MCGroup == 0 .. 1
MCGroupOf == [l \in MCLink |-> l \div 2]
=============================================================================
