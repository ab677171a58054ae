---------------------------- MODULE FollowedLog -----------------------------
(***************************************************************************)
(* One process extends a log, the others hold a beginning of it that only  *)
(* grows.  This is what the block list is meant to be when one node mines: *)
(* followers may join late, miss announcements and catch up over a gap,    *)
(* but none of them ever shortens or rewrites its copy.                    *)
(*                                                                         *)
(* MinerNetwork with one miner implements this (MinerNetwork!FollowsLog).  *)
(***************************************************************************)
EXTENDS Naturals, Sequences

CONSTANTS Node, Source, Item, First

VARIABLE copies

Init == copies = [n \in Node |-> <<First>>]

Extend ==
  \E b \in Item : copies' = [copies EXCEPT ![Source] = Append(@, b)]

Follow(n) ==
  \E k \in (Len(copies[n]) + 1)..Len(copies[Source]) :
     copies' = [copies EXCEPT ![n] = SubSeq(copies[Source], 1, k)]

Next == Extend \/ \E n \in Node \ {Source} : Follow(n)

Spec == Init /\ [][Next]_copies
=============================================================================
