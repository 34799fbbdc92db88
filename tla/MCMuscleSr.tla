----------------------------- MODULE MCMuscleSr -----------------------------
(* MuscleSr on a short frame: two channels on a chip each, windows packed   *)
(* back to back as the muscle scheduler packs them, muscle counts finer     *)
(* than timer counts so that edges are rounded.                             *)
EXTENDS MuscleSr

TwoChannels == 0 .. 1
TwoChips    == {{0}, {1}}

Table(s0, l0, s1, l1) ==
  [start |-> [ch \in TwoChannels |-> IF ch = 0 THEN s0 ELSE s1],
   len   |-> [ch \in TwoChannels |-> IF ch = 0 THEN l0 ELSE l1]]

\* Two windows that meet, the second over before the frame is; one window to the
\* end of the frame; everything off.
PackedLayouts == {Off, Table(0, 8, 8, 9), Table(0, 0, 9, 15)}
=============================================================================
