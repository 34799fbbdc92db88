----------------------------- MODULE WireAnalyze -----------------------------
(***************************************************************************)
(* src/Robot/limbs/wirecal/wirecal_analyze.c: where in a curve of n        *)
(* resistances, r[0] to r[n - 1], the wire's phase transition lies. Points *)
(* are named by their index; the caller's x ascends with it. Products stay *)
(* below 2^32 for resistances (milliohm) below 4 kilohm.                   *)
(***************************************************************************)
EXTENDS Integers

MIN_POINTS        == 8    \* WC_MIN_POINTS, which a run of the ramp makes smaller
MAX_POINTS        == 250
PEAK_MIN_PERMILLE == 6
EDGE_FRACTION     == 4

iabs(v) == IF v < 0 THEN -v ELSE v

Interior(n) == 1 .. n - 2

\* The two-step slopes, by magnitude.
Slopes(r, n) == [i \in Interior(n) |-> iabs(r[i + 1] - r[i - 1])]

\* The first of the steepest.
Steepest(s, n) ==
  LET upto[i \in Interior(n)] ==
        IF i = 1 THEN 1
        ELSE IF s[i] > s[upto[i - 1]] THEN i ELSE upto[i - 1]
  IN  upto[n - 2]

\* Walking down and up from mid for as long as the slope is no less than edge.
Down(s, n, mid, edge) ==
  LET from[i \in Interior(n)] == IF i > 1 /\ s[i - 1] >= edge THEN from[i - 1] ELSE i
  IN  from[mid]

Up(s, n, mid, edge) ==
  LET from[i \in Interior(n)] == IF i + 2 < n /\ s[i + 1] >= edge THEN from[i + 1] ELSE i
  IN  from[mid]

Cold(r) == (r[0] + r[1] + r[2]) \div 3

Found(r, s, n, mid) ==
  LET edge == s[mid] \div EDGE_FRACTION
      hi   == Up(s, n, mid, edge)
      open == hi + 2 = n /\ s[hi] >= edge
  IN  [status |-> "WC_OK", rcold |-> Cold(r), onset |-> Down(s, n, mid, edge), mid |-> mid,
       full |-> IF open THEN n - 1 ELSE hi, open |-> open]

wirecal_analyze(r, count) ==
  LET n   == IF count > MAX_POINTS THEN MAX_POINTS ELSE count
      s   == Slopes(r, n)
      mid == Steepest(s, n)
  IN  IF count < MIN_POINTS THEN [status |-> "WC_TOO_FEW"]
      ELSE IF s[mid] * 1000 < Cold(r) * PEAK_MIN_PERMILLE THEN [status |-> "WC_NO_TRANSITION"]
      ELSE Found(r, s, n, mid)

-----------------------------------------------------------------------------
\* The transition by its definition: the points around a steepest one whose
\* slope, up or down, is at least a quarter of the steepest.
Slope(r, i)     == IF r[i + 1] > r[i - 1] THEN r[i + 1] - r[i - 1] ELSE r[i - 1] - r[i + 1]
IsPeak(r, n, p) == \A i \in Interior(n) : Slope(r, p) >= Slope(r, i)
Moving(r, p, a, b) == \A i \in a .. b : Slope(r, i) >= Slope(r, p) \div EDGE_FRACTION

\* "found by SLOPE MAGNITUDE, not by a fixed sign" (wirecal_analyze.h:6-9), onset
\* "where the resistance starts to move", full "where the change has finished",
\* open_ended when it had not (wirecal_analyze.h:19-22, 33-36). The answer is the
\* longest stretch around the steepest point in which the curve moves; it is open
\* just when that stretch reaches the data's end; and there is one just when the
\* curve moves by 0.6 % of the cold resistance somewhere.
FindsTransition(r, n) ==
  LET a    == wirecal_analyze(r, n)
      last == IF a.open THEN n - 2 ELSE a.full
      Steep(i) == Slope(r, i) * 1000 >= Cold(r) * PEAK_MIN_PERMILLE
  IN  CASE n < MIN_POINTS -> a.status = "WC_TOO_FEW"
        [] n >= MIN_POINTS /\ (\A i \in Interior(n) : ~Steep(i)) -> a.status = "WC_NO_TRANSITION"
        [] OTHER ->
             /\ a.status = "WC_OK"
             /\ IsPeak(r, n, a.mid) /\ a.mid \in a.onset .. last
             /\ Moving(r, a.mid, a.onset, last)
             /\ a.onset > 1 => ~Moving(r, a.mid, a.onset - 1, a.onset - 1)
             /\ last < n - 2 => ~Moving(r, a.mid, last + 1, last + 1)
             /\ a.open <=> last = n - 2
=============================================================================
