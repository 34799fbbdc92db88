------------------------- MODULE CalibrationProofs --------------------------
(***************************************************************************)
(* The calibration run and the calibration file, for any muscles, ramp,    *)
(* ring and keys: a run holds exactly its time-out, a reading that counts  *)
(* belongs to its step, the file is the old or the new one, and what was   *)
(* saved comes back. What the analysis answers is, for any curve, the      *)
(* transition by its definition.                                           *)
(*                                                                         *)
(* A reading of an earlier step may still be in the ring while the next    *)
(* one settles. It cannot be taken for the new step's, because whenever    *)
(* the settled time-out is in the scheduler's queue, a drain() is ahead of *)
(* it or has begun: RingInv says so.                                       *)
(***************************************************************************)
EXTENDS Calibration, Arithmetic, SequenceTheorems, TLAPS

Analysis == INSTANCE WireAnalyze

-----------------------------------------------------------------------------
(***************************************************************************)
(* wirecal_analyze() on any curve.                                         *)
(***************************************************************************)
\* A recursive function of 1 to N whose value at i comes from the one before it.
Descends(f, N, first, G) ==
  /\ f \in [1 .. N -> 1 .. N] /\ f[1] = first
  /\ \A i \in 2 .. N : f[i] = G[i][f[i - 1]]

LEMMA DescentExists ==
  ASSUME NEW N \in Nat \ {0}, NEW first \in 1 .. N, NEW G \in [2 .. N -> [1 .. N -> 1 .. N]]
  PROVE  \E f : Descends(f, N, first, G)
<1> DEFINE H == [k \in 1 .. N - 1 |-> G[k + 1]]
<1>1. N - 1 \in Nat /\ H \in [1 .. N - 1 -> [1 .. N -> 1 .. N]]
  <2>1. \A k \in 1 .. N - 1 : k + 1 \in 2 .. N
    OBVIOUS
  <2>2. \A k \in 1 .. N - 1 : H[k] \in [1 .. N -> 1 .. N]
    BY <2>1
  <2>3. H = [k \in 1 .. N - 1 |-> H[k]]
    OBVIOUS
  <2> HIDE DEF H
  <2> QED
    BY <2>2, <2>3
<1>2. PICK g : Follows(g, N - 1, 1 .. N, first, H)
  BY <1>1, Recursion DEF Steps
<1>3. /\ g \in [0 .. N - 1 -> 1 .. N] /\ g[0] = first
      /\ \A k \in 1 .. N - 1 : g[k] = H[k][g[k - 1]]
  BY <1>2 DEF Follows
<1> DEFINE f == [i \in 1 .. N |-> g[i - 1]]
<1>4. f \in [1 .. N -> 1 .. N] /\ f[1] = first
  BY <1>3
<1>5. ASSUME NEW i \in 2 .. N
      PROVE  f[i] = G[i][f[i - 1]]
  <2>1. i - 1 \in 1 .. N - 1 /\ i \in 1 .. N /\ i - 1 \in 1 .. N /\ (i - 1) + 1 = i
    OBVIOUS
  <2>2. f[i] = g[i - 1] /\ f[i - 1] = g[(i - 1) - 1] /\ H[i - 1] = G[i]
    BY <2>1
  <2> QED
    BY <1>3, <2>1, <2>2
<1> QED
  BY <1>4, <1>5 DEF Descends

\* The steepest point is found.
LEMMA SteepestIs ==
  ASSUME NEW n \in Nat, n >= 3, NEW s \in [Analysis!Interior(n) -> Nat]
  PROVE  LET p == Analysis!Steepest(s, n) IN
         p \in Analysis!Interior(n) /\ \A i \in Analysis!Interior(n) : s[p] >= s[i]
<1> DEFINE N == n - 2
           G == [i \in 2 .. N |-> [v \in 1 .. N |-> IF s[i] > s[v] THEN i ELSE v]]
           h(f) == [i \in Analysis!Interior(n) |->
                      IF i = 1 THEN 1 ELSE IF s[i] > s[f[i - 1]] THEN i ELSE f[i - 1]]
           u == CHOOSE f : f = h(f)
<1>1. N \in Nat \ {0} /\ Analysis!Interior(n) = 1 .. N /\ s \in [1 .. N -> Nat]
  BY DEF Analysis!Interior
<1>2. PICK f : Descends(f, N, 1, G)
  <2>1. G \in [2 .. N -> [1 .. N -> 1 .. N]] /\ 1 \in 1 .. N
    BY <1>1
  <2> QED
    BY <1>1, <2>1, DescentExists
<1>3. f = h(f)
  <2>1. f \in [1 .. N -> 1 .. N] /\ f[1] = 1
    BY <1>2 DEF Descends
  <2>2. ASSUME NEW i \in 2 .. N
        PROVE  f[i] = IF s[i] > s[f[i - 1]] THEN i ELSE f[i - 1]
    <3>1. f[i] = G[i][f[i - 1]]
      BY <1>2 DEF Descends
    <3>2. i - 1 \in 1 .. N
      BY <1>1
    <3>3. f[i - 1] \in 1 .. N
      BY <2>1, <3>2
    <3>4. \A v \in 1 .. N : G[i][v] = IF s[i] > s[v] THEN i ELSE v
      OBVIOUS
    <3> QED
      BY <3>1, <3>3, <3>4
  <2>3. \A i \in 1 .. N : i = 1 \/ (i \in 2 .. N /\ i # 1)
    BY <1>1
  <2>4. \A i \in 1 .. N : f[i] = h(f)[i]
    BY <1>1, <2>1, <2>2, <2>3
  <2> QED
    BY <1>1, <2>1, <2>4
<1>4. u = h(u)
  BY <1>3
<1>5. Analysis!Steepest(s, n) = u[N]
  BY DEF Analysis!Steepest
<1> HIDE DEF u, N
<1>6. u[1] = 1 /\ \A i \in 2 .. N : u[i] = IF s[i] > s[u[i - 1]] THEN i ELSE u[i - 1]
  <2>1. \A i \in 1 .. N : u[i] = h(u)[i]
    BY <1>4
  <2>2. 1 \in 1 .. N /\ \A i \in 2 .. N : i \in 1 .. N /\ i # 1
    BY <1>1
  <2> QED
    BY <1>1, <2>1, <2>2
<1> DEFINE S == {k \in 0 .. N - 1 :
                   u[k + 1] \in 1 .. k + 1 /\ \A i \in 1 .. k + 1 : s[u[k + 1]] >= s[i]}
<1>7. 0 \in S
  BY <1>1, <1>6
<1>8. ASSUME NEW k \in 1 .. N - 1, k - 1 \in S
      PROVE  k \in S
  <2>1. /\ k + 1 \in 2 .. N /\ (k + 1) - 1 = k /\ (k - 1) + 1 = k /\ k \in 0 .. N - 1
        /\ \A i \in 1 .. k + 1 : i \in 1 .. k \/ i = k + 1
    BY <1>1
  <2>2. u[k] \in 1 .. k /\ \A i \in 1 .. k : s[u[k]] >= s[i]
    BY <1>8, <2>1
  <2>3. u[k + 1] = IF s[k + 1] > s[u[k]] THEN k + 1 ELSE u[k]
    BY <1>6, <2>1
  <2>4. \A i \in 1 .. k + 1 : s[i] \in Nat
    BY <1>1, <2>1
  <2>5. s[u[k]] \in Nat
    BY <2>2, <2>4, <2>1
  <2>6. u[k + 1] \in 1 .. k + 1 /\ \A i \in 1 .. k + 1 : s[u[k + 1]] >= s[i]
    BY <2>1, <2>2, <2>3, <2>4, <2>5
  <2> QED
    BY <2>1, <2>6
<1>9. N - 1 \in S
  <2>1. N - 1 \in Nat /\ N - 1 \in 0 .. N - 1
    BY <1>1
  <2> QED
    BY <1>7, <1>8, <2>1, CountUp
<1>10. (N - 1) + 1 = N
  BY <1>1
<1> QED
  BY <1>1, <1>5, <1>9, <1>10

\* Down from mid the slope is at least edge, and before that it is less, or there
\* is no more of the curve.
Reaches(s, a, b, edge) == \A i \in a .. b : s[i] >= edge

LEMMA DownIs ==
  ASSUME NEW n \in Nat, n >= 3, NEW s \in [Analysis!Interior(n) -> Nat],
         NEW mid \in Analysis!Interior(n), NEW edge \in Nat
  PROVE  LET d == Analysis!Down(s, n, mid, edge) IN
         d \in 1 .. mid /\ Reaches(s, d, mid - 1, edge) /\ (d > 1 => s[d - 1] < edge)
<1> DEFINE N == n - 2
           G == [i \in 2 .. N |-> [v \in 1 .. N |-> IF s[i - 1] >= edge THEN v ELSE i]]
           h(f) == [i \in Analysis!Interior(n) |->
                      IF i > 1 /\ s[i - 1] >= edge THEN f[i - 1] ELSE i]
           u == CHOOSE f : f = h(f)
<1>1. N \in Nat \ {0} /\ Analysis!Interior(n) = 1 .. N /\ s \in [1 .. N -> Nat] /\ mid \in 1 .. N
  BY DEF Analysis!Interior
<1>2. PICK f : Descends(f, N, 1, G)
  <2>1. G \in [2 .. N -> [1 .. N -> 1 .. N]] /\ 1 \in 1 .. N
    BY <1>1
  <2> QED
    BY <1>1, <2>1, DescentExists
<1>3. f = h(f)
  <2>1. f \in [1 .. N -> 1 .. N] /\ f[1] = 1
    BY <1>2 DEF Descends
  <2>2. ASSUME NEW i \in 2 .. N
        PROVE  f[i] = IF s[i - 1] >= edge THEN f[i - 1] ELSE i
    <3>1. f[i] = G[i][f[i - 1]]
      BY <1>2 DEF Descends
    <3>2. i - 1 \in 1 .. N
      BY <1>1
    <3>3. f[i - 1] \in 1 .. N
      BY <2>1, <3>2
    <3>4. \A v \in 1 .. N : G[i][v] = IF s[i - 1] >= edge THEN v ELSE i
      OBVIOUS
    <3> QED
      BY <3>1, <3>3, <3>4
  <2>3. \A i \in 1 .. N : i = 1 \/ (i \in 2 .. N /\ i > 1)
    BY <1>1
  <2>4. \A i \in 1 .. N : f[i] = h(f)[i]
    BY <1>1, <2>1, <2>2, <2>3
  <2> QED
    BY <1>1, <2>1, <2>4
<1>4. u = h(u)
  BY <1>3
<1>5. Analysis!Down(s, n, mid, edge) = u[mid]
  BY DEF Analysis!Down
<1> HIDE DEF u, N
<1>6. u[1] = 1 /\ \A i \in 2 .. N : u[i] = IF s[i - 1] >= edge THEN u[i - 1] ELSE i
  <2>1. \A i \in 1 .. N : u[i] = h(u)[i]
    BY <1>4
  <2>2. 1 \in 1 .. N /\ ~(1 > 1) /\ \A i \in 2 .. N : i \in 1 .. N /\ i > 1
    BY <1>1
  <2> QED
    BY <1>1, <2>1, <2>2
<1> DEFINE Stops(i) == /\ u[i] \in 1 .. i /\ Reaches(s, u[i], i - 1, edge)
                       /\ u[i] > 1 => s[u[i] - 1] < edge
           S == {k \in 0 .. N - 1 : Stops(k + 1)}
<1>7. 0 \in S
  BY <1>1, <1>6 DEF Reaches
<1>8. ASSUME NEW k \in 1 .. N - 1, k - 1 \in S
      PROVE  k \in S
  <2>1. k + 1 \in 2 .. N /\ (k + 1) - 1 = k /\ (k - 1) + 1 = k /\ k \in 0 .. N - 1
        /\ k \in 1 .. N /\ s[k] \in Nat
    BY <1>1
  <2>2. Stops(k)
    BY <1>8, <2>1
  <2>3. u[k + 1] = IF s[k] >= edge THEN u[k] ELSE k + 1
    BY <1>6, <2>1
  <2>4. CASE s[k] >= edge
    <3>1. \A i \in u[k] .. k : i \in u[k] .. k - 1 \/ i = k
      BY <2>1, <2>2
    <3>2. Reaches(s, u[k], k, edge)
      BY <2>2, <2>4, <3>1 DEF Reaches
    <3>3. u[k] \in 1 .. k + 1
      BY <2>1, <2>2
    <3> QED
      BY <2>1, <2>2, <2>3, <2>4, <3>2, <3>3
  <2>5. CASE ~(s[k] >= edge)
    BY <2>1, <2>3, <2>5 DEF Reaches
  <2> QED
    BY <2>4, <2>5
<1>9. mid - 1 \in S
  <2>1. N - 1 \in Nat /\ mid - 1 \in 0 .. N - 1
    BY <1>1
  <2> QED
    BY <1>7, <1>8, <2>1, CountUp
<1>10. (mid - 1) + 1 = mid
  BY <1>1
<1> QED
  BY <1>1, <1>5, <1>9, <1>10

\* The same from the other end: the value at i comes from the one after it.
Ascends(f, N, last, G) ==
  /\ f \in [1 .. N -> 1 .. N] /\ f[N] = last
  /\ \A i \in 1 .. N - 1 : f[i] = G[i][f[i + 1]]

LEMMA AscentExists ==
  ASSUME NEW N \in Nat \ {0}, NEW last \in 1 .. N, NEW G \in [1 .. N - 1 -> [1 .. N -> 1 .. N]]
  PROVE  \E f : Ascends(f, N, last, G)
<1> DEFINE H == [j \in 2 .. N |-> G[N + 1 - j]]
<1>1. H \in [2 .. N -> [1 .. N -> 1 .. N]]
  <2>1. \A j \in 2 .. N : N + 1 - j \in 1 .. N - 1
    OBVIOUS
  <2>2. \A j \in 2 .. N : H[j] \in [1 .. N -> 1 .. N]
    BY <2>1
  <2>3. H = [j \in 2 .. N |-> H[j]]
    OBVIOUS
  <2> HIDE DEF H
  <2> QED
    BY <2>2, <2>3
<1>2. PICK g : Descends(g, N, last, H)
  BY <1>1, DescentExists
<1>3. /\ g \in [1 .. N -> 1 .. N] /\ g[1] = last
      /\ \A j \in 2 .. N : g[j] = H[j][g[j - 1]]
  BY <1>2 DEF Descends
<1> DEFINE f == [i \in 1 .. N |-> g[N + 1 - i]]
<1>4. f \in [1 .. N -> 1 .. N] /\ f[N] = last
  <2>1. N \in 1 .. N /\ N + 1 - N = 1 /\ \A i \in 1 .. N : N + 1 - i \in 1 .. N
    OBVIOUS
  <2> QED
    BY <1>3, <2>1
<1>5. ASSUME NEW i \in 1 .. N - 1
      PROVE  f[i] = G[i][f[i + 1]]
  <2> DEFINE j == N + 1 - i
  <2>1. j \in 2 .. N /\ i \in 1 .. N /\ i + 1 \in 1 .. N /\ N + 1 - (i + 1) = j - 1 /\ N + 1 - j = i
    OBVIOUS
  <2>2. f[i] = g[j] /\ f[i + 1] = g[j - 1] /\ H[j] = G[i]
    BY <2>1
  <2> HIDE DEF j, f, H
  <2> QED
    BY <1>3, <2>1, <2>2
<1> QED
  BY <1>4, <1>5 DEF Ascends

LEMMA UpIs ==
  ASSUME NEW n \in Nat, n >= 3, NEW s \in [Analysis!Interior(n) -> Nat],
         NEW mid \in Analysis!Interior(n), NEW edge \in Nat
  PROVE  LET h == Analysis!Up(s, n, mid, edge) IN
         h \in mid .. n - 2 /\ Reaches(s, mid + 1, h, edge) /\ (h < n - 2 => s[h + 1] < edge)
<1> DEFINE N == n - 2
           G == [i \in 1 .. N - 1 |-> [v \in 1 .. N |-> IF s[i + 1] >= edge THEN v ELSE i]]
           h(f) == [i \in Analysis!Interior(n) |->
                      IF i + 2 < n /\ s[i + 1] >= edge THEN f[i + 1] ELSE i]
           u == CHOOSE f : f = h(f)
<1>1. N \in Nat \ {0} /\ Analysis!Interior(n) = 1 .. N /\ s \in [1 .. N -> Nat] /\ mid \in 1 .. N
      /\ \A i \in 1 .. N : i + 2 < n <=> i < N
  BY DEF Analysis!Interior
<1>2. PICK f : Ascends(f, N, N, G)
  <2>1. N \in 1 .. N /\ \A i \in 1 .. N - 1 : i \in 1 .. N
    BY <1>1
  <2>2. G \in [1 .. N - 1 -> [1 .. N -> 1 .. N]]
    <3> HIDE DEF N
    <3> QED
      BY <2>1
  <2> HIDE DEF N, G
  <2> QED
    BY <1>1, <2>1, <2>2, AscentExists
<1>3. f = h(f)
  <2>1. /\ f \in [1 .. N -> 1 .. N] /\ f[N] = N
        /\ \A i \in 1 .. N - 1 : f[i] = G[i][f[i + 1]]
    BY <1>2 DEF Ascends
  <2>2. ASSUME NEW i \in 1 .. N - 1
        PROVE  f[i] = IF s[i + 1] >= edge THEN f[i + 1] ELSE i
    <3>1. f[i] = G[i][f[i + 1]]
      BY <2>1
    <3>2. i + 1 \in 1 .. N
      BY <1>1
    <3>3. f[i + 1] \in 1 .. N
      BY <2>1, <3>2
    <3>4. \A v \in 1 .. N : G[i][v] = IF s[i + 1] >= edge THEN v ELSE i
      OBVIOUS
    <3> QED
      BY <3>1, <3>3, <3>4
  <2>3. \A i \in 1 .. N : (i = N /\ ~(i < N)) \/ (i \in 1 .. N - 1 /\ i < N)
    BY <1>1
  <2>4. \A i \in 1 .. N : f[i] = h(f)[i]
    BY <1>1, <2>1, <2>2, <2>3
  <2> QED
    BY <1>1, <2>1, <2>4
<1>4. u = h(u)
  BY <1>3
<1>5. Analysis!Up(s, n, mid, edge) = u[mid]
  BY DEF Analysis!Up
<1> HIDE DEF u, N
<1>6. u[N] = N /\ \A i \in 1 .. N - 1 : u[i] = IF s[i + 1] >= edge THEN u[i + 1] ELSE i
  <2>1. \A i \in 1 .. N : u[i] = h(u)[i]
    BY <1>4
  <2>2. N \in 1 .. N /\ ~(N < N) /\ \A i \in 1 .. N - 1 : i \in 1 .. N /\ i < N
    BY <1>1
  <2> QED
    BY <1>1, <2>1, <2>2
<1> DEFINE Stops(i) == /\ u[i] \in i .. N /\ Reaches(s, i + 1, u[i], edge)
                       /\ u[i] < N => s[u[i] + 1] < edge
           S == {k \in 0 .. N - 1 : Stops(N - k)}
<1>7. 0 \in S
  BY <1>1, <1>6 DEF Reaches
<1>8. ASSUME NEW k \in 1 .. N - 1, k - 1 \in S
      PROVE  k \in S
  <2> DEFINE i == N - k
  <2>1. i \in 1 .. N - 1 /\ N - (k - 1) = i + 1 /\ k \in 0 .. N - 1 /\ s[i + 1] \in Nat
    BY <1>1
  <2>2. Stops(i + 1)
    BY <1>8, <2>1
  <2>3. u[i] = IF s[i + 1] >= edge THEN u[i + 1] ELSE i
    BY <1>6, <2>1
  <2> HIDE DEF i
  <2>4. Stops(i)
    <3>1. CASE s[i + 1] >= edge
      <4>1. \A m \in i + 1 .. u[i + 1] : m \in (i + 1) + 1 .. u[i + 1] \/ m = i + 1
        BY <2>1, <2>2
      <4>2. Reaches(s, i + 1, u[i + 1], edge)
        BY <2>2, <3>1, <4>1 DEF Reaches
      <4>3. u[i + 1] \in i .. N
        BY <2>1, <2>2
      <4> QED
        BY <2>2, <2>3, <3>1, <4>2, <4>3
    <3>2. CASE ~(s[i + 1] >= edge)
      BY <1>1, <2>1, <2>3, <3>2 DEF Reaches
    <3> QED
      BY <3>1, <3>2
  <2> QED
    BY <2>1, <2>4 DEF i
<1>9. N - mid \in S
  <2>1. N - 1 \in Nat /\ N - mid \in 0 .. N - 1
    BY <1>1
  <2> QED
    BY <1>7, <1>8, <2>1, CountUp
<1>10. N - (N - mid) = mid
  BY <1>1
<1>11. N = n - 2
  BY DEF N
<1> QED
  BY <1>1, <1>5, <1>9, <1>10, <1>11

\* The slopes.
LEMMA SlopesAre ==
  ASSUME NEW n \in Nat, n >= 3, NEW r \in [0 .. n - 1 -> Nat]
  PROVE  LET s == Analysis!Slopes(r, n) IN
         /\ s \in [Analysis!Interior(n) -> Nat]
         /\ \A i \in Analysis!Interior(n) : s[i] = Analysis!Slope(r, i)
<1> DEFINE s == Analysis!Slopes(r, n)
<1>1. \A i \in Analysis!Interior(n) : s[i] = Analysis!iabs(r[i + 1] - r[i - 1])
  BY DEF Analysis!Slopes
<1>2. s = [i \in Analysis!Interior(n) |-> s[i]]
  BY DEF Analysis!Slopes
<1> HIDE DEF s
<1>3. ASSUME NEW i \in Analysis!Interior(n)
      PROVE  s[i] = Analysis!Slope(r, i) /\ s[i] \in Nat
  <2>1. i + 1 \in 0 .. n - 1 /\ i - 1 \in 0 .. n - 1
    BY DEF Analysis!Interior
  <2>2. r[i + 1] \in Nat /\ r[i - 1] \in Nat
    BY <2>1
  <2> QED
    BY <1>1, <2>2 DEF Analysis!iabs, Analysis!Slope
<1>4. s \in [Analysis!Interior(n) -> Nat]
  BY <1>2, <1>3
<1> QED
  BY <1>3, <1>4 DEF s

\* Whatever the curve, up to the most points that wirecal_analyze() looks at: what its
\* loops (wirecal_analyze.c:25-39) answer is the transition by its definition, at either
\* end of the curve, in either direction, still open at the last point or not.
THEOREM TransitionIsFound ==
  ASSUME NEW n \in 0 .. Analysis!MAX_POINTS, NEW r \in [0 .. n - 1 -> Nat]
  PROVE  Analysis!FindsTransition(r, n)
<1> DEFINE a    == Analysis!wirecal_analyze(r, n)
           s    == Analysis!Slopes(r, n)
           mid  == Analysis!Steepest(s, n)
           edge == s[mid] \div Analysis!EDGE_FRACTION
           lo   == Analysis!Down(s, n, mid, edge)
           hi   == Analysis!Up(s, n, mid, edge)
           Steep(i) == Analysis!Slope(r, i) * 1000 >= Analysis!Cold(r) * Analysis!PEAK_MIN_PERMILLE
<1>1. n \in Nat /\ ~(n > Analysis!MAX_POINTS)
  BY DEF Analysis!MAX_POINTS
<1>2. CASE n < Analysis!MIN_POINTS
  <2>1. a.status = "WC_TOO_FEW"
    BY <1>2 DEF Analysis!wirecal_analyze
  <2>2. ~(n >= Analysis!MIN_POINTS)
    BY <1>1, <1>2 DEF Analysis!MIN_POINTS
  <2> QED
    BY <1>2, <2>1, <2>2 DEF Analysis!FindsTransition
<1>3. CASE ~(n < Analysis!MIN_POINTS)
  <2>1. n >= 8 /\ n >= Analysis!MIN_POINTS
    BY <1>1, <1>3 DEF Analysis!MIN_POINTS
  <2>2. /\ s \in [Analysis!Interior(n) -> Nat]
        /\ \A i \in Analysis!Interior(n) : s[i] = Analysis!Slope(r, i)
    <3>1. n \in Nat /\ n >= 3
      BY <1>1, <2>1
    <3> QED
      BY <3>1, SlopesAre
  <2>3. mid \in Analysis!Interior(n) /\ \A i \in Analysis!Interior(n) : s[mid] >= s[i]
    BY <1>1, <2>1, <2>2, SteepestIs
  <2>4. s[mid] \in Nat /\ edge \in Nat /\ edge <= s[mid]
    <3>1. s[mid] \in Nat
      BY <2>2, <2>3
    <3> QED
      BY <3>1 DEF Analysis!EDGE_FRACTION
  <2>5. lo \in 1 .. mid /\ Reaches(s, lo, mid - 1, edge) /\ (lo > 1 => s[lo - 1] < edge)
    <3> HIDE DEF s, mid, edge
    <3> QED
      BY <1>1, <2>1, <2>2, <2>3, <2>4, DownIs
  <2>6. hi \in mid .. n - 2 /\ Reaches(s, mid + 1, hi, edge) /\ (hi < n - 2 => s[hi + 1] < edge)
    <3> HIDE DEF s, mid, edge
    <3> QED
      BY <1>1, <2>1, <2>2, <2>3, <2>4, UpIs
  <2>7. Analysis!Cold(r) \in Nat
    <3>1. r[0] \in Nat /\ r[1] \in Nat /\ r[2] \in Nat
      BY <2>1
    <3> QED
      BY <3>1 DEF Analysis!Cold
  <2>8. (s[mid] * 1000 < Analysis!Cold(r) * Analysis!PEAK_MIN_PERMILLE)
          <=> \A i \in Analysis!Interior(n) : ~Steep(i)
    <3>1. \A i \in Analysis!Interior(n) : s[i] = Analysis!Slope(r, i) /\ s[mid] >= s[i] /\ s[i] \in Nat
      BY <2>2, <2>3
    <3> HIDE DEF s, mid
    <3> QED
      BY <2>3, <2>4, <2>7, <3>1 DEF Analysis!PEAK_MIN_PERMILLE
  <2>9. a = IF s[mid] * 1000 < Analysis!Cold(r) * Analysis!PEAK_MIN_PERMILLE
              THEN [status |-> "WC_NO_TRANSITION"] ELSE Analysis!Found(r, s, n, mid)
    BY <1>1, <1>3 DEF Analysis!wirecal_analyze
  <2>10. CASE \A i \in Analysis!Interior(n) : ~Steep(i)
    <3>1. a.status = "WC_NO_TRANSITION"
      BY <2>8, <2>9, <2>10
    <3> HIDE DEF a
    <3> QED
      BY <1>3, <2>1, <2>10, <3>1 DEF Analysis!FindsTransition, a
  <2>11. CASE ~ \A i \in Analysis!Interior(n) : ~Steep(i)
    <3> DEFINE open == hi + 2 = n /\ s[hi] >= edge
               last == IF a.open THEN n - 2 ELSE a.full
    <3>1. a = Analysis!Found(r, s, n, mid)
      BY <2>8, <2>9, <2>11
    <3>2. /\ a.status = "WC_OK" /\ a.mid = mid /\ a.onset = lo /\ a.open = open
          /\ a.full = IF open THEN n - 1 ELSE hi
      BY <3>1 DEF Analysis!Found
    <3> HIDE DEF a, s, mid, edge, lo, hi
    <3>3. last = hi /\ (open <=> hi = n - 2)
      <4>1. s[hi] >= edge
        <5>1. CASE hi = mid
          BY <2>4, <5>1
        <5>2. CASE hi # mid
          <6>1. hi \in mid + 1 .. hi
            BY <2>3, <2>6, <5>2 DEF Analysis!Interior
          <6> QED
            BY <2>6, <6>1 DEF Reaches
        <5> QED
          BY <5>1, <5>2
      <4>2. open <=> hi = n - 2
        BY <1>1, <2>3, <2>6, <4>1 DEF Analysis!Interior
      <4> QED
        BY <2>6, <3>2, <4>2
    <3>4. Analysis!IsPeak(r, n, mid)
      BY <2>2, <2>3 DEF Analysis!IsPeak
    <3>5. edge = Analysis!Slope(r, mid) \div Analysis!EDGE_FRACTION
      BY <2>2, <2>3 DEF edge
    <3>6. /\ mid \in 1 .. n - 2 /\ lo \in 1 .. mid /\ hi \in mid .. n - 2
          /\ \A i \in 1 .. n - 2 : s[i] = Analysis!Slope(r, i) /\ s[i] \in Nat
      BY <2>2, <2>3, <2>5, <2>6 DEF Analysis!Interior
    <3>7. Analysis!Moving(r, mid, lo, hi)
      <4>1. ASSUME NEW i \in lo .. hi
            PROVE  s[i] >= edge /\ i \in 1 .. n - 2
        <5>1. i \in 1 .. n - 2 /\ (i \in lo .. mid - 1 \/ i = mid \/ i \in mid + 1 .. hi)
          BY <1>1, <3>6
        <5> QED
          BY <2>4, <2>5, <2>6, <5>1 DEF Reaches
      <4> QED
        BY <3>5, <3>6, <4>1 DEF Analysis!Moving
    <3>8. lo > 1 => ~Analysis!Moving(r, mid, lo - 1, lo - 1)
      <4> SUFFICES ASSUME lo > 1 PROVE ~Analysis!Moving(r, mid, lo - 1, lo - 1)
        OBVIOUS
      <4>1. lo - 1 \in lo - 1 .. lo - 1 /\ lo - 1 \in 1 .. n - 2
        BY <1>1, <3>6
      <4>2. s[lo - 1] < edge /\ s[lo - 1] = Analysis!Slope(r, lo - 1) /\ s[lo - 1] \in Nat
        BY <2>5, <3>6, <4>1
      <4> QED
        BY <2>4, <3>5, <4>1, <4>2 DEF Analysis!Moving
    <3>9. hi < n - 2 => ~Analysis!Moving(r, mid, hi + 1, hi + 1)
      <4> SUFFICES ASSUME hi < n - 2 PROVE ~Analysis!Moving(r, mid, hi + 1, hi + 1)
        OBVIOUS
      <4>1. hi + 1 \in hi + 1 .. hi + 1 /\ hi + 1 \in 1 .. n - 2
        BY <1>1, <3>6
      <4>2. s[hi + 1] < edge /\ s[hi + 1] = Analysis!Slope(r, hi + 1) /\ s[hi + 1] \in Nat
        BY <2>6, <3>6, <4>1
      <4> QED
        BY <2>4, <3>5, <4>1, <4>2 DEF Analysis!Moving
    <3>10. mid \in lo .. hi
      BY <1>1, <3>6
    <3>11. ~(n >= Analysis!MIN_POINTS /\ \A i \in Analysis!Interior(n) : ~Steep(i))
      BY <2>11
    <3> QED
      BY <1>3, <3>2, <3>3, <3>4, <3>7, <3>8, <3>9, <3>10, <3>11 DEF Analysis!FindsTransition, a
  <2> QED
    BY <2>10, <2>11
<1> QED
  BY <1>2, <1>3

-----------------------------------------------------------------------------
USE WireAssumption, CalibrationAssumption

-----------------------------------------------------------------------------
(***************************************************************************)
(* The scheduler's queue.                                                  *)
(***************************************************************************)
Names == {"begin", "timeout", "report", "drain"}

\* An action waits at most once.
Queue(q) == q \in Seq(Names) /\ \A i, j \in 1 .. Len(q) : q[i] = q[j] => i = j

\* drain() comes before step_begin_measure().
DrainFirst(q) == \E i, j \in 1 .. Len(q) : i < j /\ q[i] = "drain" /\ q[j] = "begin"

LEMMA Appending ==
  ASSUME NEW q, Queue(q), NEW a \in Names, ~Contains(q, a)
  PROVE  LET r == Append(q, a) IN
         /\ Queue(r)
         /\ \A b : Contains(r, b) <=> Contains(q, b) \/ b = a
         /\ DrainFirst(q) => DrainFirst(r)
         /\ a = "begin" /\ Contains(q, "drain") => DrainFirst(r)
<1> DEFINE r == Append(q, a)
<1>1. /\ r \in Seq(Names) /\ Len(r) = Len(q) + 1 /\ Len(q) \in Nat /\ r[Len(q) + 1] = a
      /\ \A i \in 1 .. Len(q) : r[i] = q[i]
  BY DEF Queue
<1> HIDE DEF r
<1>2. \A i \in 1 .. Len(q) : q[i] # a
  BY DEF Contains
<1>3. Queue(r)
  BY <1>1, <1>2 DEF Queue
<1>4. ASSUME NEW b
      PROVE  Contains(r, b) <=> Contains(q, b) \/ b = a
  <2>1. Len(q) + 1 \in 1 .. Len(r) /\ \A i \in 1 .. Len(q) : i \in 1 .. Len(r)
    BY <1>1
  <2>2. \A i \in 1 .. Len(r) : i \in 1 .. Len(q) \/ i = Len(q) + 1
    BY <1>1
  <2> QED
    BY <1>1, <2>1, <2>2 DEF Contains
<1>5. DrainFirst(q) => DrainFirst(r)
  BY <1>1 DEF DrainFirst
<1>6. a = "begin" /\ Contains(q, "drain") => DrainFirst(r)
  BY <1>1 DEF DrainFirst, Contains
<1> QED
  BY <1>3, <1>4, <1>5, <1>6 DEF r

LEMMA Popping ==
  ASSUME NEW q, Queue(q), q # <<>>
  PROVE  LET r == Tail(q) IN
         /\ Queue(r) /\ Head(q) \in Names
         /\ \A b : Contains(r, b) <=> Contains(q, b) /\ b # Head(q)
         /\ Contains(q, Head(q))
         /\ DrainFirst(q) /\ Head(q) # "drain" => DrainFirst(r)
         /\ Head(q) = "begin" => ~DrainFirst(q)
<1> DEFINE r == Tail(q)
<1>1. /\ r \in Seq(Names) /\ Len(q) \in Nat \ {0} /\ Len(r) = Len(q) - 1 /\ Head(q) = q[1]
      /\ \A i \in 1 .. Len(r) : r[i] = q[i + 1]
  BY DEF Queue
<1> HIDE DEF r
<1>2. \A i \in 2 .. Len(q) : q[i] = r[i - 1]
  BY <1>1
<1>3. Queue(r)
  BY <1>1 DEF Queue
<1>4. Head(q) \in Names /\ Contains(q, Head(q))
  BY <1>1 DEF Queue, Contains
<1>5. ASSUME NEW b
      PROVE  Contains(r, b) <=> Contains(q, b) /\ b # Head(q)
  <2>1. ASSUME Contains(r, b) PROVE Contains(q, b) /\ b # Head(q)
    <3>1. PICK i \in 1 .. Len(r) : r[i] = b
      BY <2>1 DEF Contains
    <3>2. i + 1 \in 1 .. Len(q) /\ i + 1 # 1 /\ q[i + 1] = b
      BY <1>1, <3>1
    <3> QED
      BY <1>1, <3>2 DEF Queue, Contains
  <2>2. ASSUME Contains(q, b), b # Head(q) PROVE Contains(r, b)
    <3>1. PICK i \in 1 .. Len(q) : q[i] = b
      BY <2>2 DEF Contains
    <3>2. i # 1
      BY <1>1, <2>2, <3>1
    <3> QED
      BY <1>1, <1>2, <3>1, <3>2 DEF Contains
  <2> QED
    BY <2>1, <2>2
<1>6. DrainFirst(q) /\ Head(q) # "drain" => DrainFirst(r)
  <2> SUFFICES ASSUME DrainFirst(q), Head(q) # "drain" PROVE DrainFirst(r)
    OBVIOUS
  <2>1. PICK i, j \in 1 .. Len(q) : i < j /\ q[i] = "drain" /\ q[j] = "begin"
    BY DEF DrainFirst
  <2>2. i # 1 /\ j # 1
    BY <1>1, <2>1
  <2>3. i - 1 \in 1 .. Len(r) /\ j - 1 \in 1 .. Len(r) /\ i - 1 < j - 1
    BY <1>1, <2>1, <2>2
  <2>4. r[i - 1] = "drain" /\ r[j - 1] = "begin"
    BY <1>2, <2>1, <2>2
  <2> QED
    BY <2>3, <2>4 DEF DrainFirst
<1>7. Head(q) = "begin" => ~DrainFirst(q)
  BY <1>1 DEF DrainFirst, Queue
<1> QED
  BY <1>3, <1>4, <1>5, <1>6, <1>7 DEF r

\* stop() takes an action out, and only that.
LEMMA Removing ==
  ASSUME NEW q, Queue(q), NEW a
  PROVE  LET r == RemoveFirst(q, a) IN
         Queue(r) /\ \A b : Contains(r, b) <=> Contains(q, b) /\ b # a
<1> DEFINE r == RemoveFirst(q, a)
<1>1. CASE ~Contains(q, a)
  <2>1. r = q
    BY <1>1 DEF RemoveFirst, Contains
  <2> QED
    BY <1>1, <2>1
<1>2. CASE Contains(q, a)
  <2> DEFINE S == {i \in 1 .. Len(q) : q[i] = a}
             m == Min(S)
             x == SubSeq(q, 1, m - 1)
             y == SubSeq(q, m + 1, Len(q))
  <2>1. Len(q) \in Nat /\ S \in SUBSET Nat /\ S # {} /\ q \in Seq(Names)
    BY <1>2 DEF Contains, Queue
  <2>2. m \in 1 .. Len(q) /\ q[m] = a
    <3>1. m \in S
      BY <2>1, MinFacts
    <3> QED
      BY <3>1
  <2>3. r = x \o y
    BY <1>2, <2>1 DEF RemoveFirst, RemoveAt, SelectInSeq, Contains
  <2> HIDE DEF m, S
  <2>4. /\ x \in Seq(Names) /\ Len(x) = m - 1 /\ \A i \in 1 .. m - 1 : x[i] = q[i]
    BY <2>1, <2>2
  <2>5. /\ y \in Seq(Names) /\ Len(y) = Len(q) - m /\ \A i \in 1 .. Len(q) - m : y[i] = q[i + m]
    BY <2>1, <2>2
  <2> HIDE DEF x, y, r
  <2>6. r \in Seq(Names) /\ Len(r) = Len(q) - 1
        /\ \A i \in 1 .. Len(r) : r[i] = IF i < m THEN q[i] ELSE q[i + 1]
    <3>1. x \in Seq(Names) /\ y \in Seq(Names)
      BY <2>4, <2>5
    <3>2. /\ x \o y \in Seq(Names) /\ Len(x \o y) = Len(x) + Len(y)
          /\ \A i \in 1 .. Len(x) + Len(y) :
               (x \o y)[i] = IF i <= Len(x) THEN x[i] ELSE y[i - Len(x)]
      BY ONLY <3>1
    <3>3. r \in Seq(Names) /\ Len(r) = Len(q) - 1
      BY <2>1, <2>2, <2>3, <2>4, <2>5, <3>2
    <3>4. ASSUME NEW i \in 1 .. Len(r)
          PROVE  r[i] = IF i < m THEN q[i] ELSE q[i + 1]
      <4>1. i \in 1 .. Len(x) + Len(y) /\ Len(x) = m - 1 /\ m \in Nat /\ i \in Nat
        BY <2>1, <2>2, <2>4, <2>5, <3>3
      <4>2. r[i] = IF i <= Len(x) THEN x[i] ELSE y[i - Len(x)]
        BY <2>3, <3>2, <4>1
      <4>3. CASE i < m
        BY <2>4, <4>1, <4>2, <4>3
      <4>4. CASE ~(i < m)
        <5>1. i - Len(x) \in 1 .. Len(q) - m /\ (i - Len(x)) + m = i + 1 /\ ~(i <= Len(x))
          BY <2>1, <2>2, <2>4, <3>3, <4>1, <4>4
        <5> QED
          BY <2>5, <4>2, <4>4, <5>1
      <4> QED
        BY <4>3, <4>4
    <3> QED
      BY <3>3, <3>4
  <2>7. Queue(r)
    <3> DEFINE f(i) == IF i < m THEN i ELSE i + 1
    <3>1. \A i \in 1 .. Len(r) : f(i) \in 1 .. Len(q) /\ r[i] = q[f(i)]
      BY <2>1, <2>2, <2>6
    <3>2. \A i, j \in 1 .. Len(r) : f(i) = f(j) => i = j
      BY <2>1, <2>2, <2>6
    <3> HIDE DEF f
    <3>3. ASSUME NEW i \in 1 .. Len(r), NEW j \in 1 .. Len(r), r[i] = r[j]
          PROVE  i = j
      BY <3>1, <3>2, <3>3, SMTT(20) DEF Queue
    <3> QED
      BY <2>6, <3>3 DEF Queue
  <2>8. ASSUME NEW b
        PROVE  Contains(r, b) <=> Contains(q, b) /\ b # a
    <3>1. ASSUME Contains(r, b) PROVE Contains(q, b) /\ b # a
      <4>1. PICK i \in 1 .. Len(r) : r[i] = b
        BY <3>1 DEF Contains
      <4> DEFINE j == IF i < m THEN i ELSE i + 1
      <4>2. j \in 1 .. Len(q) /\ j # m /\ q[j] = b
        BY <2>1, <2>2, <2>6, <4>1
      <4> QED
        BY <2>2, <4>2 DEF Queue, Contains
    <3>2. ASSUME Contains(q, b), b # a PROVE Contains(r, b)
      <4>1. PICK i \in 1 .. Len(q) : q[i] = b
        BY <3>2 DEF Contains
      <4> DEFINE j == IF i < m THEN i ELSE i - 1
      <4>2. i # m
        BY <2>2, <3>2, <4>1
      <4>3. j \in 1 .. Len(r) /\ r[j] = b
        BY <2>1, <2>2, <2>6, <4>1, <4>2
      <4> QED
        BY <4>3 DEF Contains
    <3> QED
      BY <3>1, <3>2
  <2> QED
    BY <2>7, <2>8 DEF r
<1> QED
  BY <1>1, <1>2

-----------------------------------------------------------------------------
(***************************************************************************)
(* The invariant of the run.                                               *)
(***************************************************************************)
Tables   == [Table!Channels -> 0 .. WC_MAX_PCT]
Readouts == [ch : Table!Channels, pct : 0 .. WC_MAX_PCT, alone : BOOLEAN]

TableType ==
  /\ fitted \in SUBSET Table!Limbs /\ act \in Tables
  /\ driven \in [fitted : SUBSET Table!Limbs, act : Tables]

RunType ==
  /\ state \in {"IDLE", "REST", "SETTLE", "MEASURE"}
  /\ ch \in Table!Channels /\ cur_pct \in 0 .. WC_MAX_PCT /\ npts \in 0 .. WC_MAX_POINTS
  /\ samples \in Seq(Readouts) /\ Len(samples) <= WC_SAMPLES

CaptureType ==
  /\ ring \in Seq(Readouts) /\ Len(ring) < RING
  /\ monitoring \in BOOLEAN /\ draining \in BOOLEAN

\* An action waits in one place only.
QueueType ==
  /\ timed \in SUBSET {"begin", "timeout", "report"} /\ Queue(ready)
  /\ \A a \in timed : ~Contains(ready, a)
  /\ Queued("report") => monitoring

TimersInv ==
  /\ Queued("begin") <=> state \in {"REST", "SETTLE"}
  /\ Queued("timeout") <=> state = "MEASURE"

\* While a run is on, its wire is at rest or at the step's activation, and
\* its limb is the only one.
SteadyInv ==
  /\ state = "IDLE" => fitted = FITTED
  /\ state # "IDLE" =>
       /\ saved_fitted = FITTED
       /\ fitted = {Table!LimbOf(ch)} /\ act[ch] \in {0, cur_pct}

Settled == state = "SETTLE" /\ Contains(ready, "begin")

DrivenInv ==
  Settled \/ state = "MEASURE" =>
    driven.fitted = {Table!LimbOf(ch)} /\ driven.act[ch] \in {0, cur_pct}

\* A reading of the wire under test is one of the present step.
Fits(r) == r.ch = ch => r.pct = cur_pct /\ r.alone
RingFits == \A i \in 1 .. Len(ring) : Fits(ring[i])

RingInv ==
  /\ ring # <<>> => draining \/ Contains(ready, "drain")
  /\ Settled => RingFits \/ draining \/ DrainFirst(ready)
  /\ state = "MEASURE" => RingFits

SamplesInv ==
  state = "MEASURE" =>
    \A i \in 1 .. Len(samples) :
      samples[i].ch = ch /\ samples[i].pct = cur_pct /\ samples[i].alone

RunInv ==
  /\ TableType /\ RunType /\ CaptureType /\ QueueType
  /\ TimersInv /\ SteadyInv /\ DrivenInv /\ RingInv /\ SamplesInv

-----------------------------------------------------------------------------
(***************************************************************************)
(* The table, and what the end of a run and the start of a step do.        *)
(***************************************************************************)
LEMMA Channel ==
  ASSUME NEW c \in Table!Channels
  PROVE  Table!LimbOf(c) \in Table!Limbs
BY DEF Table!LimbOf, Table!Limbs, Table!Channels, Table!MUSCLE_PER_LIMB

LEMMA ChannelZero == 0 \in Table!Channels
BY DEF Table!Channels, Table!MUSCLE_PER_LIMB

LEMMA RelaxedTable == Table!Relaxed \in Tables /\ \A c \in Table!Channels : Table!Relaxed[c] = 0
BY DEF Table!Relaxed, Tables

LEMMA ActivatedTable ==
  ASSUME NEW a \in Tables, NEW c \in Table!Channels, NEW pct \in 0 .. WC_MAX_PCT
  PROVE  Table!Activate(a, c, pct) \in Tables /\ Table!Activate(a, c, pct)[c] = pct
BY DEF Table!Activate, Tables

LEMMA RefittedTable ==
  ASSUME NEW a \in Tables, NEW c \in Table!Channels, NEW mask, Table!LimbOf(c) \in mask
  PROVE  Table!Refit(a, mask) \in Tables /\ Table!Refit(a, mask)[c] = a[c]
BY DEF Table!Refit, Tables

LEMMA Finishing ==
  ASSUME RunInv, finish, driven' = driven, CaptureType', monitoring' = monitoring, state # "IDLE",
         ring' # <<>> => draining' \/ Contains(ready, "drain")
  PROVE  RunInv'
<1> DEFINE q == RemoveFirst(ready, "begin")
<1>1. Queue(q) /\ \A b : Contains(q, b) <=> Contains(ready, b) /\ b # "begin"
  BY Removing DEF RunInv, QueueType
<1>2. ready' = RemoveFirst(q, "timeout")
  BY DEF finish
<1> HIDE DEF q
<1>3. Queue(ready') /\ \A b : Contains(ready', b) <=> Contains(q, b) /\ b # "timeout"
  BY <1>1, <1>2, Removing
<1>4. timed' = timed \ {"begin", "timeout"} /\ state' = "IDLE"
  BY DEF finish, Stopped
<1>5. QueueType' /\ TimersInv'
  BY <1>1, <1>3, <1>4 DEF RunInv, QueueType, TimersInv, Queued
<1>6. TableType' /\ SteadyInv'
  BY <1>4, RelaxedTable DEF RunInv, TableType, SteadyInv, finish
<1>7. RunType'
  <2>1. ch' = 0 /\ cur_pct' = 0 /\ npts' = 0 /\ samples' = <<>>
    BY DEF finish, NothingLeft
  <2> QED
    BY <1>4, <2>1, ChannelZero DEF RunType
<1>8. DrivenInv' /\ RingInv' /\ SamplesInv'
  BY <1>1, <1>3, <1>4 DEF DrivenInv, RingInv, SamplesInv, Settled
<1> QED
  BY <1>5, <1>6, <1>7, <1>8 DEF RunInv

LEMMA Settling ==
  ASSUME RunInv, state # "IDLE", NEW pct \in 0 .. WC_MAX_PCT, Settle(pct),
         driven' = driven, CaptureType', monitoring' = monitoring, npts' \in 0 .. WC_MAX_POINTS,
         Queue(ready'), ~Contains(ready', "begin"), ~Contains(ready', "timeout"),
         \A b : Contains(ready', b) => Contains(ready, b),
         ring' # <<>> => draining' \/ Contains(ready', "drain")
  PROVE  RunInv'
<1>1. /\ state' = "SETTLE" /\ cur_pct' = pct /\ ch' = ch /\ samples' = <<>>
      /\ timed' = (timed \ {"timeout"}) \cup {"begin"}
      /\ fitted' = fitted /\ saved_fitted' = saved_fitted /\ act' = Driving(pct)
  BY DEF Settle
<1>2. Table!LimbOf(ch) \in fitted /\ ch \in Table!Channels /\ act \in Tables
  BY DEF RunInv, SteadyInv, RunType, TableType
<1>3. act' \in Tables /\ act'[ch] = pct
  BY <1>1, <1>2, ActivatedTable DEF Driving
<1>4. TableType' /\ SteadyInv'
  BY <1>1, <1>3 DEF RunInv, TableType, SteadyInv
<1>5. RunType'
  BY <1>1, <1>2 DEF RunType
<1>6. QueueType' /\ TimersInv'
  BY <1>1 DEF RunInv, QueueType, TimersInv, Queued
<1>7. DrivenInv' /\ RingInv' /\ SamplesInv'
  BY <1>1 DEF DrivenInv, RingInv, SamplesInv, Settled
<1> QED
  BY <1>4, <1>5, <1>6, <1>7 DEF RunInv

-----------------------------------------------------------------------------
(***************************************************************************)
(* Each action keeps the invariant of the run.                             *)
(***************************************************************************)
LEMMA TimerKeeps ==
  ASSUME RunInv, NEW a \in timed, TimerFires(a)
  PROVE  RunInv'
<1>1. a \in {"begin", "timeout", "report"} /\ ~Contains(ready, a) /\ Queue(ready)
  BY DEF RunInv, QueueType
<1>2. /\ timed' = timed \ {a} /\ ready' = Append(ready, a)
      /\ driven = [fitted |-> fitted, act |-> act]
      /\ UNCHANGED <<table, driven, run, capture>>
  BY DEF TimerFires
<1>3. /\ Queue(ready')
      /\ \A b : Contains(ready', b) <=> Contains(ready, b) \/ b = a
      /\ DrainFirst(ready) => DrainFirst(ready')
      /\ a = "begin" /\ Contains(ready, "drain") => DrainFirst(ready')
  BY <1>1, <1>2, Appending DEF Names
<1>4. TableType' /\ RunType' /\ CaptureType' /\ SteadyInv' /\ SamplesInv'
  BY <1>2 DEF RunInv, TableType, RunType, CaptureType, SteadyInv, SamplesInv, table, run, capture
<1>5. QueueType' /\ TimersInv'
  BY <1>1, <1>2, <1>3 DEF RunInv, QueueType, TimersInv, Queued, run, capture
<1>6. /\ fitted' = fitted /\ driven' = driven /\ state' = state /\ ch' = ch /\ cur_pct' = cur_pct
      /\ ring' = ring /\ draining' = draining
  BY <1>2 DEF table, run, capture
<1>7. DrivenInv'
  <2>1. CASE state = "IDLE"
    BY <1>6, <2>1 DEF DrivenInv, Settled
  <2>2. CASE state # "IDLE"
    <3>1. driven.fitted = {Table!LimbOf(ch)} /\ driven.act[ch] \in {0, cur_pct}
      BY <1>2, <2>2 DEF RunInv, SteadyInv
    <3> QED
      BY <1>6, <3>1 DEF DrivenInv
  <2> QED
    BY <2>1, <2>2
<1>8. RingInv'
  <2>1. ring' # <<>> => draining' \/ Contains(ready', "drain")
    BY <1>3, <1>6 DEF RunInv, RingInv
  <2>2. RingFits' <=> RingFits
    BY <1>6 DEF RingFits, Fits
  <2>3. ring = <<>> => RingFits
    BY DEF RingFits
  <2>4. Settled' => RingFits' \/ draining' \/ DrainFirst(ready')
    <3>1. CASE a = "begin"
      BY <1>3, <1>6, <2>2, <2>3, <3>1 DEF RunInv, RingInv
    <3>2. CASE a # "begin"
      BY <1>3, <1>6, <2>2, <3>2 DEF RunInv, RingInv, Settled
    <3> QED
      BY <3>1, <3>2
  <2> QED
    BY <1>6, <2>1, <2>2, <2>4 DEF RunInv, RingInv
<1> QED
  BY <1>4, <1>5, <1>7, <1>8 DEF RunInv

LEMMA FrameKeeps ==
  ASSUME RunInv, FrameAdopts
  PROVE  RunInv'
<1>1. driven' = [fitted |-> fitted, act |-> act] /\ UNCHANGED <<table, run, capture, queues>>
  BY DEF FrameAdopts
<1>2. TableType'
  BY <1>1 DEF RunInv, TableType, table
<1>3. RunType' /\ CaptureType' /\ SteadyInv' /\ SamplesInv'
  BY <1>1 DEF RunInv, RunType, CaptureType, SteadyInv, SamplesInv, table, run, capture
<1>4. QueueType' /\ TimersInv' /\ RingInv'
  BY <1>1 DEF RunInv, QueueType, TimersInv, RingInv, Queued, RingFits, Fits, Settled, run, capture,
              queues
<1>5. DrivenInv'
  <2>1. state' = state /\ ch' = ch /\ cur_pct' = cur_pct
    BY <1>1 DEF run
  <2>2. CASE state = "IDLE"
    BY <2>1, <2>2 DEF DrivenInv, Settled
  <2>3. CASE state # "IDLE"
    BY <1>1, <2>1, <2>3 DEF RunInv, SteadyInv, DrivenInv
  <2> QED
    BY <2>2, <2>3
<1> QED
  BY <1>2, <1>3, <1>4, <1>5 DEF RunInv

LEMMA SampleKeeps ==
  ASSUME RunInv, NEW c \in Table!Channels, on_sample(c)
  PROVE  RunInv'
<1>1. /\ driven.act[c] > 0 /\ Wanted(c) /\ Len(ring) < RING - 1 /\ ring' = Append(ring, Reading(c))
      /\ ready' = IF Contains(ready, "drain") THEN ready ELSE Append(ready, "drain")
      /\ UNCHANGED <<table, driven, run, monitoring, draining, timed>>
  BY DEF on_sample, RingOpen
<1>2. /\ Reading(c) \in Readouts /\ Reading(c).ch = c /\ Reading(c).pct = driven.act[c]
      /\ Reading(c).alone = (driven.fitted = {Table!LimbOf(c)})
  BY DEF Reading, Readouts, RunInv, TableType, Tables
<1>3. /\ ring' \in Seq(Readouts) /\ Len(ring') = Len(ring) + 1 /\ ring'[Len(ring) + 1] = Reading(c)
      /\ \A i \in 1 .. Len(ring) : ring'[i] = ring[i]
      /\ Len(ring) \in Nat
  BY <1>1, <1>2 DEF RunInv, CaptureType
<1>4. TableType' /\ RunType' /\ SteadyInv' /\ SamplesInv' /\ DrivenInv' /\ CaptureType'
  <2>1. TableType' /\ RunType' /\ SteadyInv' /\ SamplesInv'
    BY <1>1 DEF RunInv, TableType, RunType, SteadyInv, SamplesInv, table, run
  <2>2. CaptureType'
    BY <1>1, <1>3 DEF RunInv, CaptureType
  <2>3. Contains(ready', "begin") <=> Contains(ready, "begin")
    <3>1. Queue(ready)
      BY DEF RunInv, QueueType
    <3> QED
      BY <1>1, <3>1, Appending DEF Names
  <2>4. DrivenInv'
    BY <1>1, <2>3 DEF RunInv, DrivenInv, Settled, table, run
  <2> QED
    BY <2>1, <2>2, <2>4
<1>5. /\ Queue(ready')
      /\ \A b : Contains(ready', b) <=> Contains(ready, b) \/ b = "drain"
      /\ DrainFirst(ready) => DrainFirst(ready')
  <2>1. Queue(ready) /\ "drain" \in Names
    BY DEF RunInv, QueueType, Names
  <2>2. CASE Contains(ready, "drain")
    BY <1>1, <2>1, <2>2
  <2>3. CASE ~Contains(ready, "drain")
    BY <1>1, <2>1, <2>3, Appending
  <2> QED
    BY <2>2, <2>3
<1>6. QueueType' /\ TimersInv'
  BY <1>1, <1>5 DEF RunInv, QueueType, TimersInv, Queued, run
<1>7. RingInv'
  <2>1. state' = state /\ ch' = ch /\ cur_pct' = cur_pct /\ draining' = draining
    BY <1>1 DEF run
  <2>2. Settled \/ state = "MEASURE" => Fits(Reading(c))
    <3>1. driven.act[c] \in 0 .. WC_MAX_PCT
      BY DEF RunInv, TableType, Tables
    <3>2. ASSUME Settled \/ state = "MEASURE", c = ch
          PROVE  driven.act[c] = cur_pct /\ driven.fitted = {Table!LimbOf(c)}
      <4>1. driven.fitted = {Table!LimbOf(ch)} /\ driven.act[ch] \in {0, cur_pct}
        BY <3>2 DEF RunInv, DrivenInv
      <4> QED
        BY <1>1, <3>1, <3>2, <4>1
    <3> QED
      BY <1>2, <3>2 DEF Fits
  <2>3. RingFits /\ Fits(Reading(c)) => RingFits'
    <3>1. ASSUME RingFits, Fits(Reading(c)), NEW i \in 1 .. Len(ring')
          PROVE  Fits(ring'[i])
      <4>1. ring'[i] = Reading(c) \/ (i \in 1 .. Len(ring) /\ ring'[i] = ring[i])
        BY <1>3
      <4> QED
        BY <3>1, <4>1 DEF RingFits
    <3> QED
      BY <2>1, <3>1 DEF RingFits, Fits
  <2>4. Settled' <=> Settled
    BY <1>5, <2>1 DEF Settled
  <2> QED
    BY <1>5, <2>1, <2>2, <2>3, <2>4 DEF RunInv, RingInv
<1> QED
  BY <1>4, <1>6, <1>7 DEF RunInv

LEMMA DrainKeeps ==
  ASSUME RunInv, drain
  PROVE  RunInv'
<1>1. draining /\ UNCHANGED <<driven, monitoring>>
  BY DEF drain
<1>2. CASE ring = <<>>
  <2>1. draining' = FALSE /\ UNCHANGED <<table, driven, run, ring, monitoring, queues>>
    BY <1>1, <1>2 DEF drain
  <2>2. TableType' /\ RunType' /\ SteadyInv' /\ SamplesInv' /\ CaptureType'
    BY <2>1 DEF RunInv, TableType, RunType, SteadyInv, SamplesInv, CaptureType, table, run
  <2>3. QueueType' /\ TimersInv' /\ DrivenInv'
    BY <2>1 DEF RunInv, QueueType, TimersInv, DrivenInv, Queued, Settled, run, queues
  <2>4. RingInv'
    <3>1. ring' = <<>> /\ RingFits'
      BY <1>2, <2>1 DEF RingFits
    <3> QED
      BY <3>1 DEF RingInv
  <2> QED
    BY <2>2, <2>3, <2>4 DEF RunInv
<1>3. CASE ring # <<>>
  <2> DEFINE r == Head(ring)
  <2>1. ring' = Tail(ring) /\ draining' = TRUE
    BY <1>3 DEF drain
  <2>2. r \in Readouts /\ CaptureType'
    BY <1>1, <1>3, <2>1 DEF RunInv, CaptureType
  <2>3. RingFits => Fits(r) /\ \A i \in 1 .. Len(ring') : Fits(ring'[i])
    <3>1. /\ Len(ring) \in Nat \ {0} /\ r = ring[1] /\ Len(ring') = Len(ring) - 1
          /\ \A i \in 1 .. Len(ring') : ring'[i] = ring[i + 1]
      BY <1>3, <2>1 DEF RunInv, CaptureType
    <3> QED
      BY <3>1 DEF RingFits
  <2> HIDE DEF r
  <2>4. CASE UNCHANGED <<table, run, queues>>
    <3>1. TableType' /\ RunType' /\ SteadyInv' /\ SamplesInv'
      BY <1>1, <2>4 DEF RunInv, TableType, RunType, SteadyInv, SamplesInv, table, run
    <3>2. QueueType' /\ TimersInv' /\ DrivenInv'
      BY <1>1, <2>4 DEF RunInv, QueueType, TimersInv, DrivenInv, Queued, Settled, run, queues
    <3>3. RingInv'
      <4>1. state = "MEASURE" => RingFits'
        BY <2>3, <2>4 DEF RunInv, RingInv, RingFits, Fits, run
      <4> QED
        BY <2>1, <2>4, <4>1 DEF RingInv, run
    <3> QED
      BY <2>2, <3>1, <3>2, <3>3 DEF RunInv
  <2>5. CASE Due(r) /\ take_sample(r)
    <3>1. state = "MEASURE" /\ r.ch = ch
      BY <2>5 DEF Due
    <3>2. CASE finish
      BY <1>1, <2>1, <2>2, <3>1, <3>2, Finishing
    <3>3. CASE ~LastStep(npts + 1) /\ Settle(cur_pct + WC_STEP_PCT) /\ npts' = npts + 1
               /\ ready' = RemoveFirst(ready, "timeout")
      <4>1. cur_pct + WC_STEP_PCT \in 0 .. WC_MAX_PCT /\ npts' \in 0 .. WC_MAX_POINTS
        BY <3>3 DEF LastStep, RunInv, RunType
      <4>2. /\ Queue(ready') /\ ~Contains(ready', "timeout")
            /\ \A b : Contains(ready', b) => Contains(ready, b)
        BY <3>3, Removing DEF RunInv, QueueType
      <4>3. ~Contains(ready', "begin")
        BY <3>1, <4>2 DEF RunInv, TimersInv, Queued
      <4> QED
        BY <1>1, <2>1, <2>2, <3>1, <3>3, <4>1, <4>2, <4>3, Settling
    <3>4. CASE /\ Len(Append(samples, r)) < WC_SAMPLES /\ samples' = Append(samples, r)
               /\ UNCHANGED <<table, state, ch, saved_fitted, cur_pct, npts, queues>>
      <4>1. r.pct = cur_pct /\ r.alone
        BY <2>3, <3>1 DEF RunInv, RingInv, Fits
      <4>2. samples' \in Seq(Readouts) /\ Len(samples') <= WC_SAMPLES
        BY <2>2, <3>4 DEF RunInv, RunType
      <4>3. TableType' /\ RunType' /\ SteadyInv'
        BY <1>1, <3>4, <4>2 DEF RunInv, TableType, RunType, SteadyInv, table
      <4>4. SamplesInv'
        <5>1. /\ Len(samples) \in Nat /\ Len(samples') = Len(samples) + 1
              /\ samples'[Len(samples) + 1] = r
              /\ \A i \in 1 .. Len(samples) : samples'[i] = samples[i]
          BY <2>2, <3>4 DEF RunInv, RunType
        <5>2. ASSUME NEW i \in 1 .. Len(samples')
              PROVE  samples'[i].ch = ch /\ samples'[i].pct = cur_pct /\ samples'[i].alone
          <6>1. i = Len(samples) + 1 \/ i \in 1 .. Len(samples)
            BY <5>1
          <6> QED
            BY <3>1, <4>1, <5>1, <6>1 DEF RunInv, SamplesInv
        <5> QED
          BY <3>4, <5>2 DEF SamplesInv
      <4>5. QueueType' /\ TimersInv' /\ DrivenInv'
        BY <1>1, <3>4 DEF RunInv, QueueType, TimersInv, DrivenInv, Queued, Settled, queues
      <4>6. RingInv'
        <5>1. RingFits'
          BY <2>3, <3>1, <3>4 DEF RunInv, RingInv, RingFits, Fits
        <5> QED
          BY <2>1, <5>1 DEF RingInv
      <4> QED
        BY <2>2, <4>3, <4>4, <4>5, <4>6 DEF RunInv
    <3> QED
      BY <2>5, <3>2, <3>3, <3>4 DEF take_sample, step_done, complete, abort_with
  <2> QED
    BY <1>3, <2>4, <2>5 DEF drain, r
<1> QED
  BY <1>2, <1>3

\* What is the same for every action that leaves the run and its queue to one
\* change: the queue loses the action that was called.
LEMMA Called ==
  ASSUME RunInv, ready # <<>>, Popped
  PROVE  /\ Queue(ready') /\ Head(ready) \in Names /\ Contains(ready, Head(ready))
         /\ \A b : Contains(ready', b) <=> Contains(ready, b) /\ b # Head(ready)
         /\ DrainFirst(ready) /\ Head(ready) # "drain" => DrainFirst(ready')
         /\ Head(ready) = "begin" => ~DrainFirst(ready)
<1>1. Queue(ready) /\ ready' = Tail(ready)
  BY DEF Popped, RunInv, QueueType
<1> QED
  BY <1>1, Popping

LEMMA DrainBegins ==
  ASSUME RunInv, RunAction("drain", DrainBegin)
  PROVE  RunInv'
<1>1. /\ Head(ready) = "drain" /\ ready # <<>> /\ Popped /\ draining' = TRUE
      /\ UNCHANGED <<table, driven, run, ring, monitoring, timed>>
  BY DEF RunAction, DrainBegin
<1>2. Queue(ready') /\ \A b : Contains(ready', b) <=> Contains(ready, b) /\ b # "drain"
  BY <1>1, Called
<1>3. TableType' /\ RunType' /\ SteadyInv' /\ SamplesInv' /\ CaptureType'
  BY <1>1 DEF RunInv, TableType, RunType, SteadyInv, SamplesInv, CaptureType, table, run
<1>4. QueueType' /\ TimersInv' /\ DrivenInv'
  BY <1>1, <1>2 DEF RunInv, QueueType, TimersInv, DrivenInv, Queued, Settled, run
<1>5. RingInv'
  BY <1>1 DEF RunInv, RingInv, RingFits, Fits, run
<1> QED
  BY <1>3, <1>4, <1>5 DEF RunInv

LEMMA BeginKeeps ==
  ASSUME RunInv, RunAction("begin", step_begin_measure)
  PROVE  RunInv'
<1>1. /\ Idle /\ Head(ready) = "begin" /\ ready # <<>> /\ Popped
      /\ UNCHANGED <<driven, capture>> /\ step_begin_measure
  BY DEF RunAction, step_begin_measure
<1>2. /\ Queue(ready') /\ Contains(ready, "begin") /\ ~DrainFirst(ready)
      /\ \A b : Contains(ready', b) <=> Contains(ready, b) /\ b # "begin"
  BY <1>1, Called
<1>3. state \in {"REST", "SETTLE"} /\ ~Queued("timeout") /\ ~draining
  BY <1>1, <1>2 DEF RunInv, TimersInv, Queued, Idle
<1>4. CaptureType' /\ ring' = ring /\ draining' = draining /\ monitoring' = monitoring
  BY <1>1 DEF RunInv, CaptureType, capture
<1>5. ring' # <<>> => Contains(ready', "drain")
  BY <1>2, <1>3, <1>4 DEF RunInv, RingInv
<1>6. CASE state = "REST"
  <2>1. Settle(WC_START_PCT) /\ npts' = npts
    BY <1>1, <1>6 DEF step_begin_measure
  <2>2. npts' \in 0 .. WC_MAX_POINTS
    BY <2>1 DEF RunInv, RunType
  <2>3. ~Contains(ready', "begin") /\ ~Contains(ready', "timeout")
    BY <1>2, <1>3 DEF Queued
  <2> QED
    BY <1>1, <1>2, <1>4, <1>5, <1>6, <2>1, <2>2, <2>3, Settling
<1>7. CASE state # "REST"
  <2>1. /\ state = "SETTLE" /\ samples' = <<>> /\ state' = "MEASURE"
        /\ timed' = timed \cup {"timeout"}
        /\ UNCHANGED <<table, ch, saved_fitted, cur_pct, npts>>
    BY <1>1, <1>3, <1>7 DEF step_begin_measure, MeasureLimit
  <2>2. TableType' /\ RunType' /\ SteadyInv' /\ SamplesInv'
    BY <1>1, <2>1 DEF RunInv, TableType, RunType, SteadyInv, SamplesInv, table
  <2>3. QueueType' /\ TimersInv'
    BY <1>2, <1>3, <1>4, <2>1 DEF RunInv, QueueType, TimersInv, Queued
  <2>4. DrivenInv'
    BY <1>1, <1>2, <2>1 DEF RunInv, DrivenInv, Settled
  <2>5. RingInv'
    BY <1>2, <1>3, <1>4, <1>5, <2>1 DEF RunInv, RingInv, Settled, RingFits, Fits
  <2> QED
    BY <1>4, <2>2, <2>3, <2>4, <2>5 DEF RunInv
<1> QED
  BY <1>6, <1>7

LEMMA TimeoutKeeps ==
  ASSUME RunInv, RunAction("timeout", measure_timeout)
  PROVE  RunInv'
<1>1. Head(ready) = "timeout" /\ ready # <<>> /\ driven' = driven /\ measure_timeout
  BY DEF RunAction
<1>2. Contains(ready, "timeout")
  BY <1>1, Popping DEF RunInv, QueueType
<1>3. state = "MEASURE"
  BY <1>2 DEF RunInv, TimersInv, Queued
<1>4. finish /\ UNCHANGED capture
  BY <1>1, <1>3 DEF measure_timeout, abort_with
<1>5. CaptureType' /\ ring' = ring /\ draining' = draining /\ monitoring' = monitoring
  BY <1>4 DEF RunInv, CaptureType, capture
<1> QED
  BY <1>1, <1>3, <1>4, <1>5, Finishing DEF RunInv, RingInv

LEMMA ReportKeeps ==
  ASSUME RunInv, RunAction("report", mon_report)
  PROVE  RunInv'
<1>1. /\ Head(ready) = "report" /\ ready # <<>> /\ Popped /\ monitoring' = FALSE
      /\ UNCHANGED <<table, driven, run, ring, draining, timed>>
  BY DEF RunAction, mon_report
<1>2. /\ Queue(ready') /\ Contains(ready, "report")
      /\ \A b : Contains(ready', b) <=> Contains(ready, b) /\ b # "report"
      /\ DrainFirst(ready) => DrainFirst(ready')
  BY <1>1, Called
<1>3. TableType' /\ RunType' /\ SteadyInv' /\ SamplesInv' /\ CaptureType'
  BY <1>1 DEF RunInv, TableType, RunType, SteadyInv, SamplesInv, CaptureType, table, run
<1>4. QueueType' /\ TimersInv' /\ DrivenInv'
  BY <1>1, <1>2 DEF RunInv, QueueType, TimersInv, DrivenInv, Queued, Settled, run
<1>5. RingInv'
  BY <1>1, <1>2 DEF RunInv, RingInv, RingFits, Fits, Settled, run
<1> QED
  BY <1>3, <1>4, <1>5 DEF RunInv

LEMMA StartKeeps ==
  ASSUME RunInv, NEW muscle \in Muscles, wirecal_start(muscle), UNCHANGED driven
  PROVE  RunInv'
<1>1. /\ state = "IDLE" /\ state' = "REST" /\ ch' = muscle - 1 /\ saved_fitted' = fitted
      /\ fitted' = {Table!LimbOf(ch')} /\ npts' = 0 /\ timed' = timed \cup {"begin"}
      /\ act' = Table!Refit(Table!Activate(act, ch', 0), fitted')
      /\ UNCHANGED <<cur_pct, samples, capture, ready>>
  BY DEF wirecal_start
<1>2. ch' \in Table!Channels /\ Table!LimbOf(ch') \in Table!Limbs
  BY <1>1, Channel
<1>3. act \in Tables
  BY DEF RunInv, TableType
<1>4. act' \in Tables /\ act'[ch'] = 0
  <2> DEFINE a == Table!Activate(act, ch', 0)
  <2>1. a \in Tables /\ a[ch'] = 0
    BY <1>2, <1>3, ActivatedTable
  <2> HIDE DEF a
  <2>2. act' = Table!Refit(a, fitted')
    BY <1>1 DEF a
  <2> QED
    BY <1>1, <1>2, <2>1, <2>2, RefittedTable
<1>5. TableType' /\ SteadyInv'
  BY <1>1, <1>2, <1>4 DEF RunInv, TableType, SteadyInv
<1>6. RunType' /\ CaptureType'
  BY <1>1, <1>2 DEF RunInv, RunType, CaptureType, capture
<1>7. QueueType' /\ TimersInv'
  BY <1>1 DEF RunInv, QueueType, TimersInv, Queued, capture
<1>8. DrivenInv' /\ RingInv' /\ SamplesInv'
  BY <1>1 DEF RunInv, DrivenInv, RingInv, SamplesInv, Settled, capture
<1> QED
  BY <1>5, <1>6, <1>7, <1>8 DEF RunInv

LEMMA StopKeeps ==
  ASSUME RunInv, wirecal_stop, UNCHANGED driven
  PROVE  RunInv'
<1>1. state # "IDLE" /\ finish /\ UNCHANGED capture
  BY DEF wirecal_stop, abort_with
<1>2. CaptureType' /\ ring' = ring /\ draining' = draining /\ monitoring' = monitoring
  BY <1>1 DEF RunInv, CaptureType, capture
<1> QED
  BY <1>1, <1>2, Finishing DEF RunInv, RingInv

LEMMA MonitorKeeps ==
  ASSUME RunInv, wirecal_cli_isns, UNCHANGED driven
  PROVE  RunInv'
<1>1. /\ ~monitoring /\ monitoring' = TRUE /\ timed' = timed \cup {"report"}
      /\ UNCHANGED <<table, driven, run, ring, draining, ready>>
  BY DEF wirecal_cli_isns
<1>2. TableType' /\ RunType' /\ SteadyInv' /\ SamplesInv' /\ CaptureType'
  BY <1>1 DEF RunInv, TableType, RunType, SteadyInv, SamplesInv, CaptureType, table, run
<1>3. QueueType' /\ TimersInv' /\ DrivenInv' /\ RingInv'
  BY <1>1 DEF RunInv, QueueType, TimersInv, DrivenInv, RingInv, RingFits, Fits, Queued, Settled, run
<1> QED
  BY <1>2, <1>3 DEF RunInv

LEMMA UserKeeps ==
  ASSUME RunInv, UNCHANGED <<driven, run, capture, queues>>, fitted' = fitted, act' \in Tables,
         state = "IDLE" \/ act'[ch] = 0
  PROVE  RunInv'
<1>1. TableType' /\ SteadyInv'
  BY DEF RunInv, TableType, SteadyInv, run
<1>2. RunType' /\ CaptureType' /\ QueueType' /\ TimersInv'
  BY DEF RunInv, RunType, CaptureType, QueueType, TimersInv, Queued, run, capture, queues
<1>3. DrivenInv' /\ RingInv' /\ SamplesInv'
  BY DEF RunInv, DrivenInv, RingInv, RingFits, Fits, SamplesInv, Settled, run, capture, queues
<1> QED
  BY <1>1, <1>2, <1>3 DEF RunInv

LEMMA WordsKeep ==
  ASSUME RunInv, Words
  PROVE  RunInv'
<1>1. UNCHANGED driven
  BY DEF Words
<1>2. CASE \E muscle \in Muscles : wirecal_start(muscle)
  BY <1>1, <1>2, StartKeeps
<1>3. CASE \E muscle \in Others : UserDrives(muscle, WC_MAX_PCT)
  <2>1. PICK muscle \in Others : UserDrives(muscle, WC_MAX_PCT)
    BY <1>3
  <2>2. /\ state = "IDLE" /\ UNCHANGED <<run, capture, queues>> /\ fitted' = fitted
        /\ act' = Table!Activate(act, muscle - 1, WC_MAX_PCT)
    BY <2>1 DEF UserDrives, Table!muscle_set
  <2>3. act' \in Tables
    BY <2>2, ActivatedTable DEF RunInv, TableType
  <2> QED
    BY <1>1, <2>2, <2>3, UserKeeps
<1>4. CASE UserRelaxes
  <2>1. UNCHANGED <<run, capture, queues>> /\ fitted' = fitted /\ act' = Table!Relaxed
    BY <1>4 DEF UserRelaxes, Table!muscle_relax
  <2>2. act' \in Tables /\ act'[ch] = 0
    BY <2>1, RelaxedTable DEF RunInv, RunType
  <2> QED
    BY <1>1, <2>1, <2>2, UserKeeps
<1>5. CASE wirecal_stop
  BY <1>1, <1>5, StopKeeps
<1>6. CASE wirecal_cli_isns
  BY <1>1, <1>6, MonitorKeeps
<1> QED
  BY <1>2, <1>3, <1>4, <1>5, <1>6 DEF Words

\* The state of a boot.
LEMMA BootRuns ==
  ASSUME fitted = FITTED, act = Table!Relaxed, driven = [fitted |-> fitted, act |-> act],
         state = "IDLE", ch = 0, cur_pct = 0, npts = 0, samples = <<>>,
         ring = <<>>, monitoring = FALSE, draining = FALSE, timed = {}, ready = <<>>
  PROVE  RunInv
<1>1. TableType /\ RunType /\ CaptureType
  <2>1. TableType
    BY RelaxedTable DEF TableType
  <2>2. <<>> \in Seq(Readouts) /\ Len(<<>>) = 0
    OBVIOUS
  <2>3. RunType
    BY <2>2, ChannelZero DEF RunType
  <2>4. CaptureType
    <3>1. ring \in Seq(Readouts) /\ Len(ring) < RING
      BY <2>2
    <3>2. monitoring \in BOOLEAN /\ draining \in BOOLEAN
      OBVIOUS
    <3> QED
      BY <3>1, <3>2 DEF CaptureType
  <2> QED
    BY <2>1, <2>3, <2>4
<1>2. Queue(ready) /\ \A b : ~Contains(ready, b)
  BY DEF Queue, Contains
<1>3. QueueType /\ TimersInv
  BY <1>2 DEF QueueType, TimersInv, Queued
<1>4. SteadyInv /\ DrivenInv /\ RingInv /\ SamplesInv
  BY DEF SteadyInv, DrivenInv, RingInv, SamplesInv, Settled
<1> QED
  BY <1>1, <1>3, <1>4 DEF RunInv

LEMMA RunsStep ==
  ASSUME RunInv, [Next]_vars
  PROVE  RunInv'
<1>1. CASE UNCHANGED wirevars
  BY <1>1 DEF wirevars, table, run, capture, queues, RunInv, TableType, RunType, CaptureType,
              QueueType, TimersInv, SteadyInv, DrivenInv, RingInv, RingFits, Fits, SamplesInv,
              Queued, Settled
<1>2. CASE WireStep
  <2>1. CASE Samples
    BY <2>1, SampleKeeps DEF Samples
  <2>2. CASE FrameAdopts
    BY <2>2, FrameKeeps
  <2>3. CASE \E a \in timed : TimerFires(a)
    BY <2>3, TimerKeeps
  <2>4. CASE Actions
    BY <2>4, DrainBegins, BeginKeeps, TimeoutKeeps, ReportKeeps DEF Actions
  <2>5. CASE drain
    BY <2>5, DrainKeeps
  <2>6. CASE Words
    BY <2>6, WordsKeep
  <2> QED
    BY <1>2, <2>1, <2>2, <2>3, <2>4, <2>5, <2>6 DEF WireStep, WireNext
<1>3. CASE PowerLoss
  <2>1. /\ fitted' = FITTED /\ act' = Table!Relaxed /\ driven' = [fitted |-> fitted', act |-> act']
        /\ state' = "IDLE" /\ ch' = 0 /\ cur_pct' = 0 /\ npts' = 0 /\ samples' = <<>>
        /\ ring' = <<>> /\ monitoring' = FALSE /\ draining' = FALSE /\ timed' = {} /\ ready' = <<>>
    BY <1>3 DEF PowerLoss
  <2>2. (fitted = FITTED /\ act = Table!Relaxed /\ driven = [fitted |-> fitted, act |-> act]
        /\ state = "IDLE" /\ ch = 0 /\ cur_pct = 0 /\ npts = 0 /\ samples = <<>>
        /\ ring = <<>> /\ monitoring = FALSE /\ draining = FALSE /\ timed = {} /\ ready = <<>>)'
    BY <2>1
  <2> QED
    BY <2>2, BootRuns, PTL
<1> QED
  BY <1>1, <1>2, <1>3 DEF Next, StoreStep, vars

LEMMA RunsAlways == Spec => []RunInv
<1>1. Init => RunInv
  BY BootRuns DEF Init, WireInit
<1>2. RunInv /\ [Next]_vars => RunInv'
  BY RunsStep
<1> QED
  BY <1>1, <1>2, PTL DEF Spec

\* A run holds exactly the time-out its state waits for, whatever ended the run
\* before it, and no run leaves limbs unfitted.
THEOREM TimersKept == Spec => []RunHoldsItsTimer
<1>1. RunInv => RunHoldsItsTimer
  BY DEF RunInv, TimersInv, SteadyInv, RunHoldsItsTimer
<1> QED
  BY <1>1, RunsAlways, PTL

\* A reading counts for the step it was taken in, on the wire under test.
THEOREM SamplesKept == Spec => []SamplesAreOfThisStep
<1>1. RunInv => SamplesAreOfThisStep
  <2> SUFFICES ASSUME RunInv, state = "MEASURE", NEW i \in DOMAIN samples
               PROVE  samples[i].ch = ch /\ samples[i].pct = cur_pct /\ samples[i].alone
    BY DEF SamplesAreOfThisStep
  <2>1. i \in 1 .. Len(samples)
    BY DEF RunInv, RunType
  <2> QED
    BY <2>1 DEF RunInv, SamplesInv
<1> QED
  BY <1>1, RunsAlways, PTL

-----------------------------------------------------------------------------
(***************************************************************************)
(* The invariant of the file and its loader.                               *)
(***************************************************************************)
Lines  == Len(KeyOrder)
Cells == [word : Store!Keys, value : Values \cup {Default}]
Cell(vals, i) == [word |-> KeyOrder[i], value |-> vals[KeyOrder[i]]]
Tunings == [Store!Keys -> Values \cup {Default, Uncalibrated}]

\* A registered item always has a value.
Valued(vals) == vals \in Tunings /\ \A k \in Items : vals[k] # Uncalibrated

StoreType ==
  /\ Valued(values) /\ Valued(kept) /\ changed \in BOOLEAN
  /\ saving \in {"no", "begin", "lines"} /\ DOMAIN files \subseteq {CALIB_FILE, CALIB_TMP}
  /\ startups \in Nat /\ loading \in BOOLEAN /\ echo \in BOOLEAN /\ saved_echo \in BOOLEAN
  /\ steps = IF loading THEN 1 ELSE 0

\* A save writes the lines of the first n keys one by one, and nothing is
\* being loaded meanwhile.
SaveInv ==
  /\ saving # "no" => ~loading
  /\ saving = "lines" =>
       \E n \in 0 .. Lines :
         /\ todo = {i \in Store!ToSave(values) : i > n}
         /\ Store!Fs!Contents(CALIB_TMP) = Store!Script(values)[n]

EchoInv == IF loading THEN saved_echo ELSE echo

\* The line of key n is on its way from the file to the CLI.
Underway(n) ==
  \/ keyq = <<>> /\ line = <<>>
  \/ /\ n \in Store!ToSave(kept)
     /\ \/ keyq = <<Cell(kept, n), EOL>> /\ line = <<>>
        \/ keyq = <<EOL>> /\ line = <<Cell(kept, n)>>

\* Every value that is not as it was saved is set by a line still to run.
Pending(n) ==
  \A k \in Store!Keys :
    \/ values[k] = kept[k]
    \/ \E i \in Store!ToSave(kept) : KeyOrder[i] = k /\ (i > n \/ (i = n /\ keyq # <<>>))

LoadInv ==
  /\ loading =>
       /\ CALIB_FILE \in DOMAIN files
       /\ \E n \in 0 .. Lines :
            /\ load_off = Len(Store!Script(kept)[n])
            /\ Underway(n)
            /\ ~changed => Pending(n)
  /\ ~loading =>
       /\ keyq = <<>> /\ line = <<>>
       /\ ~changed => \/ values = kept
                      \/ startups > 0 /\ CALIB_FILE \in DOMAIN files /\ Pending(0)

StoreInv == StoreType /\ SaveInv /\ EchoInv /\ FileIsOldOrNew /\ LoadInv

-----------------------------------------------------------------------------
(***************************************************************************)
(* The file of a set of values.                                            *)
(***************************************************************************)
LEMMA Keyed ==
  /\ Lines \in Nat /\ KeyOrder \in Seq(Store!Keys)
  /\ \A i \in 1 .. Lines : KeyOrder[i] \in Store!Keys
  /\ \A k \in Store!Keys : \E i \in 1 .. Lines : KeyOrder[i] = k
<1>1. KeyOrder \in Seq(Store!Keys)
  OBVIOUS
<1>2. Lines \in Nat /\ DOMAIN KeyOrder = 1 .. Lines
  BY <1>1 DEF Lines
<1> QED
  BY <1>1, <1>2 DEF Store!Keys

LEMMA Saveable ==
  ASSUME NEW vals \in Tunings
  PROVE  /\ Store!ToSave(vals) \in SUBSET (1 .. Lines)
         /\ \A i \in Store!ToSave(vals) : Cell(vals, i) \in Cells /\ Cell(vals, i) # EOL
         /\ \A k \in Store!Keys :
              vals[k] # Uncalibrated => \E i \in Store!ToSave(vals) : KeyOrder[i] = k
<1>1. DOMAIN KeyOrder = 1 .. Lines
  BY Keyed DEF Lines
<1>2. ASSUME NEW i \in Store!ToSave(vals)
      PROVE  Cell(vals, i) \in Cells /\ Cell(vals, i) # EOL
  <2>1. i \in 1 .. Lines /\ vals[KeyOrder[i]] # Uncalibrated
    BY <1>1, <1>2 DEF Store!ToSave
  <2>2. KeyOrder[i] \in Store!Keys /\ vals[KeyOrder[i]] \in Values \cup {Default}
    BY <2>1, Keyed DEF Tunings
  <2>3. Cell(vals, i) \in Cells
    BY <2>2 DEF Cell, Cells
  <2> QED
    BY <2>3 DEF Cells
<1> QED
  BY <1>1, <1>2, Keyed DEF Store!ToSave

\* What key n adds to the file, and the recursion the file is defined by.
Added(vals, n, text) ==
  IF n \in Store!ToSave(vals)
  THEN text \o Store!Line(KeyOrder[n], vals[KeyOrder[n]]) \o <<EOL>>
  ELSE text
Grows(vals, f, m) == f = [n \in 0 .. m |-> IF n = 0 THEN <<>> ELSE Added(vals, n, f[n - 1])]

LEMMA ScriptExists ==
  ASSUME NEW vals
  PROVE  \A m \in Nat : \E f : Grows(vals, f, m)
<1> DEFINE S == {m \in Nat : ~ \E f : Grows(vals, f, m)}
<1>1. SUFFICES ASSUME S # {} PROVE FALSE
  OBVIOUS
<1>2. PICK m \in S : \A x \in S : m <= x
  BY <1>1, LeastExists
<1>3. m \in Nat /\ ~ \E f : Grows(vals, f, m)
  OBVIOUS
<1>4. CASE m = 0
  <2> DEFINE f == [n \in 0 .. 0 |-> <<>>]
  <2>1. Grows(vals, f, 0)
    BY DEF Grows
  <2> QED
    BY <1>3, <1>4, <2>1
<1>5. CASE m # 0
  <2>1. m - 1 \in Nat /\ m - 1 \notin S
    BY <1>2, <1>3, <1>5
  <2>2. PICK f : Grows(vals, f, m - 1)
    BY <2>1
  <2> DEFINE g == [n \in 0 .. m |-> IF n = m THEN Added(vals, m, f[m - 1]) ELSE f[n]]
             h == [n \in 0 .. m |-> IF n = 0 THEN <<>> ELSE Added(vals, n, g[n - 1])]
  <2>3. ASSUME NEW n \in 0 .. m
        PROVE  g[n] = IF n = 0 THEN <<>> ELSE Added(vals, n, g[n - 1])
    <3>1. CASE n = 0
      BY <1>3, <1>5, <2>2, <3>1 DEF Grows
    <3>2. CASE n # 0
      <4>1. n - 1 \in 0 .. m - 1 /\ n - 1 # m /\ n \in 0 .. m /\ n - 1 \in 0 .. m
        BY <1>3, <3>2
      <4>2. g[n - 1] = f[n - 1]
        BY <4>1
      <4>3. g[n] = Added(vals, n, f[n - 1])
        <5>1. CASE n = m
          BY <4>1, <5>1
        <5>2. CASE n # m
          <6>1. n \in 0 .. m - 1
            BY <1>3, <3>2, <5>2
          <6> QED
            BY <2>2, <3>2, <4>1, <5>2, <6>1 DEF Grows
        <5> QED
          BY <5>1, <5>2
      <4> QED
        BY <3>2, <4>2, <4>3
    <3> QED
      BY <3>1, <3>2
  <2>4. g = h
    BY <2>3
  <2>5. Grows(vals, g, m)
    BY <2>4 DEF Grows
  <2> QED
    BY <1>3, <2>5
<1> QED
  BY <1>4, <1>5

LEMMA ScriptGrows ==
  ASSUME NEW vals
  PROVE  Grows(vals, Store!Script(vals), Lines)
<1>1. \E f : Grows(vals, f, Lines)
  BY ScriptExists, Keyed
<1> QED
  BY <1>1 DEF Store!Script, Grows, Added, Lines

LEMMA ScriptSteps ==
  ASSUME NEW vals
  PROVE  /\ Store!Script(vals)[0] = <<>>
         /\ \A n \in 1 .. Lines :
              Store!Script(vals)[n] = Added(vals, n, Store!Script(vals)[n - 1])
<1> DEFINE f == Store!Script(vals)
<1>1. f = [n \in 0 .. Lines |-> IF n = 0 THEN <<>> ELSE Added(vals, n, f[n - 1])]
  BY ScriptGrows DEF Grows
<1> HIDE DEF f
<1>2. Lines \in Nat
  BY Keyed
<1>3. f[0] = <<>>
  BY <1>1, <1>2
<1>4. ASSUME NEW n \in 1 .. Lines PROVE f[n] = Added(vals, n, f[n - 1])
  BY <1>1, <1>2
<1> QED
  BY <1>3, <1>4 DEF f

Text == Seq(Cells \cup {EOL})

LEMMA Adding ==
  ASSUME NEW vals \in Tunings, NEW i \in Store!ToSave(vals), NEW text \in Text
  PROVE  LET new == Added(vals, i, text) IN
         /\ new \in Text /\ Len(new) = Len(text) + 2
         /\ new[Len(text) + 1] = Cell(vals, i) /\ new[Len(text) + 2] = EOL
         /\ \A j \in 1 .. Len(text) : new[j] = text[j]
<1> DEFINE c == Cell(vals, i)
           x == text \o <<c>>
           new == x \o <<EOL>>
<1>1. c \in Cells
  BY Saveable
<1>2. Added(vals, i, text) = new
  BY DEF Added, Store!Line, Cell
<1> HIDE DEF c
<1>3. /\ x \in Text /\ Len(x) = Len(text) + 1 /\ x[Len(text) + 1] = c
      /\ \A j \in 1 .. Len(text) : x[j] = text[j]
  BY <1>1 DEF Text
<1> HIDE DEF x
<1>4. /\ new \in Text /\ Len(new) = Len(x) + 1 /\ new[Len(x) + 1] = EOL
      /\ \A j \in 1 .. Len(x) : new[j] = x[j]
  BY <1>3 DEF Text
<1> HIDE DEF new
<1>5. Len(text) \in Nat
  BY DEF Text
<1> QED
  BY <1>2, <1>3, <1>4, <1>5 DEF c

LEMMA ScriptType ==
  ASSUME NEW vals \in Tunings
  PROVE  \A n \in 0 .. Lines : Store!Script(vals)[n] \in Text
<1> DEFINE f == Store!Script(vals)
           S == {n \in 0 .. Lines : f[n] \notin Text}
<1>1. SUFFICES ASSUME S # {} PROVE FALSE
  OBVIOUS
<1>2. f[0] = <<>> /\ Lines \in Nat
      /\ \A n \in 1 .. Lines : f[n] = Added(vals, n, f[n - 1])
  BY ScriptSteps, Keyed
<1> HIDE DEF f
<1>3. PICK m \in S : \A x \in S : m <= x
  <2>1. S \in SUBSET Nat
    BY <1>2
  <2> QED
    BY ONLY <1>1, <2>1, LeastExists
<1>4. <<>> \in Text
  BY DEF Text
<1>5. m \in 1 .. Lines /\ m - 1 \in 0 .. Lines /\ m - 1 \notin S
  BY <1>2, <1>3, <1>4
<1>6. f[m - 1] \in Text /\ f[m] = Added(vals, m, f[m - 1])
  BY <1>2, <1>5
<1>7. f[m] \in Text
  <2>1. CASE m \in Store!ToSave(vals)
    BY <1>6, <2>1, Adding
  <2>2. CASE m \notin Store!ToSave(vals)
    BY <1>6, <2>2 DEF Added
  <2> QED
    BY <2>1, <2>2
<1> QED
  BY <1>7

\* The keys between m and n have no line: the file is the same.
LEMMA ScriptGap ==
  ASSUME NEW vals \in Tunings, NEW m \in 0 .. Lines, NEW n \in 0 .. Lines, m <= n,
         \A i \in Store!ToSave(vals) : ~(m < i /\ i <= n)
  PROVE  Store!Script(vals)[n] = Store!Script(vals)[m]
<1> DEFINE f == Store!Script(vals)
           S == {i \in 0 .. Lines : m <= i /\ i <= n /\ f[i] # f[m]}
<1>1. SUFFICES ASSUME S # {} PROVE FALSE
  BY Keyed
<1>2. Lines \in Nat /\ \A i \in 1 .. Lines : f[i] = Added(vals, i, f[i - 1])
  BY ScriptSteps, Keyed
<1> HIDE DEF f
<1>3. PICK i \in S : \A x \in S : i <= x
  <2>1. S \in SUBSET Nat
    BY <1>2
  <2> QED
    BY ONLY <1>1, <2>1, LeastExists
<1>4. i \in 1 .. Lines /\ m < i /\ i <= n /\ i - 1 \in 0 .. Lines /\ i - 1 \notin S
  BY <1>2, <1>3
<1>5. f[i - 1] = f[m]
  BY <1>2, <1>4
<1>6. f[i] = f[i - 1]
  BY <1>2, <1>4 DEF Added
<1> QED
  BY <1>5, <1>6

\* A file begins with the lines of its first keys.
LEMMA ScriptPrefix ==
  ASSUME NEW vals \in Tunings, NEW m \in 0 .. Lines, NEW n \in 0 .. Lines, m <= n
  PROVE  LET f == Store!Script(vals) IN
         Len(f[m]) <= Len(f[n]) /\ \A j \in 1 .. Len(f[m]) : f[n][j] = f[m][j]
<1> DEFINE f == Store!Script(vals)
           Before(i) == Len(f[m]) <= Len(f[i]) /\ \A j \in 1 .. Len(f[m]) : f[i][j] = f[m][j]
           S == {i \in 0 .. Lines : m <= i /\ ~Before(i)}
<1>1. SUFFICES ASSUME S # {} PROVE FALSE
  BY Keyed
<1>2. Lines \in Nat /\ \A i \in 1 .. Lines : f[i] = Added(vals, i, f[i - 1])
  BY ScriptSteps, Keyed
<1>3. \A i \in 0 .. Lines : f[i] \in Text /\ Len(f[i]) \in Nat
  BY ScriptType DEF Text
<1> HIDE DEF f
<1>4. PICK i \in S : \A x \in S : i <= x
  <2>1. S \in SUBSET Nat
    BY <1>2
  <2> QED
    BY ONLY <1>1, <2>1, LeastExists
<1>5. Before(m)
  BY <1>3
<1> HIDE DEF Before
<1>6. i \in 1 .. Lines /\ m < i /\ i - 1 \in 0 .. Lines /\ i - 1 \notin S /\ ~Before(i)
  BY <1>2, <1>4, <1>5
<1>7. Before(i - 1)
  BY <1>2, <1>6
<1>8. CASE i \in Store!ToSave(vals)
  <2>1. /\ Len(f[i]) = Len(f[i - 1]) + 2
        /\ \A j \in 1 .. Len(f[i - 1]) : f[i][j] = f[i - 1][j]
    <3>1. f[i - 1] \in Text /\ f[i] = Added(vals, i, f[i - 1]) /\ vals \in Tunings
      BY <1>2, <1>3, <1>6
    <3> QED
      BY ONLY <1>8, <3>1, Adding
  <2>2. Len(f[m]) \in Nat /\ Len(f[i - 1]) \in Nat
    BY <1>3, <1>6
  <2>3. Before(i)
    BY <1>7, <2>1, <2>2 DEF Before
  <2> QED
    BY <1>6, <2>3
<1>9. CASE i \notin Store!ToSave(vals)
  <2>1. f[i] = f[i - 1]
    BY <1>2, <1>6, <1>9 DEF Added
  <2>2. Before(i)
    BY <1>7, <2>1 DEF Before
  <2> QED
    BY <1>6, <2>2
<1> QED
  BY <1>8, <1>9

\* After the lines of the first n keys the file ends, or the line of the next
\* key that has one follows.
LEMMA NextLine ==
  ASSUME NEW vals \in Tunings, NEW n \in 0 .. Lines
  PROVE  LET f     == Store!Script(vals)
             whole == Store!Whole(vals)
             off   == Len(f[n])
         IN  /\ whole \in Text /\ off \in Nat
             /\ \/ off = Len(whole) /\ \A i \in Store!ToSave(vals) : i <= n
                \/ \E i \in Store!ToSave(vals) :
                     /\ n < i /\ \A j \in Store!ToSave(vals) : n < j => i <= j
                     /\ Len(f[i]) = off + 2 /\ off + 2 <= Len(whole)
                     /\ f[i] = Added(vals, i, f[n])
                     /\ whole[off + 1] = Cell(vals, i) /\ whole[off + 2] = EOL
<1> DEFINE f     == Store!Script(vals)
           whole == Store!Whole(vals)
           off   == Len(f[n])
           S     == {i \in Store!ToSave(vals) : n < i}
<1>1. Lines \in Nat /\ Store!ToSave(vals) \in SUBSET (1 .. Lines)
  BY Keyed, Saveable
<1>2. whole = f[Lines]
  BY DEF Store!Whole, Lines
<1>3. whole \in Text /\ f[n] \in Text /\ off \in Nat /\ Lines \in 0 .. Lines
  <2>1. Lines \in 0 .. Lines
    BY <1>1
  <2>2. whole \in Text /\ f[n] \in Text
    BY <1>2, <2>1, ScriptType
  <2> HIDE DEF f
  <2> QED
    BY <2>1, <2>2 DEF Text
<1>4. CASE S = {}
  <2>1. \A i \in Store!ToSave(vals) : i <= n
    BY <1>1, <1>4
  <2>2. f[Lines] = f[n]
    BY <1>1, <1>3, <2>1, ScriptGap
  <2> QED
    BY <1>2, <1>3, <2>1, <2>2
<1>5. CASE S # {}
  <2>1. PICK i \in S : \A j \in S : i <= j
    <3>1. S \in SUBSET Nat
      BY <1>1
    <3> QED
      BY ONLY <1>5, <3>1, LeastExists
  <2>2. /\ i \in Store!ToSave(vals) /\ i \in 1 .. Lines /\ n < i
        /\ i - 1 \in 0 .. Lines /\ n <= i - 1 /\ i \in 0 .. Lines
    BY <1>1
  <2>3. \A j \in Store!ToSave(vals) : n < j => i <= j
    BY <2>1
  <2>4. \A j \in Store!ToSave(vals) : ~(n < j /\ j <= i - 1)
    BY <1>1, <2>2, <2>3
  <2>5. f[i - 1] = f[n]
    BY <2>2, <2>4, ScriptGap
  <2>6. f[i] = Added(vals, i, f[n])
    BY <2>2, <2>5, ScriptSteps
  <2>7. f[Lines] \in Text /\ Len(f[i]) <= Len(f[Lines])
        /\ \A j \in 1 .. Len(f[i]) : f[Lines][j] = f[i][j]
    BY <1>1, <1>3, <2>2, ScriptType, ScriptPrefix
  <2> HIDE DEF f
  <2>8. Len(f[i]) = off + 2 /\ f[i][off + 1] = Cell(vals, i) /\ f[i][off + 2] = EOL
    BY <1>3, <2>2, <2>6, Adding
  <2>9. off + 1 \in 1 .. Len(f[i]) /\ off + 2 \in 1 .. Len(f[i])
    BY <1>3, <2>8
  <2> QED
    BY <1>2, <1>3, <2>2, <2>3, <2>6, <2>7, <2>8, <2>9 DEF f
<1> QED
  BY <1>4, <1>5

\* One turn of calib_step() that feeds a line.
LEMMA Feeding ==
  ASSUME NEW vals \in Tunings, NEW n \in 0 .. Lines, NEW left,
         Store!Saved = Store!Whole(vals), keyq = <<>>,
         Store!Feed(left, Len(Store!Script(vals)[n]))
  PROVE  \E i \in Store!ToSave(vals) :
           /\ n < i /\ \A j \in Store!ToSave(vals) : n < j => i <= j
           /\ load_off' = Len(Store!Script(vals)[i])
           /\ keyq' = <<Cell(vals, i), EOL>>
           /\ steps' = left + 1
<1> DEFINE off == Len(Store!Script(vals)[n])
           text == Store!Saved
           I == {j \in off + 1 .. Len(text) : text[j] = EOL}
           eol == IF I # {} THEN Min(I) ELSE 0
           fed == keyq \o SubSeq(text, off + 1, eol)
<1>1. /\ off < Len(text) /\ load_off' = eol /\ steps' = left + 1
      /\ keyq' = IF Len(fed) > KEYQ THEN SubSeq(fed, 1, KEYQ) ELSE fed
  BY DEF Store!Feed, Store!SelectInSubSeq, Store!Min, Min
<1>2. off \in Nat /\ text \in Text
  BY NextLine
<1>3. Len(text) \in Nat
  BY <1>2 DEF Text
<1>4. PICK i \in Store!ToSave(vals) :
        /\ n < i /\ \A j \in Store!ToSave(vals) : n < j => i <= j
        /\ Len(Store!Script(vals)[i]) = off + 2 /\ off + 2 <= Len(text)
        /\ text[off + 1] = Cell(vals, i) /\ text[off + 2] = EOL
  BY <1>1, <1>2, <1>3, NextLine
<1> HIDE DEF off, text
<1>5. eol = off + 2
  <2>1. Cell(vals, i) # EOL
    BY Saveable
  <2>2. off + 2 \in I /\ \A j \in I : off + 2 <= j
    BY <1>2, <1>3, <1>4, <2>1
  <2>3. I \in SUBSET Nat
    BY <1>2, <1>3
  <2> HIDE DEF I
  <2>4. Min(I) = off + 2
    BY ONLY <2>2, <2>3, MinIs
  <2> QED
    BY <2>2, <2>4
<1> HIDE DEF eol
<1>6. fed = <<Cell(vals, i), EOL>>
  <2> DEFINE z == SubSeq(text, off + 1, off + 2)
  <2>1. z \in Text /\ Len(z) = 2 /\ z[1] = text[off + 1] /\ z[2] = text[off + 2]
    BY <1>2, <1>3, <1>4 DEF Text
  <2>2. z = <<text[off + 1], text[off + 2]>>
    <3> HIDE DEF z
    <3> QED
      BY <2>1 DEF Text
  <2>3. <<>> \o z = z
    BY <2>1 DEF Text
  <2> QED
    BY <1>4, <1>5, <2>2, <2>3
<1>7. keyq' = <<Cell(vals, i), EOL>>
  <2> HIDE DEF fed
  <2>1. Len(fed) = 2 /\ ~(2 > KEYQ)
    BY <1>6
  <2> QED
    BY <1>1, <1>6, <2>1
<1> QED
  BY <1>1, <1>4, <1>5, <1>7 DEF off

-----------------------------------------------------------------------------
(***************************************************************************)
(* What the calls of the volume do to the two files.                       *)
(***************************************************************************)
TextOf(n) == Store!Fs!Contents(n)
HasFile  == CALIB_FILE \in DOMAIN files
TwoFiles == DOMAIN files \subseteq {CALIB_FILE, CALIB_TMP}
FileSame == HasFile' = HasFile /\ TextOf(CALIB_FILE)' = TextOf(CALIB_FILE)

LEMMA LineAppended ==
  ASSUME TwoFiles, NEW text, Store!Fs!fs_append_line(CALIB_TMP, text)
  PROVE  TwoFiles' /\ FileSame /\ TextOf(CALIB_TMP)' = TextOf(CALIB_TMP) \o text \o <<EOL>>
<1> DEFINE new == TextOf(CALIB_TMP) \o text \o <<EOL>>
<1>1. files' = [m \in DOMAIN files \cup {CALIB_TMP} |-> IF m = CALIB_TMP THEN new ELSE files[m]]
  BY DEF Store!Fs!fs_append_line, Store!Fs!With, TextOf
<1> HIDE DEF new
<1>2. /\ DOMAIN files' = DOMAIN files \cup {CALIB_TMP} /\ files'[CALIB_TMP] = new
      /\ CALIB_FILE \in DOMAIN files => files'[CALIB_FILE] = files[CALIB_FILE]
  BY <1>1
<1> QED
  BY <1>2 DEF TwoFiles, FileSame, HasFile, TextOf, Store!Fs!Contents, new

LEMMA TmpRemoved ==
  ASSUME TwoFiles, Store!RemoveIfAny(CALIB_TMP)
  PROVE  TwoFiles' /\ FileSame /\ TextOf(CALIB_TMP)' = <<>>
<1>1. CASE CALIB_TMP \in DOMAIN files
  <2>1. files' = [m \in DOMAIN files \ {CALIB_TMP} |-> files[m]]
    BY <1>1 DEF Store!RemoveIfAny, Store!Fs!fs_remove, Store!Fs!Without
  <2>2. /\ DOMAIN files' = DOMAIN files \ {CALIB_TMP}
        /\ CALIB_FILE \in DOMAIN files => files'[CALIB_FILE] = files[CALIB_FILE]
    BY <2>1
  <2> QED
    BY <2>2 DEF TwoFiles, FileSame, HasFile, TextOf, Store!Fs!Contents
<1>2. CASE CALIB_TMP \notin DOMAIN files
  <2>1. files' = files
    BY <1>2 DEF Store!RemoveIfAny
  <2> QED
    BY <1>2, <2>1 DEF TwoFiles, FileSame, HasFile, TextOf, Store!Fs!Contents
<1> QED
  BY <1>1, <1>2

LEMMA FileRemoved ==
  ASSUME TwoFiles, Store!RemoveIfAny(CALIB_FILE)
  PROVE  TwoFiles' /\ ~HasFile'
<1>1. CASE CALIB_FILE \in DOMAIN files
  <2>1. files' = [m \in DOMAIN files \ {CALIB_FILE} |-> files[m]]
    BY <1>1 DEF Store!RemoveIfAny, Store!Fs!fs_remove, Store!Fs!Without
  <2>2. DOMAIN files' = DOMAIN files \ {CALIB_FILE}
    BY <2>1
  <2> QED
    BY <2>2 DEF TwoFiles, HasFile
<1>2. CASE CALIB_FILE \notin DOMAIN files
  BY <1>2 DEF Store!RemoveIfAny, TwoFiles, HasFile
<1> QED
  BY <1>1, <1>2

LEMMA TmpRenamed ==
  ASSUME TwoFiles, Store!Fs!fs_rename(CALIB_TMP, CALIB_FILE)
  PROVE  TwoFiles' /\ HasFile' /\ TextOf(CALIB_FILE)' = TextOf(CALIB_TMP)
<1>1. /\ CALIB_TMP \in DOMAIN files
      /\ files' = [m \in (DOMAIN files \ {CALIB_TMP}) \cup {CALIB_FILE} |->
                     IF m = CALIB_FILE THEN files[CALIB_TMP] ELSE files[m]]
  BY DEF Store!Fs!fs_rename
<1>2. /\ DOMAIN files' = (DOMAIN files \ {CALIB_TMP}) \cup {CALIB_FILE}
      /\ files'[CALIB_FILE] = files[CALIB_TMP]
  BY <1>1
<1> QED
  BY <1>1, <1>2 DEF TwoFiles, HasFile, TextOf, Store!Fs!Contents

-----------------------------------------------------------------------------
(***************************************************************************)
(* Saving.                                                                 *)
(***************************************************************************)
LEMMA LoadFrame ==
  ASSUME LoadInv, UNCHANGED <<values, loading, load_off, keyq, line, kept, changed>>,
         ~loading => (startups > 0 => startups' > 0), HasFile' = HasFile
  PROVE  LoadInv'
BY DEF LoadInv, Underway, Pending, HasFile

LEMMA FileFrame ==
  ASSUME FileIsOldOrNew, FileSame, kept' = kept
  PROVE  FileIsOldOrNew'
BY DEF FileIsOldOrNew, FileSame, HasFile, TextOf

LEMMA SaveBegins ==
  ASSUME StoreInv, Store!SaveBegin
  PROVE  StoreInv'
<1>1. /\ saving = "begin" /\ saving' = "lines" /\ todo' = Store!ToSave(values)
      /\ Store!RemoveIfAny(CALIB_TMP)
      /\ UNCHANGED <<values, loader, keyq, line, kept, changed>>
  BY DEF Store!SaveBegin, Store!Target, Store!loader, Store!cli, Store!ghosts, loader
<1>2. TwoFiles' /\ FileSame /\ TextOf(CALIB_TMP)' = <<>>
  BY <1>1, TmpRemoved DEF StoreInv, StoreType, TwoFiles
<1>3. StoreType'
  BY <1>1, <1>2 DEF StoreInv, StoreType, TwoFiles, loader
<1>4. SaveInv'
  <2>1. Lines \in Nat /\ Store!ToSave(values) \in SUBSET (1 .. Lines)
    BY Keyed, Saveable DEF StoreInv, StoreType, Valued
  <2>2. todo' = {i \in Store!ToSave(values) : i > 0}
    BY <1>1, <2>1
  <2>3. Store!Fs!Contents(CALIB_TMP)' = Store!Script(values)[0]
    BY <1>2, ScriptSteps DEF TextOf
  <2>4. 0 \in 0 .. Lines /\ ~loading' /\ values' = values
    BY <1>1, <2>1 DEF StoreInv, SaveInv, loader
  <2> QED
    BY <2>2, <2>3, <2>4 DEF SaveInv
<1>5. EchoInv' /\ FileIsOldOrNew' /\ LoadInv'
  BY <1>1, <1>2, LoadFrame, FileFrame DEF StoreInv, EchoInv, FileSame, loader
<1> QED
  BY <1>3, <1>4, <1>5 DEF StoreInv

LEMMA LineEmitted ==
  ASSUME StoreInv, Store!emit_line
  PROVE  StoreInv'
<1> DEFINE S == Store!ToSave(values)
           f == Store!Script(values)
           i == Min(todo)
<1>1. /\ saving = "lines" /\ todo # {} /\ saving' = saving /\ todo' = todo \ {i}
      /\ Store!Fs!fs_append_line(CALIB_TMP, Store!Line(KeyOrder[i], values[KeyOrder[i]]))
      /\ UNCHANGED <<values, loader, keyq, line, kept, changed>>
  BY DEF Store!emit_line, Store!Target, Store!loader, Store!cli, Store!ghosts, loader,
         Store!Min, Min
<1>2. /\ TwoFiles' /\ FileSame
      /\ TextOf(CALIB_TMP)' =
           TextOf(CALIB_TMP) \o Store!Line(KeyOrder[i], values[KeyOrder[i]]) \o <<EOL>>
  BY <1>1, LineAppended DEF StoreInv, StoreType, TwoFiles
<1>3. StoreType'
  BY <1>1, <1>2 DEF StoreInv, StoreType, TwoFiles, loader
<1>4. SaveInv'
  <2>1. PICK n \in 0 .. Lines : todo = {j \in S : j > n} /\ TextOf(CALIB_TMP) = f[n]
    BY <1>1 DEF StoreInv, SaveInv, TextOf
  <2>2. values \in Tunings /\ Lines \in Nat /\ S \in SUBSET (1 .. Lines) /\ n \in Nat
    BY Keyed, Saveable DEF StoreInv, StoreType, Valued
  <2>3. i \in S /\ n < i /\ \A j \in S : n < j => i <= j
    <3>1. todo \in SUBSET Nat
      BY <2>1, <2>2
    <3>2. i \in todo /\ \A j \in todo : i <= j
      BY ONLY <1>1, <3>1, MinFacts
    <3> QED
      BY <2>1, <2>2, <3>2
  <2> HIDE DEF i
  <2>4. i \in 1 .. Lines /\ i - 1 \in 0 .. Lines /\ n <= i - 1
        /\ \A j \in S : ~(n < j /\ j <= i - 1)
    BY <2>2, <2>3
  <2>5. f[i - 1] = f[n]
    BY <2>2, <2>4, ScriptGap
  <2>6. f[i] = Added(values, i, f[i - 1])
    BY <2>4, ScriptSteps
  <2>7. TextOf(CALIB_TMP)' = f[i]
    BY <1>2, <2>1, <2>3, <2>5, <2>6 DEF Added
  <2>8. todo' = {j \in S : j > i}
    BY <1>1, <2>1, <2>2, <2>3
  <2>9. i \in 0 .. Lines /\ ~loading' /\ values' = values
    BY <1>1, <2>4 DEF StoreInv, SaveInv, loader
  <2> QED
    BY <2>7, <2>8, <2>9 DEF SaveInv, TextOf
<1>5. EchoInv' /\ FileIsOldOrNew' /\ LoadInv'
  BY <1>1, <1>2, LoadFrame, FileFrame DEF StoreInv, EchoInv, FileSame, loader
<1> QED
  BY <1>3, <1>4, <1>5 DEF StoreInv

LEMMA SaveFailed ==
  ASSUME StoreInv, Store!SaveFails
  PROVE  StoreInv'
<1>1. /\ saving = "lines" /\ saving' = "no" /\ Store!RemoveIfAny(CALIB_TMP)
      /\ UNCHANGED <<values, loader, keyq, line, kept, changed>>
  BY DEF Store!SaveFails, Store!Target, Store!loader, Store!cli, Store!ghosts, loader
<1>2. TwoFiles' /\ FileSame
  BY <1>1, TmpRemoved DEF StoreInv, StoreType, TwoFiles
<1>3. StoreType' /\ SaveInv'
  BY <1>1, <1>2 DEF StoreInv, StoreType, SaveInv, TwoFiles, loader
<1>4. EchoInv' /\ FileIsOldOrNew' /\ LoadInv'
  BY <1>1, <1>2, LoadFrame, FileFrame DEF StoreInv, EchoInv, FileSame, loader
<1> QED
  BY <1>3, <1>4 DEF StoreInv

LEMMA SaveEnds ==
  ASSUME StoreInv, Store!SaveDone
  PROVE  StoreInv'
<1> DEFINE S == Store!ToSave(values)
           f == Store!Script(values)
<1>1. /\ saving = "lines" /\ todo = {} /\ saving' = "no" /\ kept' = values /\ changed' = FALSE
      /\ IF S = {} THEN Store!RemoveIfAny(CALIB_FILE) ELSE Store!Fs!fs_rename(CALIB_TMP, CALIB_FILE)
      /\ UNCHANGED <<values, loader, keyq, line>>
  BY DEF Store!SaveDone, Store!Target, Store!loader, Store!cli, loader
<1>2. values \in Tunings /\ (\A k \in Items : values[k] # Uncalibrated) /\ TwoFiles /\ ~loading
  BY <1>1 DEF StoreInv, StoreType, SaveInv, Valued, TwoFiles
<1>3. TwoFiles'
  BY <1>1, <1>2, FileRemoved, TmpRenamed
<1>4. StoreType'
  BY <1>1, <1>3 DEF StoreInv, StoreType, TwoFiles, loader
<1>5. SaveInv' /\ EchoInv'
  BY <1>1 DEF StoreInv, SaveInv, EchoInv, loader
<1>6. FileIsOldOrNew'
  <2>1. CASE S = {}
    <3>1. ~HasFile'
      BY <1>1, <1>2, <2>1, FileRemoved
    <3>2. \A k \in Store!Keys : values[k] = Uncalibrated /\ k \notin Items
      BY <1>2, <2>1, Saveable
    <3>3. values = Store!Defaults
      BY <1>2, <3>2 DEF Store!Defaults, Tunings
    <3> QED
      BY <1>1, <3>1, <3>3 DEF FileIsOldOrNew, HasFile
  <2>2. CASE S # {}
    <3>1. HasFile' /\ TextOf(CALIB_FILE)' = TextOf(CALIB_TMP)
      BY <1>1, <1>2, <2>2, TmpRenamed
    <3>2. PICK n \in 0 .. Lines : todo = {j \in S : j > n} /\ TextOf(CALIB_TMP) = f[n]
      BY <1>1 DEF StoreInv, SaveInv, TextOf
    <3>3. Lines \in Nat /\ S \in SUBSET (1 .. Lines)
      BY <1>2, Keyed, Saveable
    <3>4. Lines \in 0 .. Lines /\ n <= Lines /\ \A j \in S : ~(n < j /\ j <= Lines)
      BY <1>1, <3>2, <3>3
    <3>5. f[Lines] = f[n]
      BY <1>2, <3>4, ScriptGap
    <3>6. TextOf(CALIB_FILE)' = Store!Whole(values)
      BY <3>1, <3>2, <3>5 DEF Store!Whole, Lines
    <3> QED
      BY <1>1, <3>1, <3>6 DEF FileIsOldOrNew, HasFile, TextOf
  <2> QED
    BY <2>1, <2>2
<1>7. LoadInv'
  <2>1. keyq' = <<>> /\ line' = <<>> /\ ~loading' /\ values' = kept'
    BY <1>1, <1>2 DEF StoreInv, LoadInv, loader
  <2> QED
    BY <2>1 DEF LoadInv
<1> QED
  BY <1>4, <1>5, <1>6, <1>7 DEF StoreInv

LEMMA RenameFailed ==
  ASSUME StoreInv, Store!RenameFails
  PROVE  StoreInv'
<1>1. /\ saving = "lines" /\ saving' = "no"
      /\ UNCHANGED <<values, files, todo, loader, keyq, line, kept, changed>>
  BY DEF Store!RenameFails, Store!loader, Store!cli, Store!ghosts, loader
<1>2. StoreType' /\ SaveInv'
  BY <1>1 DEF StoreInv, StoreType, SaveInv, loader
<1>3. FileSame /\ HasFile' = HasFile
  BY <1>1 DEF FileSame, HasFile, TextOf, Store!Fs!Contents
<1>4. EchoInv' /\ FileIsOldOrNew' /\ LoadInv'
  BY <1>1, <1>3, LoadFrame, FileFrame DEF StoreInv, EchoInv, loader
<1> QED
  BY <1>2, <1>4 DEF StoreInv

-----------------------------------------------------------------------------
(***************************************************************************)
(* Loading.                                                                *)
(***************************************************************************)
\* The file is that of the values last saved, or there is none.
LEMMA FileRead ==
  ASSUME StoreInv
  PROVE  Store!Saved = IF HasFile THEN Store!Whole(kept) ELSE <<>>
BY DEF StoreInv, FileIsOldOrNew, HasFile, Store!Saved, Store!Fs!Contents

LEMMA Loads ==
  ASSUME StoreInv, HasFile, NEW n \in 0 .. Lines, keyq = <<>>, line = <<>>, ~changed => Pending(n),
         Store!Feed(0, Len(Store!Script(kept)[n])), loading' = TRUE,
         UNCHANGED <<values, files, line, kept, changed>>
  PROVE  LoadInv' /\ steps' = 1
<1>1. kept \in Tunings /\ Lines \in Nat
  BY Keyed DEF StoreInv, StoreType, Valued
<1>2. PICK i \in Store!ToSave(kept) :
        /\ n < i /\ \A j \in Store!ToSave(kept) : n < j => i <= j
        /\ load_off' = Len(Store!Script(kept)[i])
        /\ keyq' = <<Cell(kept, i), EOL>>
        /\ steps' = 0 + 1
  BY <1>1, FileRead, Feeding
<1>3. Store!ToSave(kept) \in SUBSET (1 .. Lines)
  BY <1>1, Saveable
<1>4. Underway(i)' /\ keyq' # <<>>
  BY <1>2 DEF Underway
<1>5. ~changed => Pending(i)'
  <2> SUFFICES ASSUME ~changed, NEW k \in Store!Keys, values[k] # kept[k]
               PROVE  \E j \in Store!ToSave(kept) : KeyOrder[j] = k /\ (j > i \/ j = i)
    BY <1>4 DEF Pending
  <2>1. PICK j \in Store!ToSave(kept) : KeyOrder[j] = k /\ j > n
    BY DEF Pending
  <2> QED
    BY <1>2, <1>3, <2>1
<1>6. i \in 0 .. Lines
  BY <1>1, <1>3
<1> QED
  BY <1>2, <1>4, <1>5, <1>6 DEF LoadInv, HasFile

\* At the end of the file no line is missing.
LEMMA Loaded ==
  ASSUME StoreInv, NEW n \in 0 .. Lines, keyq = <<>>, Pending(n),
         Len(Store!Script(kept)[n]) >= Len(Store!Whole(kept))
  PROVE  values = kept
<1>1. kept \in Tunings /\ values \in Tunings
  BY DEF StoreInv, StoreType, Valued
<1>2. Store!Whole(kept) \in Text /\ Len(Store!Script(kept)[n]) \in Nat
  BY <1>1, NextLine
<1>3. Len(Store!Whole(kept)) \in Nat
  BY <1>2 DEF Text
<1>4. \A i \in Store!ToSave(kept) : i <= n
  BY <1>1, <1>2, <1>3, NextLine
<1>5. Store!ToSave(kept) \in SUBSET (1 .. Lines) /\ Lines \in Nat
  BY <1>1, Keyed, Saveable
<1>6. \A k \in Store!Keys : values[k] = kept[k]
  BY <1>4, <1>5 DEF Pending
<1> QED
  BY <1>1, <1>6 DEF Tunings

LEMMA StartupKeeps ==
  ASSUME StoreInv, Store!calib_startup
  PROVE  StoreInv'
<1>1. /\ saving = "no" /\ startups > 0 /\ startups' = startups - 1
      /\ UNCHANGED <<values, files, saving, todo, line, kept, changed>>
  BY DEF Store!calib_startup, Store!save, Store!ghosts
<1>2. FileIsOldOrNew' /\ SaveInv'
  BY <1>1 DEF StoreInv, FileIsOldOrNew, SaveInv, Store!Fs!Contents
<1>3. startups' \in Nat
  BY <1>1 DEF StoreInv, StoreType
<1>4. CASE loading
  <2>1. UNCHANGED <<steps, loading, load_off, saved_echo, echo, keyq>>
    BY <1>4 DEF Store!calib_startup, Store!Busy
  <2>2. StoreType' /\ EchoInv'
    BY <1>1, <1>3, <2>1 DEF StoreInv, StoreType, EchoInv
  <2>3. LoadInv'
    BY <1>1, <1>4, <2>1, LoadFrame DEF StoreInv, HasFile
  <2> QED
    BY <1>2, <2>2, <2>3 DEF StoreInv
<1>5. CASE ~loading
  <2>1. keyq = <<>> /\ line = <<>> /\ steps = 0 /\ echo /\ echo \in BOOLEAN
    BY <1>5 DEF StoreInv, StoreType, LoadInv, EchoInv
  <2>2. saved_echo' = echo
    BY <1>5 DEF Store!calib_startup, Store!Busy
  <2>3. Lines \in Nat /\ 0 \in 0 .. Lines /\ Len(Store!Script(kept)[0]) = 0
    BY Keyed, ScriptSteps
  <2>4. ~changed => values = kept \/ (HasFile /\ Pending(0))
    BY <1>5 DEF StoreInv, LoadInv, HasFile
  <2>5. CASE Store!Feed(0, 0) /\ echo' = FALSE /\ loading' = TRUE
    <3>1. HasFile
      <4>1. 0 < Len(Store!Saved)
        BY <2>5 DEF Store!Feed
      <4> QED
        BY <4>1, FileRead
    <3>2. ~changed => Pending(0)
      BY <2>4 DEF Pending
    <3>3. LoadInv' /\ steps' = 1
      BY <1>1, <2>1, <2>3, <2>5, <3>1, <3>2, Loads
    <3>4. StoreType' /\ EchoInv'
      BY <1>1, <1>3, <2>1, <2>2, <2>5, <3>3 DEF StoreInv, StoreType, EchoInv
    <3> QED
      BY <1>1, <1>2, <3>3, <3>4 DEF StoreInv
  <2>6. CASE Store!Ends(0, 0, echo)
    <3>1. /\ loading' = FALSE /\ steps' = 0 /\ keyq' = keyq /\ echo' = (echo \/ echo)
          /\ 0 >= Len(Store!Saved)
      BY <2>6 DEF Store!Ends
    <3>2. ~changed => values = kept
      <4>1. CASE HasFile
        <5>1. 0 >= Len(Store!Whole(kept))
          BY <3>1, <4>1, FileRead
        <5> QED
          BY <2>1, <2>3, <2>4, <5>1, Loaded
      <4>2. CASE ~HasFile
        BY <2>4, <4>2
      <4> QED
        BY <4>1, <4>2
    <3>3. LoadInv'
      BY <1>1, <2>1, <3>1, <3>2 DEF LoadInv
    <3>4. EchoInv'
      BY <2>1, <3>1 DEF EchoInv
    <3>5. StoreType'
      BY <1>1, <1>3, <2>1, <2>2, <3>1 DEF StoreInv, StoreType
    <3> QED
      BY <1>2, <3>3, <3>4, <3>5 DEF StoreInv
  <2> QED
    BY <1>5, <2>1, <2>5, <2>6 DEF Store!calib_startup, Store!Busy
<1> QED
  BY <1>4, <1>5

LEMMA StepKeeps ==
  ASSUME StoreInv, Store!calib_step
  PROVE  StoreInv'
<1>1. /\ saving = "no" /\ steps > 0 /\ keyq = <<>>
      /\ UNCHANGED <<values, files, saving, todo, startups, saved_echo, line, kept, changed>>
  BY DEF Store!calib_step, Store!LineTaken, Store!save, Store!ghosts
<1>2. /\ loading /\ steps - 1 = 0 /\ HasFile
      /\ saved_echo /\ saved_echo \in BOOLEAN /\ echo \in BOOLEAN
  BY <1>1 DEF StoreInv, StoreType, LoadInv, EchoInv, HasFile
<1>3. PICK n \in 0 .. Lines :
        load_off = Len(Store!Script(kept)[n]) /\ Underway(n) /\ (~changed => Pending(n))
  BY <1>2 DEF StoreInv, LoadInv
<1>4. line = <<>>
  BY <1>1, <1>3 DEF Underway
<1>5. FileIsOldOrNew' /\ SaveInv'
  BY <1>1 DEF StoreInv, FileIsOldOrNew, SaveInv, Store!Fs!Contents
<1>6. CASE Store!Feed(0, load_off) /\ UNCHANGED <<echo, loading>>
  <2>1. LoadInv' /\ steps' = 1
    BY <1>1, <1>2, <1>3, <1>4, <1>6, Loads
  <2>2. StoreType' /\ EchoInv'
    BY <1>1, <1>2, <1>6, <2>1 DEF StoreInv, StoreType, EchoInv
  <2> QED
    BY <1>5, <2>1, <2>2 DEF StoreInv
<1>7. CASE Store!Ends(0, load_off, saved_echo)
  <2>1. /\ loading' = FALSE /\ steps' = 0 /\ keyq' = keyq /\ echo' = (echo \/ saved_echo)
        /\ load_off >= Len(Store!Saved)
    BY <1>7 DEF Store!Ends
  <2>2. ~changed => values = kept
    BY <1>1, <1>2, <1>3, <2>1, FileRead, Loaded
  <2>3. LoadInv'
    BY <1>1, <1>4, <2>1, <2>2 DEF LoadInv
  <2>4. EchoInv'
    BY <1>2, <2>1 DEF EchoInv
  <2>5. StoreType'
    BY <1>1, <1>2, <2>1 DEF StoreInv, StoreType
  <2> QED
    BY <1>5, <2>3, <2>4, <2>5 DEF StoreInv
<1> QED
  BY <1>2, <1>6, <1>7 DEF Store!calib_step

LEMMA KeyKeeps ==
  ASSUME StoreInv, Store!CliKey
  PROVE  StoreInv'
<1>1. /\ saving = "no" /\ keyq # <<>> /\ keyq' = Tail(keyq)
      /\ line' = IF Head(keyq) = EOL THEN <<>> ELSE Append(line, Head(keyq))
      /\ values' = IF Head(keyq) = EOL /\ Len(line) = 1
                   THEN [values EXCEPT ![line[1].word] = line[1].value] ELSE values
      /\ UNCHANGED <<files, saving, todo, loader, kept, changed>>
  BY DEF Store!CliKey, Store!save, Store!ghosts, Store!loader, loader
<1>2. loading /\ HasFile
  BY <1>1 DEF StoreInv, LoadInv, HasFile
<1>3. PICK n \in 0 .. Lines :
        load_off = Len(Store!Script(kept)[n]) /\ Underway(n) /\ (~changed => Pending(n))
  BY <1>2 DEF StoreInv, LoadInv
<1>4. n \in Store!ToSave(kept)
  BY <1>1, <1>3 DEF Underway
<1> DEFINE c == Cell(kept, n)
<1>5. /\ c \in Cells /\ c # EOL /\ c.word = KeyOrder[n] /\ c.value = kept[KeyOrder[n]]
      /\ kept \in Tunings /\ values \in Tunings
  BY <1>4, Saveable DEF StoreInv, StoreType, Valued, Cell
<1> HIDE DEF c
<1>6. FileIsOldOrNew' /\ EchoInv'
  BY <1>1 DEF StoreInv, FileIsOldOrNew, EchoInv, Store!Fs!Contents, loader
<1>7. SaveInv'
  BY <1>1 DEF SaveInv
<1>8. CASE keyq = <<c, EOL>> /\ line = <<>>
  <2>1. Head(keyq) = c /\ Tail(keyq) = <<EOL>> /\ Append(line, c) = <<c>>
    BY <1>8
  <2>2. keyq' = <<EOL>> /\ line' = <<c>> /\ values' = values
    BY <1>1, <1>5, <2>1
  <2>3. Underway(n)'
    BY <1>1, <1>4, <2>2 DEF Underway, c
  <2>4. ~changed => Pending(n)'
    <3>1. keyq' # <<>>
      BY <2>2
    <3> QED
      BY <1>1, <1>3, <1>8, <2>2, <3>1 DEF Pending
  <2>5. LoadInv'
    BY <1>1, <1>2, <1>3, <2>3, <2>4 DEF LoadInv, HasFile, loader
  <2>6. StoreType'
    BY <1>1, <2>2 DEF StoreInv, StoreType, loader
  <2> QED
    BY <1>6, <1>7, <2>5, <2>6 DEF StoreInv
<1>9. CASE keyq = <<EOL>> /\ line = <<c>>
  <2>1. Head(keyq) = EOL /\ Tail(keyq) = <<>> /\ Len(line) = 1 /\ line[1] = c
    BY <1>9
  <2>2. keyq' = <<>> /\ line' = <<>> /\ values' = [values EXCEPT ![KeyOrder[n]] = kept[KeyOrder[n]]]
    BY <1>1, <1>5, <2>1
  <2>3. Underway(n)'
    BY <2>2 DEF Underway
  <2>4. ~changed => Pending(n)'
    <3> SUFFICES ASSUME ~changed, NEW k \in Store!Keys, values'[k] # kept[k]
                 PROVE  \E j \in Store!ToSave(kept) : KeyOrder[j] = k /\ j > n
      BY <1>1 DEF Pending
    <3>1. k # KeyOrder[n] /\ values'[k] = values[k]
      BY <1>5, <2>2 DEF Tunings
    <3>2. PICK j \in Store!ToSave(kept) : KeyOrder[j] = k /\ (j > n \/ j = n)
      BY <1>3, <3>1 DEF Pending
    <3> QED
      BY <3>1, <3>2
  <2>5. LoadInv'
    BY <1>1, <1>2, <1>3, <2>3, <2>4 DEF LoadInv, HasFile, loader
  <2>6. Valued(values')
    <3>1. c.value \in Values \cup {Default} /\ c.value # Uncalibrated
      BY <1>5 DEF Cells
    <3> QED
      BY <1>5, <2>2, <3>1 DEF StoreInv, StoreType, Valued, Tunings
  <2>7. StoreType'
    BY <1>1, <2>6 DEF StoreInv, StoreType, loader
  <2> QED
    BY <1>6, <1>7, <2>5, <2>7 DEF StoreInv
<1> QED
  BY <1>1, <1>3, <1>8, <1>9 DEF Underway, c

\* Another load is asked for, a save is, or a value is set.
LEMMA AskedLoad ==
  ASSUME StoreInv, Store!calib_load
  PROVE  StoreInv'
<1>1. /\ startups' = startups + 1
      /\ UNCHANGED <<values, files, saving, todo, steps, loading, load_off, saved_echo, echo,
                     keyq, line, kept, changed>>
  BY DEF Store!calib_load, Store!save, Store!cli, Store!ghosts
<1>2. startups' \in Nat /\ startups' > 0
  BY <1>1 DEF StoreInv, StoreType
<1>3. StoreType' /\ SaveInv' /\ EchoInv' /\ FileIsOldOrNew'
  BY <1>1, <1>2 DEF StoreInv, StoreType, SaveInv, EchoInv, FileIsOldOrNew, Store!Fs!Contents
<1>4. LoadInv'
  BY <1>1, <1>2, LoadFrame DEF StoreInv, HasFile
<1> QED
  BY <1>3, <1>4 DEF StoreInv

LEMMA AskedSave ==
  ASSUME StoreInv, Store!calib_cli_save
  PROVE  StoreInv'
<1>1. /\ ~loading /\ saving' = "begin"
      /\ UNCHANGED <<values, files, todo, loader, keyq, line, kept, changed>>
  BY DEF Store!calib_cli_save, Store!Quiet, Store!loader, Store!cli, Store!ghosts, loader
<1>2. StoreType' /\ SaveInv' /\ EchoInv' /\ FileIsOldOrNew'
  BY <1>1 DEF StoreInv, StoreType, SaveInv, EchoInv, FileIsOldOrNew, Store!Fs!Contents, loader
<1>3. LoadInv'
  BY <1>1, LoadFrame DEF StoreInv, HasFile, loader
<1> QED
  BY <1>2, <1>3 DEF StoreInv

\* A new value, while nothing is being loaded or saved: it has still to be saved,
\* or it is what was saved.
LEMMA ValueChanges ==
  ASSUME StoreInv, Store!Quiet, Valued(values'), changed' \in BOOLEAN,
         ~changed' => values' = values /\ ~changed,
         saving' \in {"no", "begin"},
         UNCHANGED <<files, todo, loader, keyq, line, kept>>
  PROVE  StoreInv'
<1>1. saving = "no" /\ ~loading /\ keyq = <<>> /\ line = <<>> /\ startups = 0
  BY DEF Store!Quiet
<1>2. StoreType'
  BY DEF StoreInv, StoreType, loader
<1>3. SaveInv' /\ EchoInv' /\ FileIsOldOrNew'
  BY <1>1 DEF StoreInv, SaveInv, EchoInv, FileIsOldOrNew, Store!Fs!Contents, loader
<1>4. ~changed => values = kept
  BY <1>1 DEF StoreInv, LoadInv
<1>5. LoadInv'
  BY <1>1, <1>4 DEF LoadInv, loader
<1> QED
  BY <1>2, <1>3, <1>5 DEF StoreInv

LEMMA UserSet ==
  ASSUME StoreInv, NEW k \in Store!Keys, NEW v \in Values, Store!UserSets(k, v)
  PROVE  StoreInv'
<1>1. /\ Store!Quiet /\ values' = [values EXCEPT ![k] = v] /\ changed' = TRUE
      /\ UNCHANGED <<files, saving, todo, loader, keyq, line, kept>>
  BY DEF Store!UserSets, Store!save, Store!loader, Store!cli, loader
<1>2. Valued(values')
  BY <1>1 DEF StoreInv, StoreType, Valued, Tunings
<1>3. saving' = "no"
  BY <1>1 DEF Store!Quiet
<1> QED
  BY <1>1, <1>2, <1>3, ValueChanges

\* What a step of the run does to the values: none, or the end of a run that
\* found a transition sets one and calls calib_save().
LEMMA WireEffects ==
  ASSUME Valued(values), WireNext
  PROVE  \/ UNCHANGED <<values, saving>>
         \/ saving = "no" /\ saving' = "begin" /\ Valued(values')
<1>1. CASE Samples \/ FrameAdopts \/ \E a \in timed : TimerFires(a)
  BY <1>1 DEF Samples, on_sample, FrameAdopts, TimerFires
<1>2. CASE Actions
  BY <1>2 DEF Actions, RunAction, DrainBegin, step_begin_measure, measure_timeout, mon_report,
              abort_with
<1>3. CASE drain
  <2>1. saving = "no"
    BY <1>3 DEF drain
  <2>2. ASSUME NEW n, complete(n)
        PROVE  \/ UNCHANGED <<values, saving>>
               \/ saving' = "begin" /\ Valued(values')
    <3>1. ASSUME NEW r \in Results, values' = [values EXCEPT ![ch + 1] = r]
          PROVE  Valued(values')
      BY <3>1 DEF Valued, Tunings
    <3> QED
      BY <2>2, <3>1 DEF complete
  <2>3. CASE take_sample(Head(ring))
    BY <2>1, <2>2, <2>3 DEF take_sample, step_done, abort_with
  <2>4. CASE UNCHANGED <<values, saving>>
    BY <2>4
  <2> QED
    BY <1>3, <2>3, <2>4 DEF drain
<1>4. CASE Words
  BY <1>4 DEF Words, wirecal_start, UserDrives, UserRelaxes, wirecal_stop, abort_with,
              wirecal_cli_isns
<1> QED
  BY <1>1, <1>2, <1>3, <1>4 DEF WireNext

LEMMA WireKeeps ==
  ASSUME StoreInv, WireStep
  PROVE  StoreInv'
<1>1. /\ WireTurn /\ WireNext /\ changed' = (changed \/ values' # values)
      /\ UNCHANGED <<files, todo, loader, keyq, line, kept>>
  BY DEF WireStep, WireFrame
<1>2. changed \in BOOLEAN
  BY DEF StoreInv, StoreType
<1>3. CASE UNCHANGED <<values, saving>>
  <2>1. changed' = changed
    BY <1>1, <1>2, <1>3
  <2>2. StoreType' /\ SaveInv' /\ EchoInv' /\ FileIsOldOrNew'
    BY <1>1, <1>3, <2>1
       DEF StoreInv, StoreType, SaveInv, EchoInv, FileIsOldOrNew, Store!Fs!Contents, loader
  <2>3. LoadInv'
    BY <1>1, <1>3, <2>1, LoadFrame DEF StoreInv, HasFile, loader
  <2> QED
    BY <2>2, <2>3 DEF StoreInv
<1>4. CASE saving = "no" /\ saving' = "begin" /\ Valued(values')
  <2>1. Store!Quiet
    BY <1>1, <1>4 DEF WireTurn
  <2>2. changed' \in BOOLEAN /\ (~changed' => values' = values /\ ~changed)
    BY <1>1, <1>2
  <2> QED
    BY <1>1, <1>4, <2>1, <2>2, ValueChanges
<1> QED
  BY <1>1, <1>3, <1>4, WireEffects DEF StoreInv, StoreType

\* A boot starts with the defaults; what was saved and is not the default has
\* a line in the file.
LEMMA Booting ==
  /\ Valued(Store!Defaults)
  /\ \A vals : Valued(vals) => \A k \in Store!Keys :
       Store!Defaults[k] = vals[k] \/ \E i \in Store!ToSave(vals) : KeyOrder[i] = k /\ i > 0
<1>1. Valued(Store!Defaults)
  BY DEF Valued, Tunings, Store!Defaults
<1>2. ASSUME NEW vals, Valued(vals), NEW k \in Store!Keys, Store!Defaults[k] # vals[k]
      PROVE  \E i \in Store!ToSave(vals) : KeyOrder[i] = k /\ i > 0
  <2>1. vals[k] # Uncalibrated
    BY <1>2 DEF Valued, Store!Defaults
  <2>2. vals \in Tunings
    BY <1>2 DEF Valued
  <2> QED
    BY <2>1, <2>2, Keyed, Saveable
<1> QED
  BY <1>1, <1>2

LEMMA PowerKeeps ==
  ASSUME StoreInv, PowerLoss
  PROVE  StoreInv'
<1>1. /\ values' = Store!Defaults /\ changed' = FALSE /\ saving' = "no"
      /\ startups' = 1 /\ steps' = 0 /\ loading' = FALSE /\ saved_echo' = FALSE /\ echo' = TRUE
      /\ keyq' = <<>> /\ line' = <<>> /\ UNCHANGED <<files, kept>>
  BY DEF PowerLoss, Store!Boots
<1>2. StoreType'
  BY <1>1, Booting DEF StoreInv, StoreType
<1>3. SaveInv' /\ EchoInv' /\ FileIsOldOrNew'
  BY <1>1 DEF StoreInv, SaveInv, EchoInv, FileIsOldOrNew, Store!Fs!Contents
<1>4. LoadInv'
  <2>1. CASE HasFile
    <3>1. Pending(0)'
      BY <1>1, Booting DEF StoreInv, StoreType, Pending
    <3> QED
      BY <1>1, <2>1, <3>1 DEF LoadInv, HasFile
  <2>2. CASE ~HasFile
    <3>1. values' = kept'
      BY <1>1, <2>2 DEF StoreInv, FileIsOldOrNew, HasFile
    <3> QED
      BY <1>1, <3>1 DEF LoadInv
  <2> QED
    BY <2>1, <2>2
<1> QED
  BY <1>2, <1>3, <1>4 DEF StoreInv

LEMMA StoreStarts ==
  ASSUME Init
  PROVE  StoreInv
<1>1. /\ values = Store!Defaults /\ kept = Store!Defaults /\ changed = FALSE /\ files = <<>>
      /\ saving = "no" /\ startups = 1 /\ steps = 0 /\ loading = FALSE /\ saved_echo = FALSE
      /\ echo = TRUE /\ keyq = <<>> /\ line = <<>>
  BY DEF Init, Store!CalibInit, Store!Fs!Init
<1>2. DOMAIN files = {}
  BY <1>1
<1>3. StoreType
  BY <1>1, <1>2, Booting DEF StoreType
<1>4. SaveInv /\ EchoInv /\ FileIsOldOrNew /\ LoadInv
  BY <1>1, <1>2 DEF SaveInv, EchoInv, FileIsOldOrNew, LoadInv
<1> QED
  BY <1>3, <1>4 DEF StoreInv

LEMMA StoreSteps ==
  ASSUME StoreInv, [Next]_vars
  PROVE  StoreInv'
<1>1. CASE UNCHANGED vars
  BY <1>1 DEF vars, loader, StoreInv, StoreType, SaveInv, EchoInv, FileIsOldOrNew, LoadInv,
              Underway, Pending, Store!Fs!Contents
<1>2. CASE StoreStep
  <2>1. CASE Store!Saving
    BY <2>1, SaveBegins, LineEmitted, SaveFailed, SaveEnds, RenameFailed DEF Store!Saving
  <2>2. CASE \E k \in Store!Keys, v \in Values : Store!UserSets(k, v)
    BY <2>2, UserSet
  <2> QED
    BY <1>2, <2>1, <2>2, StartupKeeps, StepKeeps, KeyKeeps, AskedLoad, AskedSave
       DEF StoreStep, Store!CalibNext
<1> QED
  BY <1>1, <1>2, WireKeeps, PowerKeeps DEF Next

LEMMA StoreAlways == Spec => []StoreInv
<1>1. Init => StoreInv
  BY StoreStarts
<1>2. StoreInv /\ [Next]_vars => StoreInv'
  BY StoreSteps
<1> QED
  BY <1>1, <1>2, PTL DEF Spec

\* Whatever a save was doing when it failed or the power did, the file is the
\* whole of the values last saved.
THEOREM FileKept == Spec => []FileIsOldOrNew
<1>1. StoreInv => FileIsOldOrNew
  BY DEF StoreInv
<1> QED
  BY <1>1, StoreAlways, PTL

\* Once a boot's load is over the values are the ones last saved.
THEOREM Restored == Spec => []SavedIsRestored
<1>1. StoreInv => SavedIsRestored
  BY DEF StoreInv, LoadInv, SavedIsRestored, Store!Quiet
<1> QED
  BY <1>1, StoreAlways, PTL

\* The CLI echoes again once no load runs.
THEOREM EchoKept == Spec => []EchoComesBack
<1>1. StoreInv => EchoComesBack
  BY DEF StoreInv, EchoInv, EchoComesBack
<1> QED
  BY <1>1, StoreAlways, PTL

\* The state keeps its types: the ring and the key queue never overflow.
THEOREM TypeCorrect == Spec => []TypeOK
<1>1. RunInv /\ StoreInv => TypeOK
  <2> SUFFICES ASSUME RunInv, StoreInv PROVE TypeOK
    OBVIOUS
  <2>1. Len(keyq) <= KEYQ
    <3>1. CASE loading
      <4>1. PICK n \in 0 .. Lines : Underway(n)
        BY <3>1 DEF StoreInv, LoadInv
      <4>2. keyq = <<>> \/ keyq = <<Cell(kept, n), EOL>> \/ keyq = <<EOL>>
        BY <4>1 DEF Underway
      <4>3. CASE keyq = <<>>
        BY <4>3
      <4>4. CASE keyq = <<Cell(kept, n), EOL>>
        BY <4>4
      <4>5. CASE keyq = <<EOL>>
        BY <4>5
      <4> QED
        BY <4>2, <4>3, <4>4, <4>5
    <3>2. CASE ~loading
      BY <3>2 DEF StoreInv, LoadInv
    <3> QED
      BY <3>1, <3>2
  <2>2. /\ fitted \in SUBSET Table!Limbs /\ act \in [Table!Channels -> 0 .. WC_MAX_PCT]
        /\ state \in {"IDLE", "REST", "SETTLE", "MEASURE"}
        /\ npts \in 0 .. WC_MAX_POINTS /\ Len(samples) <= WC_SAMPLES /\ Len(ring) < RING
    BY DEF RunInv, TableType, RunType, CaptureType, Tables
  <2>3. /\ values \in [Store!Keys -> Values \cup {Default, Uncalibrated}]
        /\ saving \in {"no", "begin", "lines"}
        /\ DOMAIN files \subseteq {CALIB_FILE, CALIB_TMP}
    BY DEF StoreInv, StoreType, Valued, Tunings
  <2> QED
    BY <2>1, <2>2, <2>3 DEF TypeOK
<1> QED
  BY <1>1, RunsAlways, StoreAlways, PTL
=============================================================================
