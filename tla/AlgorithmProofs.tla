-------------------------- MODULE AlgorithmProofs --------------------------
(***************************************************************************)
(* What the pure algorithms compute, for every input: the scan and the     *)
(* matching of ignore patterns, the canonical root path, the LRU cache,    *)
(* whatever is read from it and put into it, the results of a search,      *)
(* slugs, and the texts that registering a project merges into.            *)
(*                                                                         *)
(* What is computed step by step is a recursive function here, and what    *)
(* holds after every step is shown by induction over the number of steps;  *)
(* the scan has no such number, and is shown right by a counterexample     *)
(* that would be the last one on its way.                                  *)
(***************************************************************************)
EXTENDS Algorithms, FiniteSetTheorems, SequenceTheorems, WellFoundedInduction, TLAPS

-----------------------------------------------------------------------------
(* Induction: of a set of numbers there is a least one.                    *)

\* A set of numbers that is not empty has a least one.
LEMMA LeastNumber ==
    ASSUME NEW S \in SUBSET Nat, S # {}
    PROVE  \E n \in S : \A m \in S : n <= m
<1>1. PICK T : T = {1 .. n : n \in S}
  OBVIOUS
<1>2. T \subseteq FiniteSubsetsOf(Nat) /\ T # {}
  <2>1. \A n \in S : IsFiniteSet(1 .. n) /\ 1 .. n \subseteq Nat
    BY FS_Interval
  <2> QED
    BY <1>1, <2>1 DEF FiniteSubsetsOf
<1>3. PICK x \in T : \A y \in T : ~ (<<y, x>> \in StrictSubsetOrdering(Nat))
  BY <1>2, FS_StrictSubsetOrderingWellFounded, WFMin, Zenon
<1>4. PICK n \in S : x = 1 .. n
  BY <1>1
<1>5. ASSUME NEW m \in S, m < n PROVE FALSE
  <2>1. 1 .. m \in T
    BY <1>1
  <2>2. n \in 1 .. n /\ n \notin 1 .. m /\ 1 .. m \subseteq 1 .. n
    BY <1>5
  <2>3. <<1 .. m, 1 .. n>> \in StrictSubsetOrdering(Nat)
    BY <2>2 DEF StrictSubsetOrdering
  <2> QED
    BY <1>3, <1>4, <2>1, <2>3
<1> QED
  BY <1>5

\* Induction, over the numbers that a set has.
LEMMA Induction ==
    ASSUME NEW S, 0 \in S, \A n \in Nat : n \in S => n + 1 \in S
    PROVE  Nat \subseteq S
<1>1. SUFFICES ASSUME NEW k \in Nat, k \notin S PROVE FALSE
  OBVIOUS
<1>2. PICK n \in Nat \ S : \A m \in Nat \ S : n <= m
  BY <1>1, LeastNumber
<1>3. n # 0 /\ n - 1 \in Nat /\ n - 1 \in S
  BY <1>2
<1> QED
  BY <1>2, <1>3

\* Induction up to a number.
LEMMA InductionUpTo ==
    ASSUME NEW k \in Nat, NEW S, 0 \in S, \A n \in 0 .. k - 1 : n \in S => n + 1 \in S
    PROVE  0 .. k \subseteq S
<1>1. PICK T : T = {n \in Nat : n <= k => n \in S}
  OBVIOUS
<1>2. 0 \in T /\ \A n \in Nat : n \in T => n + 1 \in T
  BY <1>1
<1>3. Nat \subseteq T
  BY <1>2, Induction
<1> QED
  BY <1>1, <1>3

\* The first m + 1 values of an iteration of F from a.
Iterates(A, a, F, m) ==
    {g \in [0 .. m -> A] : g[0] = a /\ \A i \in 1 .. m : g[i] = F[<<g[i - 1], i>>]}

\* There are such values, for any m.
LEMMA Iteration ==
    ASSUME NEW A, NEW a \in A, NEW F \in [A \X Nat -> A], NEW k \in Nat
    PROVE  Iterates(A, a, F, k) # {}
<1>1. PICK S : S = {m \in Nat : Iterates(A, a, F, m) # {}}
  OBVIOUS
<1>2. 0 \in S
  <2>1. [i \in 0 .. 0 |-> a] \in Iterates(A, a, F, 0)
    BY DEF Iterates
  <2> QED
    BY <2>1, <1>1
<1>3. ASSUME NEW m \in Nat, m \in S PROVE m + 1 \in S
  <2>1. PICK g \in [0 .. m -> A] : g \in Iterates(A, a, F, m)
    BY <1>1, <1>3 DEF Iterates
  <2>2. PICK h : h = [i \in 0 .. m + 1 |-> IF i = m + 1 THEN F[<<g[m], m + 1>>] ELSE g[i]]
    OBVIOUS
  <2>3. <<g[m], m + 1>> \in A \X Nat
    BY <2>1
  <2>4. h \in [0 .. m + 1 -> A]
    BY <2>2, <2>3
  <2>5. h[0] = a
    BY <2>1, <2>2 DEF Iterates
  <2>6. ASSUME NEW i \in 1 .. m + 1 PROVE h[i] = F[<<h[i - 1], i>>]
    <3>1. CASE i = m + 1
      <4>1. h[m] = g[m] /\ h[m + 1] = F[<<g[m], m + 1>>]
        BY <2>2
      <4>2. i - 1 = m
        BY <3>1
      <4> QED
        BY <3>1, <4>1, <4>2
    <3>2. CASE i # m + 1
      <4>1. i \in 1 .. m /\ i - 1 \in 0 .. m
        BY <3>2
      <4>2. h[i] = g[i] /\ h[i - 1] = g[i - 1]
        BY <2>2, <3>2, <4>1
      <4> QED
        BY <2>1, <4>1, <4>2 DEF Iterates
    <3> QED
      BY <3>1, <3>2
  <2>7. h \in Iterates(A, a, F, m + 1)
    BY <2>4, <2>5, <2>6 DEF Iterates
  <2> QED
    BY <2>7, <1>1
<1>4. k \in S
  BY <1>1, <1>2, <1>3, Induction
<1> QED
  BY <1>1, <1>4
-----------------------------------------------------------------------------
(* Values that fall into pieces, seen from any two positions.              *)

\* Ways for the n elements of a value after i to fall into pieces, one for each
\* of the m elements of a pattern after j: those in M take any piece, another
\* one element, if the pair is in R.
Cuts(n, m, M, R, i, j) ==
    {cut \in [j .. m -> 0 .. n] :
        /\ cut[j] = i /\ cut[m] = n
        /\ \A k \in j + 1 .. m :
              IF k \in M THEN cut[k - 1] <= cut[k]
              ELSE cut[k] = cut[k - 1] + 1 /\ <<cut[k], k>> \in R}

\* Do they fall into pieces?
Falls(n, m, M, R, i, j) == Cuts(n, m, M, R, i, j) # {}

\* The empty pattern takes the empty value.
LEMMA NothingFalls ==
    ASSUME NEW n \in Nat, NEW m \in Nat, NEW M, NEW R, NEW i \in 0 .. n
    PROVE  Falls(n, m, M, R, i, m) <=> i = n
<1>1. ASSUME Falls(n, m, M, R, i, m) PROVE i = n
  BY <1>1 DEF Falls, Cuts
<1>2. ASSUME i = n PROVE Falls(n, m, M, R, i, m)
  <2>1. PICK cut : cut = [k \in m .. m |-> n]
    OBVIOUS
  <2>2. cut \in [m .. m -> 0 .. n] /\ cut[m] = n /\ m + 1 .. m = {}
    BY <2>1
  <2>3. cut \in Cuts(n, m, M, R, i, m)
    BY <1>2, <2>2 DEF Cuts
  <2> QED
    BY <2>3 DEF Falls
<1> QED
  BY <1>1, <1>2

\* A piece more in front.
LEMMA CutIsExtended ==
    ASSUME NEW n \in Nat, NEW m \in Nat, NEW M, NEW R, NEW i \in 0 .. n, NEW j \in 0 .. m - 1,
           NEW h \in 0 .. n, NEW cut \in Cuts(n, m, M, R, h, j + 1),
           IF j + 1 \in M THEN i <= h ELSE h = i + 1 /\ <<h, j + 1>> \in R
    PROVE  Falls(n, m, M, R, i, j)
<1>1. /\ cut \in [j + 1 .. m -> 0 .. n] /\ cut[j + 1] = h /\ cut[m] = n
      /\ \A k \in j + 2 .. m :
            IF k \in M THEN cut[k - 1] <= cut[k]
            ELSE cut[k] = cut[k - 1] + 1 /\ <<cut[k], k>> \in R
  <2>1. (j + 1) + 1 = j + 2
    OBVIOUS
  <2> QED
    BY <2>1 DEF Cuts
<1>2. PICK new : new = [k \in j .. m |-> IF k = j THEN i ELSE cut[k]]
  OBVIOUS
<1>3. /\ new \in [j .. m -> 0 .. n] /\ new[j] = i /\ new[m] = n /\ new[j + 1] = h
      /\ \A k \in j + 1 .. m : new[k] = cut[k]
  BY <1>1, <1>2
<1>4. ASSUME NEW k \in j + 1 .. m
      PROVE  IF k \in M THEN new[k - 1] <= new[k]
             ELSE new[k] = new[k - 1] + 1 /\ <<new[k], k>> \in R
  <2>1. CASE k = j + 1
    <3>1. new[k] = h /\ new[k - 1] = i
      BY <1>3, <2>1
    <3> QED
      BY <2>1, <3>1
  <2>2. CASE k # j + 1
    <3>1. k \in j + 2 .. m /\ k - 1 \in j + 1 .. m
      BY <2>2
    <3> QED
      BY <1>1, <1>3, <3>1
  <2> QED
    BY <2>1, <2>2
<1>5. new \in Cuts(n, m, M, R, i, j)
  BY <1>3, <1>4 DEF Cuts
<1> QED
  BY <1>5 DEF Falls

\* Where the first piece may end.
Ends(n, m, M, R, i, j) ==
    {h \in 0 .. n : /\ Falls(n, m, M, R, h, j + 1)
                    /\ IF j + 1 \in M THEN i <= h ELSE h = i + 1 /\ <<h, j + 1>> \in R}

\* A piece less in front.
LEMMA CutIsShortened ==
    ASSUME NEW n \in Nat, NEW m \in Nat, NEW M, NEW R, NEW i \in 0 .. n, NEW j \in 0 .. m - 1,
           Falls(n, m, M, R, i, j)
    PROVE  Ends(n, m, M, R, i, j) # {}
<1>1. PICK cut \in [j .. m -> 0 .. n] :
          /\ cut[j] = i /\ cut[m] = n
          /\ \A k \in j + 1 .. m :
                IF k \in M THEN cut[k - 1] <= cut[k]
                ELSE cut[k] = cut[k - 1] + 1 /\ <<cut[k], k>> \in R
  BY DEF Falls, Cuts
<1>2. PICK new : new = [k \in j + 1 .. m |-> cut[k]]
  OBVIOUS
<1>3. /\ new \in [j + 1 .. m -> 0 .. n] /\ new[m] = n /\ j + 1 \in j .. m
      /\ \A k \in j + 1 .. m : new[k] = cut[k]
  BY <1>1, <1>2
<1>4. PICK h \in 0 .. n : h = cut[j + 1]
  BY <1>1, <1>3
<1>5. ASSUME NEW k \in (j + 1) + 1 .. m
      PROVE  IF k \in M THEN new[k - 1] <= new[k]
             ELSE new[k] = new[k - 1] + 1 /\ <<new[k], k>> \in R
  <2>1. k \in j + 1 .. m /\ k - 1 \in j + 1 .. m
    OBVIOUS
  <2> QED
    BY <1>1, <1>3, <2>1
<1>6. new \in Cuts(n, m, M, R, h, j + 1)
  BY <1>3, <1>4, <1>5 DEF Cuts
<1>7. IF j + 1 \in M THEN i <= h ELSE h = i + 1 /\ <<h, j + 1>> \in R
  <2>1. j + 1 \in j + 1 .. m /\ (j + 1) - 1 = j
    OBVIOUS
  <2> QED
    BY <1>1, <1>4, <2>1
<1> QED
  BY <1>6, <1>7 DEF Falls, Ends

\* An element that takes any piece, and one that takes one element.
LEMMA ManyFall ==
    ASSUME NEW n \in Nat, NEW m \in Nat, NEW M, NEW R, NEW i \in 0 .. n, NEW j \in 0 .. m - 1,
           j + 1 \in M
    PROVE  Falls(n, m, M, R, i, j) <=> \E h \in i .. n : Falls(n, m, M, R, h, j + 1)
<1>1. ASSUME Falls(n, m, M, R, i, j) PROVE \E h \in i .. n : Falls(n, m, M, R, h, j + 1)
  <2>1. PICK h : h \in Ends(n, m, M, R, i, j)
    BY <1>1, CutIsShortened
  <2> QED
    BY <2>1 DEF Ends
<1>2. ASSUME NEW h \in i .. n, Falls(n, m, M, R, h, j + 1) PROVE Falls(n, m, M, R, i, j)
  <2>1. PICK cut : cut \in Cuts(n, m, M, R, h, j + 1)
    BY <1>2 DEF Falls
  <2>2. h \in 0 .. n /\ i <= h
    OBVIOUS
  <2> QED
    BY <2>1, <2>2, CutIsExtended
<1> QED
  BY <1>1, <1>2

\* Another element takes the next one if they fit.
LEMMA OneFalls ==
    ASSUME NEW n \in Nat, NEW m \in Nat, NEW M, NEW R, NEW i \in 0 .. n, NEW j \in 0 .. m - 1,
           j + 1 \notin M
    PROVE  Falls(n, m, M, R, i, j)
              <=> i < n /\ <<i + 1, j + 1>> \in R /\ Falls(n, m, M, R, i + 1, j + 1)
<1>1. ASSUME Falls(n, m, M, R, i, j)
      PROVE  i < n /\ <<i + 1, j + 1>> \in R /\ Falls(n, m, M, R, i + 1, j + 1)
  <2>1. PICK h : h \in Ends(n, m, M, R, i, j)
    BY <1>1, CutIsShortened
  <2> QED
    BY <2>1 DEF Ends
<1>2. ASSUME i < n, <<i + 1, j + 1>> \in R, Falls(n, m, M, R, i + 1, j + 1)
      PROVE  Falls(n, m, M, R, i, j)
  <2>1. PICK h \in 0 .. n : h = i + 1
    BY <1>2
  <2>2. PICK cut : cut \in Cuts(n, m, M, R, h, j + 1)
    BY <1>2, <2>1 DEF Falls
  <2> QED
    BY <1>2, <2>1, <2>2, CutIsExtended
<1> QED
  BY <1>1, <1>2

\* As long as each element takes one.
LEMMA OnesFall ==
    ASSUME NEW n \in Nat, NEW m \in Nat, NEW M, NEW R, NEW i \in 0 .. n, NEW j \in 0 .. m,
           NEW d \in Nat, j + d <= m, \A k \in j + 1 .. j + d : k \notin M,
           Falls(n, m, M, R, i, j)
    PROVE  i + d <= n /\ Falls(n, m, M, R, i + d, j + d)
<1>1. PICK S : S = {e \in Nat : e <= d => i + e <= n /\ Falls(n, m, M, R, i + e, j + e)}
  OBVIOUS
<1>2. 0 \in S
  <2>1. i + 0 = i /\ j + 0 = j /\ i <= n
    OBVIOUS
  <2> QED
    BY <1>1, <2>1
<1>3. ASSUME NEW e \in Nat, e \in S PROVE e + 1 \in S
  <2>1. SUFFICES ASSUME e + 1 <= d
                 PROVE  i + (e + 1) <= n /\ Falls(n, m, M, R, i + (e + 1), j + (e + 1))
    BY <1>1
  <2>2. i + e <= n /\ Falls(n, m, M, R, i + e, j + e)
    BY <1>1, <1>3, <2>1
  <2>3. PICK x, y : x = i + e /\ y = j + e
    OBVIOUS
  <2>4. x \in 0 .. n /\ y \in 0 .. m - 1 /\ y + 1 \in j + 1 .. j + d
    BY <2>1, <2>2, <2>3
  <2>5. x < n /\ Falls(n, m, M, R, x + 1, y + 1)
    BY <2>2, <2>3, <2>4, OneFalls
  <2>6. x + 1 = i + (e + 1) /\ y + 1 = j + (e + 1)
    BY <2>3
  <2> QED
    BY <2>4, <2>5, <2>6
<1>4. Nat \subseteq S
  BY <1>2, <1>3, Induction
<1> QED
  BY <1>1, <1>4
-----------------------------------------------------------------------------
(* The scan of wildcard_match.                                             *)

\* Where a scan of n characters for m can be, and where it goes: M are the stars
\* of the pattern, R the pairs that fit.
Points(n, m) == {NoStar} \cup ((0 .. n) \X (0 .. m - 1))

\* With the characters and the elements that are matched.
ScanPoints(n, m) == (0 .. n) \X (0 .. m) \X Points(n, m)

\* The value at a point of a function that is defined as a scan is.
ScanValue(n, m, M, R, f, vp, pp, star) ==
    IF pp + 1 \in M THEN f[<<vp, pp + 1, <<vp, pp>>>>]
    ELSE IF <<vp + 1, pp + 1>> \in R THEN f[<<vp + 1, pp + 1, star>>]
    ELSE IF vp = n /\ pp = m THEN TRUE
    ELSE IF star = NoStar \/ star[1] = n THEN FALSE
    ELSE f[<<star[1] + 1, star[2] + 1, <<star[1] + 1, star[2]>>>>]

\* Such a function, as WildcardMatch evaluates one.
IsScan(n, m, M, R, f) ==
    \A vp \in 0 .. n, pp \in 0 .. m, star \in Points(n, m) :
        f[<<vp, pp, star>>] = ScanValue(n, m, M, R, f, vp, pp, star)

\* All of them.
Scans(n, m, M, R) == {f \in [ScanPoints(n, m) -> BOOLEAN] : IsScan(n, m, M, R, f)}

\* A set of points from which a scan stays in the set, or ends with a match.
GoesOn(n, m, M, R, T, vp, pp, star) ==
    IF pp + 1 \in M THEN <<vp, pp + 1, <<vp, pp>>>> \in T
    ELSE IF <<vp + 1, pp + 1>> \in R THEN <<vp + 1, pp + 1, star>> \in T
    ELSE IF vp = n /\ pp = m THEN TRUE
    ELSE IF star = NoStar \/ star[1] = n THEN FALSE
    ELSE <<star[1] + 1, star[2] + 1, <<star[1] + 1, star[2]>>>> \in T

\* The sets of which each point goes on.
Closed(n, m, M, R) ==
    {T \in SUBSET ScanPoints(n, m) :
        \A vp \in 0 .. n, pp \in 0 .. m, star \in Points(n, m) :
            <<vp, pp, star>> \in T => GoesOn(n, m, M, R, T, vp, pp, star)}

\* There is such a function: it is true in the largest such set.
LEMMA ScansExist ==
    ASSUME NEW n \in Nat, NEW m \in Nat, NEW M \in SUBSET (1 .. m),
           NEW R \in SUBSET ((1 .. n) \X (1 .. m))
    PROVE  Scans(n, m, M, R) # {}
<1>1. PICK P : P = ScanPoints(n, m)
  OBVIOUS
<1>2. PICK G : G = UNION Closed(n, m, M, R)
  OBVIOUS
<1>3. G \subseteq P
  BY <1>1, <1>2 DEF Closed
<1>4. ASSUME NEW T, NEW U, T \subseteq U,
             NEW vp \in 0 .. n, NEW pp \in 0 .. m, NEW star \in Points(n, m),
             GoesOn(n, m, M, R, T, vp, pp, star)
      PROVE  GoesOn(n, m, M, R, U, vp, pp, star)
  BY <1>4 DEF GoesOn
<1>5. ASSUME NEW vp \in 0 .. n, NEW pp \in 0 .. m, NEW star \in Points(n, m),
             <<vp, pp, star>> \in G
      PROVE  GoesOn(n, m, M, R, G, vp, pp, star)
  <2>1. PICK T \in Closed(n, m, M, R) : <<vp, pp, star>> \in T
    BY <1>2, <1>5
  <2>2. GoesOn(n, m, M, R, T, vp, pp, star) /\ T \subseteq G
    BY <1>2, <2>1 DEF Closed
  <2> QED
    BY <1>4, <2>2
<1>6. ASSUME NEW vp \in 0 .. n, NEW pp \in 0 .. m, NEW star \in Points(n, m),
             GoesOn(n, m, M, R, G, vp, pp, star)
      PROVE  <<vp, pp, star>> \in G
  <2>1. PICK at, U : at = <<vp, pp, star>> /\ U = G \cup {at}
    OBVIOUS
  <2>2. U \subseteq P
    BY <1>1, <1>3, <2>1 DEF ScanPoints
  <2>3. ASSUME NEW vq \in 0 .. n, NEW pq \in 0 .. m, NEW other \in Points(n, m),
               <<vq, pq, other>> \in U
        PROVE  GoesOn(n, m, M, R, U, vq, pq, other)
    <3>1. GoesOn(n, m, M, R, G, vq, pq, other)
      BY <1>5, <1>6, <2>1, <2>3
    <3> QED
      BY <1>4, <2>1, <3>1
  <2>4. U \in Closed(n, m, M, R)
    BY <1>1, <2>2, <2>3 DEF Closed
  <2> QED
    BY <1>2, <2>1, <2>4
<1>7. PICK f : f = [at \in P |-> IF at \in G THEN TRUE ELSE FALSE]
  OBVIOUS
<1>8. f \in [P -> BOOLEAN] /\ \A at \in P : f[at] = IF at \in G THEN TRUE ELSE FALSE
  BY <1>7
<1>9. ASSUME NEW vp \in 0 .. n, NEW pp \in 0 .. m, NEW star \in Points(n, m)
      PROVE  f[<<vp, pp, star>>] = ScanValue(n, m, M, R, f, vp, pp, star)
  <2>1. <<vp, pp, star>> \in P
    BY <1>1 DEF ScanPoints
  <2>2. pp + 1 \in M => <<vp, pp + 1, <<vp, pp>>>> \in P
    BY <1>1 DEF ScanPoints, Points
  <2>3. <<vp + 1, pp + 1>> \in R => <<vp + 1, pp + 1, star>> \in P
    BY <1>1 DEF ScanPoints
  <2>4. ~(star = NoStar \/ star[1] = n)
          => <<star[1] + 1, star[2] + 1, <<star[1] + 1, star[2]>>>> \in P
    <3>1. SUFFICES ASSUME ~(star = NoStar \/ star[1] = n)
                   PROVE  <<star[1] + 1, star[2] + 1, <<star[1] + 1, star[2]>>>> \in P
      OBVIOUS
    <3>2. PICK sv \in 0 .. n, sp \in 0 .. m - 1 : star = <<sv, sp>>
      BY <3>1 DEF Points
    <3>3. star[1] = sv /\ star[2] = sp /\ sv + 1 \in 0 .. n /\ sp + 1 \in 0 .. m
      BY <3>1, <3>2
    <3> QED
      BY <1>1, <3>3 DEF ScanPoints, Points
  <2>5. CASE <<vp, pp, star>> \in G
    <3>1. GoesOn(n, m, M, R, G, vp, pp, star)
      BY <1>5, <2>5
    <3>2. ScanValue(n, m, M, R, f, vp, pp, star) = TRUE
      BY <1>8, <2>2, <2>3, <2>4, <3>1 DEF GoesOn, ScanValue
    <3> QED
      BY <1>8, <2>1, <2>5, <3>2
  <2>6. CASE <<vp, pp, star>> \notin G
    <3>1. ~GoesOn(n, m, M, R, G, vp, pp, star)
      BY <1>6, <2>6
    <3>2. ScanValue(n, m, M, R, f, vp, pp, star) = FALSE
      BY <1>8, <2>2, <2>3, <2>4, <3>1 DEF GoesOn, ScanValue
    <3> QED
      BY <1>8, <2>1, <2>6, <3>2
  <2> QED
    BY <2>5, <2>6
<1>10. f \in Scans(n, m, M, R)
  BY <1>1, <1>8, <1>9 DEF Scans, IsScan
<1> QED
  BY <1>10

\* What a scan has still to find, at a point: a match of what is left, or with
\* the last star, if there is one, a match that takes more.
ToFind(n, m, M, R, vp, pp, star) ==
    \/ Falls(n, m, M, R, vp, pp)
    \/ star # NoStar /\ \E k \in star[1] + 1 .. n : Falls(n, m, M, R, k, star[2] + 1)

\* Since the last star each element of the pattern has taken one character.
SinceStar(M, vp, pp, star) ==
    star # NoStar =>
        /\ star[2] + 1 \in M /\ star[1] <= vp /\ star[2] + 1 <= pp
        /\ vp - star[1] = pp - (star[2] + 1)
        /\ \A k \in star[2] + 2 .. pp : k \notin M

\* At another star the last one is given up: whatever match it would find by
\* taking more, the new one finds too.
LEMMA NewStarFinds ==
    ASSUME NEW n \in Nat, NEW m \in Nat, NEW M \in SUBSET (1 .. m),
           NEW R \in SUBSET ((1 .. n) \X (1 .. m)),
           NEW vp \in 0 .. n, NEW pp \in 0 .. m, NEW star \in Points(n, m),
           SinceStar(M, vp, pp, star), pp + 1 \in M
    PROVE  /\ SinceStar(M, vp, pp + 1, <<vp, pp>>)
           /\ ToFind(n, m, M, R, vp, pp, star)
                 <=> ToFind(n, m, M, R, vp, pp + 1, <<vp, pp>>)
<1>1. pp \in 0 .. m - 1 /\ <<vp, pp>> # NoStar
  BY DEF NoStar
<1>2. SinceStar(M, vp, pp + 1, <<vp, pp>>)
  BY <1>1 DEF SinceStar
<1>3. Falls(n, m, M, R, vp, pp) <=> \E h \in vp .. n : Falls(n, m, M, R, h, pp + 1)
  BY <1>1, ManyFall
<1>4. (\E h \in vp .. n : Falls(n, m, M, R, h, pp + 1))
         <=> ToFind(n, m, M, R, vp, pp + 1, <<vp, pp>>)
  <2>1. \A h \in vp .. n : h = vp \/ h \in vp + 1 .. n
    OBVIOUS
  <2>2. vp \in vp .. n /\ vp + 1 .. n \subseteq vp .. n
    OBVIOUS
  <2> QED
    BY <1>1, <2>1, <2>2 DEF ToFind
<1>5. ASSUME star # NoStar, NEW k \in star[1] + 1 .. n, Falls(n, m, M, R, k, star[2] + 1)
      PROVE  Falls(n, m, M, R, vp, pp)
  <2>1. PICK sv \in 0 .. n, sp \in 0 .. m - 1 : star = <<sv, sp>>
    BY <1>5 DEF Points
  <2>2. star[1] = sv /\ star[2] = sp
    BY <2>1
  <2>3. PICK d \in Nat : d = pp - (sp + 1)
    BY <1>5, <2>2 DEF SinceStar
  <2>4. /\ k \in 0 .. n /\ sp + 1 \in 0 .. m /\ sp + 1 + d = pp /\ sv + d = vp /\ k > sv
        /\ \A x \in sp + 1 + 1 .. sp + 1 + d : x \notin M
    BY <1>5, <2>2, <2>3 DEF SinceStar
  <2>5. k + d <= n /\ Falls(n, m, M, R, k + d, pp)
    <3>1. PICK j : j = sp + 1
      OBVIOUS
    <3>2. j \in 0 .. m /\ j + d = pp /\ \A x \in j + 1 .. j + d : x \notin M
      BY <2>4, <3>1
    <3>3. Falls(n, m, M, R, k, j)
      BY <1>5, <2>2, <3>1
    <3>4. j + d <= m
      BY <3>2
    <3>5. k + d <= n /\ Falls(n, m, M, R, k + d, j + d)
      BY <2>4, <3>2, <3>3, <3>4, OnesFall
    <3> QED
      BY <3>2, <3>5
  <2>6. PICK i \in 0 .. n : i = k + d
    BY <2>4, <2>5
  <2>7. PICK h \in i .. n : Falls(n, m, M, R, h, pp + 1)
    BY <1>1, <2>5, <2>6, ManyFall
  <2>8. h \in vp .. n
    BY <2>4, <2>6
  <2> QED
    BY <1>3, <2>7, <2>8
<1>6. ToFind(n, m, M, R, vp, pp, star) <=> Falls(n, m, M, R, vp, pp)
  BY <1>5 DEF ToFind
<1> QED
  BY <1>2, <1>3, <1>4, <1>6

\* A character that fits is taken.
LEMMA FitFinds ==
    ASSUME NEW n \in Nat, NEW m \in Nat, NEW M \in SUBSET (1 .. m),
           NEW R \in SUBSET ((1 .. n) \X (1 .. m)),
           NEW vp \in 0 .. n, NEW pp \in 0 .. m, NEW star \in Points(n, m),
           SinceStar(M, vp, pp, star), pp + 1 \notin M, <<vp + 1, pp + 1>> \in R
    PROVE  /\ SinceStar(M, vp + 1, pp + 1, star)
           /\ ToFind(n, m, M, R, vp, pp, star) <=> ToFind(n, m, M, R, vp + 1, pp + 1, star)
<1>1. pp \in 0 .. m - 1 /\ vp < n
  <2>1. vp + 1 \in 1 .. n /\ pp + 1 \in 1 .. m
    OBVIOUS
  <2> QED
    BY <2>1
<1>2. Falls(n, m, M, R, vp, pp) <=> Falls(n, m, M, R, vp + 1, pp + 1)
  BY <1>1, OneFalls
<1>0. PICK a, b : a = vp + 1 /\ b = pp + 1
  OBVIOUS
<1>3. ASSUME star # NoStar
      PROVE  /\ star[2] + 1 \in M /\ star[1] <= a /\ star[2] + 1 <= b
             /\ a - star[1] = b - (star[2] + 1)
             /\ \A k \in star[2] + 2 .. b : k \notin M
  <2>1. PICK sv \in 0 .. n, sp \in 0 .. m - 1 : star = <<sv, sp>>
    BY <1>3 DEF Points
  <2>2. star[1] = sv /\ star[2] = sp
    BY <2>1
  <2>3. \A k \in sp + 2 .. pp + 1 : k = pp + 1 \/ k \in sp + 2 .. pp
    OBVIOUS
  <2> QED
    BY <1>0, <1>3, <2>2, <2>3 DEF SinceStar
<1>4. SinceStar(M, a, b, star)
  BY <1>3 DEF SinceStar
<1>5. ToFind(n, m, M, R, vp, pp, star) <=> ToFind(n, m, M, R, vp + 1, pp + 1, star)
  BY <1>2 DEF ToFind
<1> QED
  BY <1>0, <1>4, <1>5

\* Where nothing fits, what is left matches only at the end of both; without a
\* star, or when the star has taken all, there is nothing else to find.
LEMMA NothingFits ==
    ASSUME NEW n \in Nat, NEW m \in Nat, NEW M \in SUBSET (1 .. m),
           NEW R \in SUBSET ((1 .. n) \X (1 .. m)), NEW vp \in 0 .. n, NEW pp \in 0 .. m,
           pp + 1 \notin M, <<vp + 1, pp + 1>> \notin R
    PROVE  Falls(n, m, M, R, vp, pp) <=> vp = n /\ pp = m
<1>1. CASE pp = m
  BY <1>1, NothingFalls
<1>2. CASE pp # m
  <2>1. pp \in 0 .. m - 1
    BY <1>2
  <2> QED
    BY <1>2, <2>1, OneFalls
<1> QED
  BY <1>1, <1>2

\* At such a point a scan ends, and rightly.
LEMMA NothingToFind ==
    ASSUME NEW n \in Nat, NEW m \in Nat, NEW M, NEW R, NEW vp, NEW pp,
           NEW star \in Points(n, m), ~Falls(n, m, M, R, vp, pp), star = NoStar \/ star[1] = n
    PROVE  ~ToFind(n, m, M, R, vp, pp, star)
<1>1. star # NoStar => star[1] + 1 .. n = {}
  OBVIOUS
<1> QED
  BY <1>1 DEF ToFind

\* Otherwise the last star takes one more.
LEMMA StarFinds ==
    ASSUME NEW n \in Nat, NEW m \in Nat, NEW M \in SUBSET (1 .. m),
           NEW R \in SUBSET ((1 .. n) \X (1 .. m)),
           NEW vp \in 0 .. n, NEW pp \in 0 .. m, NEW star \in Points(n, m),
           SinceStar(M, vp, pp, star), ~Falls(n, m, M, R, vp, pp),
           star # NoStar, star[1] # n
    PROVE  /\ SinceStar(M, star[1] + 1, star[2] + 1, <<star[1] + 1, star[2]>>)
           /\ ToFind(n, m, M, R, vp, pp, star)
                 <=> ToFind(n, m, M, R, star[1] + 1, star[2] + 1, <<star[1] + 1, star[2]>>)
<1>1. PICK sv \in 0 .. n, sp \in 0 .. m - 1 : star = <<sv, sp>>
  BY DEF Points
<1>2. star[1] = sv /\ star[2] = sp /\ sv < n
  BY <1>1
<1>3. PICK next : next = <<sv + 1, sp>>
  OBVIOUS
<1>4. next[1] = sv + 1 /\ next[2] = sp /\ next # NoStar
  BY <1>3 DEF NoStar
<1>5. SinceStar(M, sv + 1, sp + 1, next)
  <2>1. sp + 1 \in M
    BY <1>2 DEF SinceStar
  <2> QED
    BY <1>4, <2>1 DEF SinceStar
<1>6. ToFind(n, m, M, R, vp, pp, star) <=> \E k \in sv + 1 .. n : Falls(n, m, M, R, k, sp + 1)
  BY <1>2 DEF ToFind
<1>7. (\E k \in sv + 1 .. n : Falls(n, m, M, R, k, sp + 1))
         <=> ToFind(n, m, M, R, sv + 1, sp + 1, next)
  <2>1. \A k \in sv + 1 .. n : k = sv + 1 \/ k \in sv + 1 + 1 .. n
    OBVIOUS
  <2>2. sv + 1 \in sv + 1 .. n /\ sv + 1 + 1 .. n \subseteq sv + 1 .. n
    BY <1>2
  <2> QED
    BY <1>4, <2>1, <2>2 DEF ToFind
<1> QED
  BY <1>2, <1>3, <1>5, <1>6, <1>7

\* A scan finds what there is to find, from any point it can be at: of the points
\* where it would not, take one with the latest last star, of those one where the
\* star has taken most, of those the one furthest in the pattern.
LEMMA ScansFind ==
    ASSUME NEW n \in Nat, NEW m \in Nat, NEW M \in SUBSET (1 .. m),
           NEW R \in SUBSET ((1 .. n) \X (1 .. m)), NEW f, IsScan(n, m, M, R, f),
           NEW vp \in 0 .. n, NEW pp \in 0 .. m, NEW star \in Points(n, m),
           SinceStar(M, vp, pp, star)
    PROVE  f[<<vp, pp, star>>] = IF ToFind(n, m, M, R, vp, pp, star) THEN TRUE ELSE FALSE
<1>1. PICK age, taken :
          /\ age \in [Points(n, m) -> 0 .. m] /\ taken \in [Points(n, m) -> 0 .. n]
          /\ \A s \in Points(n, m) : /\ age[s] = IF s = NoStar THEN 0 ELSE s[2] + 1
                                     /\ taken[s] = IF s = NoStar THEN 0 ELSE s[1]
  <2>1. PICK a, t : /\ a = [s \in Points(n, m) |-> IF s = NoStar THEN 0 ELSE s[2] + 1]
                    /\ t = [s \in Points(n, m) |-> IF s = NoStar THEN 0 ELSE s[1]]
    OBVIOUS
  <2>2. \A s \in Points(n, m) : s # NoStar => s[2] + 1 \in 0 .. m /\ s[1] \in 0 .. n
    BY DEF Points
  <2>3. a \in [Points(n, m) -> 0 .. m] /\ t \in [Points(n, m) -> 0 .. n]
    BY <2>1, <2>2
  <2> QED
    BY <2>1, <2>3
<1>2. PICK Bad : Bad = {at \in (0 .. n) \X (0 .. m) \X Points(n, m) :
                          /\ SinceStar(M, at[1], at[2], at[3])
                          /\ f[at] # IF ToFind(n, m, M, R, at[1], at[2], at[3])
                                      THEN TRUE ELSE FALSE}
  OBVIOUS
<1>3. \A v \in 0 .. n, p \in 0 .. m, s \in Points(n, m) :
          <<v, p, s>> \in Bad <=> /\ SinceStar(M, v, p, s)
                                  /\ f[<<v, p, s>>] # IF ToFind(n, m, M, R, v, p, s)
                                                           THEN TRUE ELSE FALSE
  BY <1>2
<1>4. SUFFICES ASSUME Bad # {} PROVE FALSE
  BY <1>3
<1>5. PICK v \in 0 .. n, p \in 0 .. m, s \in Points(n, m) :
          /\ <<v, p, s>> \in Bad
          /\ \A w \in 0 .. n, q \in 0 .. m, u \in Points(n, m) :
                <<w, q, u>> \in Bad =>
                    /\ age[u] <= age[s]
                    /\ age[u] = age[s] => taken[u] <= taken[s]
                    /\ age[u] = age[s] /\ taken[u] = taken[s] => q <= p
  <2>1. PICK N1 : N1 = {m - age[at[3]] : at \in Bad}
    OBVIOUS
  <2>2. \A at \in Bad : at[3] \in Points(n, m) /\ at[2] \in 0 .. m /\ at[1] \in 0 .. n
                        /\ at = <<at[1], at[2], at[3]>>
    BY <1>2
  <2>3. N1 \in SUBSET Nat /\ N1 # {}
    BY <1>1, <1>4, <2>1, <2>2
  <2>4. PICK a \in Bad : \A at \in Bad : age[at[3]] <= age[a[3]]
    <3>1. PICK x \in N1 : \A y \in N1 : x <= y
      BY <2>3, LeastNumber
    <3>2. PICK a \in Bad : x = m - age[a[3]]
      BY <2>1, <3>1
    <3>3. \A at \in Bad : m - age[a[3]] <= m - age[at[3]]
      BY <2>1, <3>1, <3>2
    <3>4. \A at \in Bad : age[at[3]] \in Nat
      BY <1>1, <2>2
    <3>5. \A at \in Bad : age[at[3]] <= age[a[3]]
      BY <3>3, <3>4
    <3> QED
      BY <3>5
  <2>5. PICK N2 : N2 = {n - taken[at[3]] : at \in {b \in Bad : age[b[3]] = age[a[3]]}}
    OBVIOUS
  <2>6. N2 \in SUBSET Nat /\ N2 # {}
    BY <1>1, <2>2, <2>4, <2>5
  <2>7. PICK b \in Bad : /\ age[b[3]] = age[a[3]]
                         /\ \A at \in Bad : age[at[3]] = age[a[3]] => taken[at[3]] <= taken[b[3]]
    <3>1. PICK x \in N2 : \A y \in N2 : x <= y
      BY <2>6, LeastNumber
    <3>2. PICK b \in Bad : x = n - taken[b[3]] /\ age[b[3]] = age[a[3]]
      BY <2>5, <3>1
    <3>3. \A at \in Bad : age[at[3]] = age[a[3]] => n - taken[b[3]] <= n - taken[at[3]]
      BY <2>5, <3>1, <3>2
    <3>4. \A at \in Bad : taken[at[3]] \in Nat
      BY <1>1, <2>2
    <3>5. \A at \in Bad : age[at[3]] = age[a[3]] => taken[at[3]] <= taken[b[3]]
      BY <3>3, <3>4
    <3> QED
      BY <3>2, <3>5
  <2>8. PICK N3 : N3 = {m - at[2] : at \in {c \in Bad : /\ age[c[3]] = age[b[3]]
                                                        /\ taken[c[3]] = taken[b[3]]}}
    OBVIOUS
  <2>9. N3 \in SUBSET Nat /\ N3 # {}
    BY <2>2, <2>7, <2>8
  <2>10. PICK c \in Bad : /\ age[c[3]] = age[b[3]] /\ taken[c[3]] = taken[b[3]]
                          /\ \A at \in Bad : age[at[3]] = age[b[3]] /\ taken[at[3]] = taken[b[3]]
                                                => at[2] <= c[2]
    <3>1. PICK x \in N3 : \A y \in N3 : x <= y
      BY <2>9, LeastNumber
    <3>2. PICK c \in Bad : x = m - c[2] /\ age[c[3]] = age[b[3]] /\ taken[c[3]] = taken[b[3]]
      BY <2>8, <3>1
    <3>3. \A at \in Bad : age[at[3]] = age[b[3]] /\ taken[at[3]] = taken[b[3]]
                             => m - c[2] <= m - at[2]
      BY <2>8, <3>1, <3>2
    <3>4. \A at \in Bad : at[2] \in Nat
      BY <2>2
    <3>5. \A at \in Bad : age[at[3]] = age[b[3]] /\ taken[at[3]] = taken[b[3]] => at[2] <= c[2]
      BY <3>3, <3>4
    <3> QED
      BY <3>2, <3>5
  <2>11. PICK v \in 0 .. n, p \in 0 .. m, s \in Points(n, m) : c = <<v, p, s>>
    BY <2>2, <2>10
  <2>12. c[2] = p /\ c[3] = s
    BY <2>11
  <2>13. ASSUME NEW w \in 0 .. n, NEW q \in 0 .. m, NEW u \in Points(n, m), <<w, q, u>> \in Bad
         PROVE  /\ age[u] <= age[s]
                /\ age[u] = age[s] => taken[u] <= taken[s]
                /\ age[u] = age[s] /\ taken[u] = taken[s] => q <= p
    <3>1. PICK at \in Bad : at = <<w, q, u>>
      BY <2>13
    <3>2. at[2] = q /\ at[3] = u
      BY <3>1
    <3> QED
      BY <2>4, <2>7, <2>10, <2>12, <3>1, <3>2
  <2> QED
    BY <2>10, <2>11, <2>13
<1>6. SinceStar(M, v, p, s) /\ f[<<v, p, s>>] # IF ToFind(n, m, M, R, v, p, s) THEN TRUE ELSE FALSE
  BY <1>3, <1>5
<1>7. f[<<v, p, s>>] = ScanValue(n, m, M, R, f, v, p, s)
  BY DEF IsScan
<1>8. CASE p + 1 \in M
  <2>1. /\ SinceStar(M, v, p + 1, <<v, p>>)
        /\ ToFind(n, m, M, R, v, p, s) <=> ToFind(n, m, M, R, v, p + 1, <<v, p>>)
    BY <1>6, <1>8, NewStarFinds
  <2>2. f[<<v, p, s>>] = f[<<v, p + 1, <<v, p>>>>]
    BY <1>7, <1>8 DEF ScanValue
  <2>3. p + 1 \in 0 .. m /\ <<v, p>> \in Points(n, m) /\ <<v, p>> # NoStar
    BY <1>8 DEF Points, NoStar
  <2>4. <<v, p + 1, <<v, p>>>> \in Bad
    BY <1>3, <1>6, <2>1, <2>2, <2>3
  <2>5. age[<<v, p>>] = p + 1
    BY <1>1, <2>3
  <2>6. age[s] < p + 1
    <3>1. CASE s = NoStar
      BY <1>1, <3>1
    <3>2. CASE s # NoStar
      <4>1. age[s] = s[2] + 1
        BY <1>1, <3>2
      <4>2. s[2] + 1 <= p
        BY <1>6, <3>2 DEF SinceStar
      <4> QED
        BY <1>1, <4>1, <4>2
    <3> QED
      BY <3>1, <3>2
  <2>7. age[<<v, p>>] <= age[s]
    BY <1>5, <2>3, <2>4
  <2>8. age[s] \in 0 .. m
    BY <1>1
  <2> QED
    BY <2>5, <2>6, <2>7, <2>8
<1>9. CASE p + 1 \notin M /\ <<v + 1, p + 1>> \in R
  <2>1. /\ SinceStar(M, v + 1, p + 1, s)
        /\ ToFind(n, m, M, R, v, p, s) <=> ToFind(n, m, M, R, v + 1, p + 1, s)
    BY <1>6, <1>9, FitFinds
  <2>2. f[<<v, p, s>>] = f[<<v + 1, p + 1, s>>]
    BY <1>7, <1>9 DEF ScanValue
  <2>3. p + 1 \in 0 .. m /\ v + 1 \in 0 .. n
    <3>1. v + 1 \in 1 .. n /\ p + 1 \in 1 .. m
      BY <1>9
    <3> QED
      BY <3>1
  <2>4. <<v + 1, p + 1, s>> \in Bad
    BY <1>3, <1>6, <2>1, <2>2, <2>3
  <2>5. p + 1 <= p
    BY <1>5, <2>3, <2>4
  <2> QED
    BY <2>5
<1>10. CASE p + 1 \notin M /\ <<v + 1, p + 1>> \notin R
  <2>0. Falls(n, m, M, R, v, p) <=> v = n /\ p = m
    BY <1>10, NothingFits
  <2>1. CASE v = n /\ p = m
    BY <1>6, <1>7, <1>10, <2>0, <2>1 DEF ScanValue, ToFind
  <2>2. CASE ~(v = n /\ p = m) /\ (s = NoStar \/ s[1] = n)
    <3>1. ~ToFind(n, m, M, R, v, p, s)
      BY <2>0, <2>2, NothingToFind
    <3>2. f[<<v, p, s>>] = FALSE
      BY <1>7, <1>10, <2>2 DEF ScanValue
    <3> QED
      BY <1>6, <3>1, <3>2
  <2>3. CASE ~(v = n /\ p = m) /\ ~(s = NoStar \/ s[1] = n)
    <3>1. PICK sv \in 0 .. n, sp \in 0 .. m - 1 : s = <<sv, sp>>
      BY <2>3 DEF Points
    <3>2. PICK next : next = <<sv + 1, sp>>
      OBVIOUS
    <3>3. s[1] = sv /\ s[2] = sp /\ sv < n
      BY <2>3, <3>1
    <3>4. next \in Points(n, m) /\ next # NoStar /\ sv + 1 \in 0 .. n /\ sp + 1 \in 0 .. m
      BY <3>2, <3>3 DEF Points, NoStar
    <3>5. /\ SinceStar(M, s[1] + 1, s[2] + 1, <<s[1] + 1, s[2]>>)
          /\ ToFind(n, m, M, R, v, p, s)
                <=> ToFind(n, m, M, R, s[1] + 1, s[2] + 1, <<s[1] + 1, s[2]>>)
      BY <1>6, <2>0, <2>3, StarFinds
    <3>6. f[<<v, p, s>>] = f[<<s[1] + 1, s[2] + 1, <<s[1] + 1, s[2]>>>>]
      BY <1>7, <1>10, <2>3 DEF ScanValue
    <3>7. <<s[1] + 1, s[2]>> = next
      BY <3>2, <3>3
    <3>8. /\ SinceStar(M, sv + 1, sp + 1, next)
          /\ ToFind(n, m, M, R, v, p, s) <=> ToFind(n, m, M, R, sv + 1, sp + 1, next)
          /\ f[<<v, p, s>>] = f[<<sv + 1, sp + 1, next>>]
      BY <3>3, <3>5, <3>6, <3>7, Zenon
    <3>9. <<sv + 1, sp + 1, next>> \in Bad
      BY <1>3, <1>6, <3>4, <3>8
    <3>10. age[next] = sp + 1 /\ taken[next] = sv + 1 /\ age[s] = sp + 1 /\ taken[s] = sv
      BY <1>1, <2>3, <3>2, <3>3, <3>4
    <3>11. sv + 1 <= sv
      BY <1>5, <3>4, <3>9, <3>10
    <3> QED
      BY <3>11
  <2> QED
    BY <2>1, <2>2, <2>3
<1> QED
  BY <1>8, <1>9, <1>10
-----------------------------------------------------------------------------
(* Ignore patterns: any value, path and pattern.                           *)

\* The elements of a pattern that take any piece, and the characters that fit.
ManyAt(pattern, Many) == {k \in 1 .. Len(pattern) : pattern[k] = Many}

\* The pairs of positions whose characters fit.
CharPairs(value, pattern) ==
    {at \in (1 .. Len(value)) \X (1 .. Len(pattern)) : FitsChar(value[at[1]], pattern[at[2]])}

\* The pairs of positions whose segments fit.
SegmentPairs(path, pattern) ==
    {at \in (1 .. Len(path)) \X (1 .. Len(pattern)) : FitsSegment(path[at[1]], pattern[at[2]])}

\* FallsInto is Falls from the first positions, of characters
LEMMA CharsFall ==
    ASSUME NEW C, NEW D, NEW value \in Seq(C), NEW pattern \in Seq(D)
    PROVE  FallsInto(value, pattern, "*", FitsChar)
              <=> Falls(Len(value), Len(pattern), ManyAt(pattern, "*"), CharPairs(value, pattern), 0, 0)
<1>1. PICK n, m, M, R : /\ n = Len(value) /\ m = Len(pattern)
                          /\ M = ManyAt(pattern, "*") /\ R = CharPairs(value, pattern)
  OBVIOUS
<1> n \in Nat /\ m \in Nat
  BY <1>1
<1>2. \A k \in 1 .. m : k \in M <=> pattern[k] = "*"
  BY <1>1 DEF ManyAt
<1>3. \A h \in 0 .. n, k \in 1 .. m : <<h, k>> \in R <=> h > 0 /\ FitsChar(value[h], pattern[k])
  <2> SUFFICES ASSUME NEW h \in 0 .. n, NEW k \in 1 .. m
               PROVE  <<h, k>> \in R <=> h > 0 /\ FitsChar(value[h], pattern[k])
    OBVIOUS
  <2>1. h > 0 <=> h \in 1 .. n
    OBVIOUS
  <2> QED
    BY <1>1, <2>1 DEF CharPairs
<1>5. ASSUME FallsInto(value, pattern, "*", FitsChar) PROVE Falls(n, m, M, R, 0, 0)
  <2>1. PICK cut \in [0 .. m -> 0 .. n] :
            /\ cut[0] = 0 /\ cut[m] = n
            /\ \A k \in 1 .. m : IF pattern[k] = "*" THEN cut[k - 1] <= cut[k]
                                 ELSE cut[k] = cut[k - 1] + 1 /\ FitsChar(value[cut[k]], pattern[k])
    BY <1>1, <1>5 DEF FallsInto
  <2>2. ASSUME NEW k \in 1 .. m
        PROVE  IF k \in M THEN cut[k - 1] <= cut[k]
               ELSE cut[k] = cut[k - 1] + 1 /\ <<cut[k], k>> \in R
    <3>1. k - 1 \in 0 .. m /\ cut[k - 1] \in 0 .. n /\ cut[k] \in 0 .. n
      BY <2>1
    <3>2. CASE k \in M
      BY <1>2, <2>1, <3>2
    <3>3. CASE k \notin M
      <4>1. cut[k] = cut[k - 1] + 1 /\ FitsChar(value[cut[k]], pattern[k])
        BY <1>2, <2>1, <3>3
      <4> QED
        BY <1>3, <3>1, <3>3, <4>1
    <3> QED
      BY <3>2, <3>3
  <2>3. cut \in Cuts(n, m, M, R, 0, 0)
    BY <2>1, <2>2, 0 + 1 = 1 DEF Cuts
  <2> QED
    BY <2>3 DEF Falls
<1>6. ASSUME Falls(n, m, M, R, 0, 0) PROVE FallsInto(value, pattern, "*", FitsChar)
  <2>1. PICK cut \in [0 .. m -> 0 .. n] :
            /\ cut[0] = 0 /\ cut[m] = n
            /\ \A k \in 0 + 1 .. m : IF k \in M THEN cut[k - 1] <= cut[k]
                                     ELSE cut[k] = cut[k - 1] + 1 /\ <<cut[k], k>> \in R
    BY <1>6 DEF Falls, Cuts
  <2>2. ASSUME NEW k \in 1 .. m
        PROVE  IF pattern[k] = "*" THEN cut[k - 1] <= cut[k]
               ELSE cut[k] = cut[k - 1] + 1 /\ FitsChar(value[cut[k]], pattern[k])
    <3>1. k - 1 \in 0 .. m /\ cut[k - 1] \in 0 .. n /\ cut[k] \in 0 .. n
      BY <2>1
    <3>2. CASE k \in M
      <4>1. k \in 0 + 1 .. m
        OBVIOUS
      <4>2. cut[k - 1] <= cut[k]
        BY <2>1, <3>2, <4>1, Zenon
      <4> QED
        BY <1>2, <3>2, <4>2
    <3>3. CASE k \notin M
      <4>1. cut[k] = cut[k - 1] + 1 /\ <<cut[k], k>> \in R
        BY <2>1, <3>3
      <4>2. FitsChar(value[cut[k]], pattern[k])
        BY <1>3, <3>1, <4>1
      <4> QED
        BY <1>2, <3>3, <4>1, <4>2
    <3> QED
      BY <3>2, <3>3
  <2> QED
    BY <1>1, <2>1, <2>2 DEF FallsInto
<1> QED
  BY <1>1, <1>5, <1>6

\* and of segments.
LEMMA SegmentsFall ==
    ASSUME NEW C, NEW D, NEW path \in Seq(C), NEW pattern \in Seq(D)
    PROVE  FallsInto(path, pattern, DoubleStar, FitsSegment)
              <=> Falls(Len(path), Len(pattern), ManyAt(pattern, DoubleStar),
                        SegmentPairs(path, pattern), 0, 0)
<1>1. PICK n, m, M, R : /\ n = Len(path) /\ m = Len(pattern)
                          /\ M = ManyAt(pattern, DoubleStar)
                          /\ R = SegmentPairs(path, pattern)
  OBVIOUS
<1> n \in Nat /\ m \in Nat
  BY <1>1
<1>2. \A k \in 1 .. m : k \in M <=> pattern[k] = DoubleStar
  BY <1>1 DEF ManyAt
<1>3. \A h \in 0 .. n, k \in 1 .. m : <<h, k>> \in R <=> h > 0 /\ FitsSegment(path[h], pattern[k])
  <2> SUFFICES ASSUME NEW h \in 0 .. n, NEW k \in 1 .. m
               PROVE  <<h, k>> \in R <=> h > 0 /\ FitsSegment(path[h], pattern[k])
    OBVIOUS
  <2>1. h > 0 <=> h \in 1 .. n
    OBVIOUS
  <2> QED
    BY <1>1, <2>1 DEF SegmentPairs
<1>5. ASSUME FallsInto(path, pattern, DoubleStar, FitsSegment) PROVE Falls(n, m, M, R, 0, 0)
  <2>1. PICK cut \in [0 .. m -> 0 .. n] :
            /\ cut[0] = 0 /\ cut[m] = n
            /\ \A k \in 1 .. m :
                  IF pattern[k] = DoubleStar THEN cut[k - 1] <= cut[k]
                  ELSE cut[k] = cut[k - 1] + 1 /\ FitsSegment(path[cut[k]], pattern[k])
    BY <1>1, <1>5 DEF FallsInto
  <2>2. ASSUME NEW k \in 1 .. m
        PROVE  IF k \in M THEN cut[k - 1] <= cut[k]
               ELSE cut[k] = cut[k - 1] + 1 /\ <<cut[k], k>> \in R
    <3>1. k - 1 \in 0 .. m /\ cut[k - 1] \in 0 .. n /\ cut[k] \in 0 .. n
      BY <2>1
    <3>2. CASE k \in M
      BY <1>2, <2>1, <3>2
    <3>3. CASE k \notin M
      <4>1. cut[k] = cut[k - 1] + 1 /\ FitsSegment(path[cut[k]], pattern[k])
        BY <1>2, <2>1, <3>3
      <4> QED
        BY <1>3, <3>1, <3>3, <4>1
    <3> QED
      BY <3>2, <3>3
  <2>3. cut \in Cuts(n, m, M, R, 0, 0)
    BY <2>1, <2>2, 0 + 1 = 1 DEF Cuts
  <2> QED
    BY <2>3 DEF Falls
<1>6. ASSUME Falls(n, m, M, R, 0, 0) PROVE FallsInto(path, pattern, DoubleStar, FitsSegment)
  <2>1. PICK cut \in [0 .. m -> 0 .. n] :
            /\ cut[0] = 0 /\ cut[m] = n
            /\ \A k \in 0 + 1 .. m : IF k \in M THEN cut[k - 1] <= cut[k]
                                     ELSE cut[k] = cut[k - 1] + 1 /\ <<cut[k], k>> \in R
    BY <1>6 DEF Falls, Cuts
  <2>2. ASSUME NEW k \in 1 .. m
        PROVE  IF pattern[k] = DoubleStar THEN cut[k - 1] <= cut[k]
               ELSE cut[k] = cut[k - 1] + 1 /\ FitsSegment(path[cut[k]], pattern[k])
    <3>1. k - 1 \in 0 .. m /\ cut[k - 1] \in 0 .. n /\ cut[k] \in 0 .. n
      BY <2>1
    <3>2. CASE k \in M
      <4>1. k \in 0 + 1 .. m
        OBVIOUS
      <4>2. cut[k - 1] <= cut[k]
        BY <2>1, <3>2, <4>1, Zenon
      <4> QED
        BY <1>2, <3>2, <4>2
    <3>3. CASE k \notin M
      <4>1. cut[k] = cut[k - 1] + 1 /\ <<cut[k], k>> \in R
        BY <2>1, <3>3
      <4>2. FitsSegment(path[cut[k]], pattern[k])
        BY <1>3, <3>1, <4>1
      <4> QED
        BY <1>2, <3>3, <4>1, <4>2
    <3> QED
      BY <3>2, <3>3
  <2> QED
    BY <1>1, <2>1, <2>2 DEF FallsInto
<1> QED
  BY <1>1, <1>5, <1>6

\* wildcard_match: the scan finds a match of "*" and "?" whenever there is one,
\* and only then, whatever the value and the pattern.
THEOREM WildcardIsExact ==
    ASSUME NEW C, NEW D, NEW value \in Seq(C), NEW pattern \in Seq(D)
    PROVE  WildcardMatch(value, pattern) <=> FallsInto(value, pattern, "*", FitsChar)
<1>1. PICK n, m, M, R : /\ n = Len(value) /\ m = Len(pattern)
                          /\ M = ManyAt(pattern, "*") /\ R = CharPairs(value, pattern)
  OBVIOUS
<1> n \in Nat /\ m \in Nat
  BY <1>1
<1>2. M \in SUBSET (1 .. m) /\ R \in SUBSET ((1 .. n) \X (1 .. m))
  BY <1>1 DEF ManyAt, CharPairs
<1>3. Positions(value, pattern) = ScanPoints(n, m)
  BY <1>1 DEF Positions, ScanPoints, Points
<1>4. \A pp \in 0 .. m : StarAt(pattern, pp) <=> pp + 1 \in M
  BY <1>1 DEF StarAt, ManyAt
<1>5. \A vp \in 0 .. n, pp \in 0 .. m : FitsAt(value, pattern, vp, pp) <=> <<vp + 1, pp + 1>> \in R
  BY <1>1 DEF FitsAt, FitsChar, CharPairs
<1>6. ASSUME NEW f, NEW at \in ScanPoints(n, m)
      PROVE  ScanValue(n, m, M, R, f, at[1], at[2], at[3])
               = (LET vp == at[1]
                      pp == at[2]
                      star == at[3]
                  IN  IF StarAt(pattern, pp) THEN f[<<vp, pp + 1, <<vp, pp>>>>]
                      ELSE IF FitsAt(value, pattern, vp, pp) THEN f[<<vp + 1, pp + 1, star>>]
                      ELSE IF vp = Len(value) /\ pp = Len(pattern) THEN TRUE
                      ELSE IF star = NoStar \/ star[1] = Len(value) THEN FALSE
                      ELSE f[<<star[1] + 1, star[2] + 1, <<star[1] + 1, star[2]>>>>])
  <2>1. at[1] \in 0 .. n /\ at[2] \in 0 .. m
    BY DEF ScanPoints
  <2>2. StarAt(pattern, at[2]) <=> at[2] + 1 \in M
    BY <1>4, <2>1
  <2>3. FitsAt(value, pattern, at[1], at[2]) <=> <<at[1] + 1, at[2] + 1>> \in R
    BY <1>5, <2>1
  <2> QED
    BY <1>1, <2>2, <2>3 DEF ScanValue
<1>7. PICK w \in Scans(n, m, M, R) : TRUE
  BY <1>2, ScansExist
<1>8. w = [at \in Positions(value, pattern) |->
             LET vp == at[1]
                 pp == at[2]
                 star == at[3]
             IN  IF StarAt(pattern, pp) THEN w[<<vp, pp + 1, <<vp, pp>>>>]
                 ELSE IF FitsAt(value, pattern, vp, pp) THEN w[<<vp + 1, pp + 1, star>>]
                 ELSE IF vp = Len(value) /\ pp = Len(pattern) THEN TRUE
                 ELSE IF star = NoStar \/ star[1] = Len(value) THEN FALSE
                 ELSE w[<<star[1] + 1, star[2] + 1, <<star[1] + 1, star[2]>>>>]]
  <2>1. ASSUME NEW at \in ScanPoints(n, m)
        PROVE  w[at] = ScanValue(n, m, M, R, w, at[1], at[2], at[3])
    <3>1. PICK vp \in 0 .. n, pp \in 0 .. m, star \in Points(n, m) : at = <<vp, pp, star>>
      BY DEF ScanPoints
    <3>2. w[<<vp, pp, star>>] = ScanValue(n, m, M, R, w, vp, pp, star)
      BY <1>7 DEF Scans, IsScan
    <3> QED
      BY <3>1, <3>2
  <2>2. w = [at \in ScanPoints(n, m) |-> w[at]]
    BY <1>7 DEF Scans
  <2> QED
    BY <1>3, <1>6, <2>1, <2>2, Zenon
<1>9. PICK g : g = Scan(value, pattern)
  OBVIOUS
<1>10. g = [at \in Positions(value, pattern) |->
              LET vp == at[1]
                  pp == at[2]
                  star == at[3]
              IN  IF StarAt(pattern, pp) THEN g[<<vp, pp + 1, <<vp, pp>>>>]
                  ELSE IF FitsAt(value, pattern, vp, pp) THEN g[<<vp + 1, pp + 1, star>>]
                  ELSE IF vp = Len(value) /\ pp = Len(pattern) THEN TRUE
                  ELSE IF star = NoStar \/ star[1] = Len(value) THEN FALSE
                  ELSE g[<<star[1] + 1, star[2] + 1, <<star[1] + 1, star[2]>>>>]]
  BY <1>8, <1>9, Zenon DEF Scan
<1>11. IsScan(n, m, M, R, g)
  <2>1. ASSUME NEW at \in ScanPoints(n, m)
        PROVE  g[at] = ScanValue(n, m, M, R, g, at[1], at[2], at[3])
    BY <1>3, <1>6, <1>10, Zenon
  <2>2. ASSUME NEW vp \in 0 .. n, NEW pp \in 0 .. m, NEW star \in Points(n, m)
        PROVE  g[<<vp, pp, star>>] = ScanValue(n, m, M, R, g, vp, pp, star)
    <3>1. PICK at \in ScanPoints(n, m) : at = <<vp, pp, star>>
      BY DEF ScanPoints
    <3>2. at[1] = vp /\ at[2] = pp /\ at[3] = star
      BY <3>1
    <3> QED
      BY <2>1, <3>1, <3>2
  <2> QED
    BY <2>2 DEF IsScan
<1>12. g[<<0, 0, NoStar>>] = IF ToFind(n, m, M, R, 0, 0, NoStar) THEN TRUE ELSE FALSE
  <2>1. 0 \in 0 .. n /\ 0 \in 0 .. m /\ NoStar \in Points(n, m) /\ SinceStar(M, 0, 0, NoStar)
    BY DEF Points, SinceStar
  <2> QED
    BY <1>2, <1>11, <2>1, ScansFind
<1>13. ToFind(n, m, M, R, 0, 0, NoStar) <=> Falls(n, m, M, R, 0, 0)
  BY DEF ToFind
<1>14. Falls(n, m, M, R, 0, 0) <=> FallsInto(value, pattern, "*", FitsChar)
  BY <1>1, CharsFall
<1> QED
  BY <1>9, <1>12, <1>13, <1>14 DEF WildcardMatch

\* A segment without a star is compared literally, one with stars by the scan.
LEMMA SegmentIsExact ==
    ASSUME NEW C, NEW D, NEW segment \in Seq(C), NEW p \in Seq(D)
    PROVE  SegmentMatches(segment, p) <=> FitsSegment(segment, p)
<1>1. p = Star => HasStar(p) /\ FallsInto(segment, p, "*", FitsChar)
  <2> SUFFICES ASSUME p = Star PROVE HasStar(p) /\ FallsInto(segment, p, "*", FitsChar)
    OBVIOUS
  <2>1. Len(p) = 1 /\ p[1] = "*" /\ DOMAIN p = 1 .. 1
    BY DEF Star
  <2>2. PICK n, M, R : /\ n = Len(segment) /\ M = ManyAt(p, "*")
                         /\ R = CharPairs(segment, p)
    OBVIOUS
  <2> n \in Nat
    BY <2>2
  <2>3. 0 + 1 \in M
    BY <2>1, <2>2 DEF ManyAt
  <2>4. 0 \in 0 .. n /\ n \in 0 .. n /\ 0 \in 0 .. 1 - 1 /\ 1 \in Nat
    OBVIOUS
  <2>5. Falls(n, 1, M, R, n, 0 + 1)
    BY <2>4, NothingFalls, 0 + 1 = 1
  <2>6. Falls(n, 1, M, R, 0, 0)
    BY <2>3, <2>4, <2>5, ManyFall
  <2>7. FallsInto(segment, p, "*", FitsChar)
    BY <2>1, <2>2, <2>6, CharsFall
  <2> QED
    BY <2>1, <2>7 DEF HasStar
<1>2. WildcardMatch(segment, p) <=> FallsInto(segment, p, "*", FitsChar)
  BY WildcardIsExact
<1> QED
  BY <1>1, <1>2 DEF SegmentMatches, FitsSegment

\* The value from two positions of a function defined as match_segments is.
MatchValue(n, m, M, R, f, pi, pj) ==
    IF pj = m THEN pi = n
    ELSE IF pj + 1 \in M THEN \E i \in pi .. n : f[<<i, pj + 1>>]
    ELSE IF pi = n \/ <<pi + 1, pj + 1>> \notin R THEN FALSE
    ELSE f[<<pi + 1, pj + 1>>]

\* Such a function.
IsMatch(n, m, M, R, f) ==
    \A pi \in 0 .. n, pj \in 0 .. m : f[<<pi, pj>>] = MatchValue(n, m, M, R, f, pi, pj)

\* What falls into the pattern from two positions is a function of that kind,
LEMMA FallsIsMatch ==
    ASSUME NEW n \in Nat, NEW m \in Nat, NEW M \in SUBSET (1 .. m),
           NEW R \in SUBSET ((1 .. n) \X (1 .. m)), NEW f,
           \A pi \in 0 .. n, pj \in 0 .. m :
              f[<<pi, pj>>] = IF Falls(n, m, M, R, pi, pj) THEN TRUE ELSE FALSE
    PROVE  IsMatch(n, m, M, R, f)
<1> SUFFICES ASSUME NEW pi \in 0 .. n, NEW pj \in 0 .. m
             PROVE  f[<<pi, pj>>] = MatchValue(n, m, M, R, f, pi, pj)
  BY DEF IsMatch
<1>1. CASE pj = m
  <2>1. Falls(n, m, M, R, pi, pj) <=> pi = n
    BY <1>1, NothingFalls
  <2> QED
    BY <1>1, <2>1 DEF MatchValue
<1>2. CASE pj # m /\ pj + 1 \in M
  <2>1. pj \in 0 .. m - 1
    BY <1>2
  <2>2. Falls(n, m, M, R, pi, pj) <=> \E h \in pi .. n : Falls(n, m, M, R, h, pj + 1)
    BY <1>2, <2>1, ManyFall
  <2>3. \A h \in pi .. n : f[<<h, pj + 1>>] = IF Falls(n, m, M, R, h, pj + 1) THEN TRUE ELSE FALSE
    <3>1. PICK q \in 0 .. m : q = pj + 1
      BY <2>1
    <3>2. ASSUME NEW h \in pi .. n
          PROVE  f[<<h, q>>] = IF Falls(n, m, M, R, h, q) THEN TRUE ELSE FALSE
      <4>1. h \in 0 .. n
        OBVIOUS
      <4> QED
        BY <4>1
    <3> QED
      BY <3>1, <3>2
  <2>4. (\E h \in pi .. n : f[<<h, pj + 1>>]) <=> Falls(n, m, M, R, pi, pj)
    BY <2>2, <2>3
  <2>5. MatchValue(n, m, M, R, f, pi, pj) = \E h \in pi .. n : f[<<h, pj + 1>>]
    BY <1>2 DEF MatchValue
  <2> QED
    BY <2>4, <2>5
<1>3. CASE pj # m /\ pj + 1 \notin M
  <2>1. pj \in 0 .. m - 1
    BY <1>3
  <2>2. Falls(n, m, M, R, pi, pj)
           <=> pi < n /\ <<pi + 1, pj + 1>> \in R /\ Falls(n, m, M, R, pi + 1, pj + 1)
    BY <1>3, <2>1, OneFalls
  <2>3. pi # n => f[<<pi + 1, pj + 1>>] = IF Falls(n, m, M, R, pi + 1, pj + 1) THEN TRUE ELSE FALSE
    <3>1. SUFFICES ASSUME pi # n
                   PROVE  f[<<pi + 1, pj + 1>>]
                             = IF Falls(n, m, M, R, pi + 1, pj + 1) THEN TRUE ELSE FALSE
      OBVIOUS
    <3>2. PICK h \in 0 .. n, q \in 0 .. m : h = pi + 1 /\ q = pj + 1
      BY <2>1, <3>1
    <3>3. f[<<h, q>>] = IF Falls(n, m, M, R, h, q) THEN TRUE ELSE FALSE
      OBVIOUS
    <3> QED
      BY <3>2, <3>3
  <2>4. MatchValue(n, m, M, R, f, pi, pj)
           = IF pi = n \/ <<pi + 1, pj + 1>> \notin R THEN FALSE ELSE f[<<pi + 1, pj + 1>>]
    BY <1>3 DEF MatchValue
  <2>5. CASE pi = n \/ <<pi + 1, pj + 1>> \notin R
    <3>1. f[<<pi, pj>>] = FALSE
      <4>1. ~Falls(n, m, M, R, pi, pj)
        BY <2>2, <2>5
      <4> QED
        BY <4>1
    <3>2. MatchValue(n, m, M, R, f, pi, pj) = FALSE
      BY <2>4, <2>5
    <3> QED
      BY <3>1, <3>2
  <2>6. CASE ~(pi = n \/ <<pi + 1, pj + 1>> \notin R)
    <3>1. Falls(n, m, M, R, pi, pj) <=> Falls(n, m, M, R, pi + 1, pj + 1)
      BY <2>2, <2>6
    <3>2. MatchValue(n, m, M, R, f, pi, pj)
             = IF Falls(n, m, M, R, pi + 1, pj + 1) THEN TRUE ELSE FALSE
      BY <2>3, <2>4, <2>6
    <3> QED
      BY <3>1, <3>2
  <2> QED
    BY <2>5, <2>6
<1> QED
  BY <1>1, <1>2, <1>3

\* and the only one.
LEMMA MatchIsFalls ==
    ASSUME NEW n \in Nat, NEW m \in Nat, NEW M \in SUBSET (1 .. m),
           NEW R \in SUBSET ((1 .. n) \X (1 .. m)), NEW f, IsMatch(n, m, M, R, f),
           NEW pi \in 0 .. n, NEW pj \in 0 .. m
    PROVE  f[<<pi, pj>>] = IF Falls(n, m, M, R, pi, pj) THEN TRUE ELSE FALSE
<1>1. PICK g : g = [at \in (0 .. n) \X (0 .. m) |->
                      IF Falls(n, m, M, R, at[1], at[2]) THEN TRUE ELSE FALSE]
  OBVIOUS
<1>2. \A i \in 0 .. n, j \in 0 .. m :
          g[<<i, j>>] = IF Falls(n, m, M, R, i, j) THEN TRUE ELSE FALSE
  BY <1>1
<1>3. IsMatch(n, m, M, R, g)
  BY <1>2, FallsIsMatch
<1>4. PICK S : S = {d \in Nat : d <= m => \A i \in 0 .. n : f[<<i, m - d>>] = g[<<i, m - d>>]}
  OBVIOUS
<1>5. 0 \in S
  <2>1. m - 0 = m /\ m \in 0 .. m
    OBVIOUS
  <2>2. \A i \in 0 .. n : f[<<i, m>>] = (i = n) /\ g[<<i, m>>] = (i = n)
    BY <1>3, <2>1 DEF IsMatch, MatchValue
  <2> QED
    BY <1>4, <2>1, <2>2
<1>6. ASSUME NEW d \in Nat, d \in S PROVE d + 1 \in S
  <2>1. SUFFICES ASSUME d + 1 <= m, NEW i \in 0 .. n
                 PROVE  f[<<i, m - (d + 1)>>] = g[<<i, m - (d + 1)>>]
    BY <1>4
  <2>2. PICK j \in 0 .. m : j = m - (d + 1)
    BY <2>1
  <2>3. j # m /\ j + 1 = m - d
    BY <2>2
  <2>4. \A h \in 0 .. n : f[<<h, j + 1>>] = g[<<h, j + 1>>]
    BY <1>4, <1>6, <2>1, <2>3
  <2>5. f[<<i, j>>] = MatchValue(n, m, M, R, f, i, j) /\ g[<<i, j>>] = MatchValue(n, m, M, R, g, i, j)
    BY <1>3 DEF IsMatch
  <2>6. CASE j + 1 \in M
    <3>1. \A h \in i .. n : f[<<h, j + 1>>] = g[<<h, j + 1>>]
      BY <2>4
    <3>2. (\E h \in i .. n : f[<<h, j + 1>>]) = (\E h \in i .. n : g[<<h, j + 1>>])
      BY <3>1
    <3> QED
      BY <2>2, <2>3, <2>5, <2>6, <3>2 DEF MatchValue
  <2>7. CASE j + 1 \notin M
    <3>1. i # n => f[<<i + 1, j + 1>>] = g[<<i + 1, j + 1>>]
      BY <2>4
    <3> QED
      BY <2>2, <2>3, <2>5, <2>7, <3>1 DEF MatchValue
  <2> QED
    BY <2>6, <2>7
<1>7. Nat \subseteq S
  BY <1>5, <1>6, Induction
<1>8. f[<<pi, pj>>] = g[<<pi, pj>>]
  <2>1. PICK d \in Nat : d = m - pj
    OBVIOUS
  <2>2. d <= m /\ m - d = pj
    BY <2>1
  <2> QED
    BY <1>4, <1>7, <2>2
<1> QED
  BY <1>2, <1>8

\* match_segments: "**" takes any number of segments of the path and anything else
\* exactly one, whatever the path and the pattern.
THEOREM SegmentsAreExact ==
    ASSUME NEW C, NEW D, NEW path \in Seq(Seq(C)), NEW pattern \in Seq(Seq(D))
    PROVE  MatchSegments(path, pattern)[<<0, 0>>]
              <=> FallsInto(path, pattern, DoubleStar, FitsSegment)
<1>1. PICK n, m, M, R : /\ n = Len(path) /\ m = Len(pattern)
                          /\ M = ManyAt(pattern, DoubleStar)
                          /\ R = SegmentPairs(path, pattern)
  OBVIOUS
<1> n \in Nat /\ m \in Nat
  BY <1>1
<1>2. M \in SUBSET (1 .. m) /\ R \in SUBSET ((1 .. n) \X (1 .. m))
  BY <1>1 DEF ManyAt, SegmentPairs
<1>3. \A pj \in 0 .. m : pj # m => (pattern[pj + 1] = DoubleStar <=> pj + 1 \in M)
  BY <1>1 DEF ManyAt
<1>4. ASSUME NEW pi \in 0 .. n, NEW pj \in 0 .. m, pi # n, pj # m
      PROVE  SegmentMatches(path[pi + 1], pattern[pj + 1]) <=> <<pi + 1, pj + 1>> \in R
  <2>1. pi + 1 \in 1 .. n /\ pj + 1 \in 1 .. m
    BY <1>4
  <2>2. path[pi + 1] \in Seq(C) /\ pattern[pj + 1] \in Seq(D)
    BY <1>1, <2>1
  <2>3. PICK s, p : s = path[pi + 1] /\ p = pattern[pj + 1]
    OBVIOUS
  <2>4. SegmentMatches(s, p) <=> FitsSegment(s, p)
    BY <2>2, <2>3, SegmentIsExact
  <2>5. FitsSegment(s, p) <=> <<pi + 1, pj + 1>> \in R
    BY <1>1, <2>1, <2>3 DEF SegmentPairs
  <2> QED
    BY <2>3, <2>4, <2>5
<1>5. ASSUME NEW f, NEW at \in (0 .. n) \X (0 .. m)
      PROVE  MatchValue(n, m, M, R, f, at[1], at[2])
               = (LET pi == at[1]
                      pj == at[2]
                  IN  IF pj = Len(pattern) THEN pi = Len(path)
                      ELSE IF pattern[pj + 1] = DoubleStar
                      THEN \E i \in pi .. Len(path) : f[<<i, pj + 1>>]
                      ELSE IF pi = Len(path) \/ ~SegmentMatches(path[pi + 1], pattern[pj + 1])
                      THEN FALSE
                      ELSE f[<<pi + 1, pj + 1>>])
  <2>1. at[1] \in 0 .. n /\ at[2] \in 0 .. m
    OBVIOUS
  <2>2. at[2] # m => (pattern[at[2] + 1] = DoubleStar <=> at[2] + 1 \in M)
    BY <1>3, <2>1
  <2>3. at[1] # n /\ at[2] # m =>
            (SegmentMatches(path[at[1] + 1], pattern[at[2] + 1]) <=> <<at[1] + 1, at[2] + 1>> \in R)
    BY <1>4, <2>1
  <2> QED
    BY <1>1, <2>2, <2>3 DEF MatchValue
<1>6. PICK w : w = [at \in (0 .. n) \X (0 .. m) |->
                      IF Falls(n, m, M, R, at[1], at[2]) THEN TRUE ELSE FALSE]
  OBVIOUS
<1>7. IsMatch(n, m, M, R, w)
  <2>1. \A i \in 0 .. n, j \in 0 .. m :
            w[<<i, j>>] = IF Falls(n, m, M, R, i, j) THEN TRUE ELSE FALSE
    BY <1>6
  <2> QED
    BY <1>2, <2>1, FallsIsMatch
<1>8. w = [at \in (0 .. Len(path)) \X (0 .. Len(pattern)) |->
             LET pi == at[1]
                 pj == at[2]
             IN  IF pj = Len(pattern) THEN pi = Len(path)
                 ELSE IF pattern[pj + 1] = DoubleStar
                 THEN \E i \in pi .. Len(path) : w[<<i, pj + 1>>]
                 ELSE IF pi = Len(path) \/ ~SegmentMatches(path[pi + 1], pattern[pj + 1])
                 THEN FALSE
                 ELSE w[<<pi + 1, pj + 1>>]]
  <2>1. ASSUME NEW at \in (0 .. n) \X (0 .. m)
        PROVE  w[at] = MatchValue(n, m, M, R, w, at[1], at[2])
    <3>1. PICK pi \in 0 .. n, pj \in 0 .. m : at = <<pi, pj>>
      OBVIOUS
    <3>2. w[<<pi, pj>>] = MatchValue(n, m, M, R, w, pi, pj)
      BY <1>7 DEF IsMatch
    <3> QED
      BY <3>1, <3>2
  <2>2. ASSUME NEW at \in (0 .. Len(path)) \X (0 .. Len(pattern))
        PROVE  w[at]
              = (LET pi == at[1]
                     pj == at[2]
                 IN  IF pj = Len(pattern) THEN pi = Len(path)
                     ELSE IF pattern[pj + 1] = DoubleStar
                     THEN \E i \in pi .. Len(path) : w[<<i, pj + 1>>]
                     ELSE IF pi = Len(path) \/ ~SegmentMatches(path[pi + 1], pattern[pj + 1])
                     THEN FALSE
                     ELSE w[<<pi + 1, pj + 1>>])
    <3>1. at \in (0 .. n) \X (0 .. m)
      BY <1>1
    <3> QED
      BY <1>5, <2>1, <3>1, Zenon
  <2>3. w = [at \in (0 .. Len(path)) \X (0 .. Len(pattern)) |-> w[at]]
    BY <1>1, <1>6
  <2> QED
    BY <2>2, <2>3, Zenon
<1>9. PICK g : g = MatchSegments(path, pattern)
  OBVIOUS
<1>10. g = [at \in (0 .. Len(path)) \X (0 .. Len(pattern)) |->
              LET pi == at[1]
                  pj == at[2]
              IN  IF pj = Len(pattern) THEN pi = Len(path)
                  ELSE IF pattern[pj + 1] = DoubleStar
                  THEN \E i \in pi .. Len(path) : g[<<i, pj + 1>>]
                  ELSE IF pi = Len(path) \/ ~SegmentMatches(path[pi + 1], pattern[pj + 1])
                  THEN FALSE
                  ELSE g[<<pi + 1, pj + 1>>]]
  BY <1>8, <1>9, Zenon DEF MatchSegments
<1>11. IsMatch(n, m, M, R, g)
  <2>1. ASSUME NEW at \in (0 .. n) \X (0 .. m)
        PROVE  g[at] = MatchValue(n, m, M, R, g, at[1], at[2])
    <3>1. at \in (0 .. Len(path)) \X (0 .. Len(pattern))
      BY <1>1
    <3>2. g[at] = (LET pi == at[1]
                       pj == at[2]
                   IN  IF pj = Len(pattern) THEN pi = Len(path)
                       ELSE IF pattern[pj + 1] = DoubleStar
                       THEN \E i \in pi .. Len(path) : g[<<i, pj + 1>>]
                       ELSE IF pi = Len(path) \/ ~SegmentMatches(path[pi + 1], pattern[pj + 1])
                       THEN FALSE
                       ELSE g[<<pi + 1, pj + 1>>])
      BY <1>10, <3>1, Zenon
    <3> QED
      BY <1>5, <3>2, Zenon
  <2>2. ASSUME NEW pi \in 0 .. n, NEW pj \in 0 .. m
        PROVE  g[<<pi, pj>>] = MatchValue(n, m, M, R, g, pi, pj)
    <3>1. PICK at \in (0 .. n) \X (0 .. m) : at = <<pi, pj>>
      OBVIOUS
    <3>2. at[1] = pi /\ at[2] = pj
      BY <3>1
    <3> QED
      BY <2>1, <3>1, <3>2
  <2> QED
    BY <2>2 DEF IsMatch
<1>12. g[<<0, 0>>] = IF Falls(n, m, M, R, 0, 0) THEN TRUE ELSE FALSE
  <2>1. 0 \in 0 .. n /\ 0 \in 0 .. m
    OBVIOUS
  <2> QED
    BY <1>2, <1>11, <2>1, MatchIsFalls
<1>13. Falls(n, m, M, R, 0, 0) <=> FallsInto(path, pattern, DoubleStar, FitsSegment)
  BY <1>1, SegmentsFall
<1> QED
  BY <1>9, <1>12, <1>13
-----------------------------------------------------------------------------
(* Root paths: any components.                                             *)

\* The components kept are what reading them one after the other keeps.
LEMMA FoldedSteps ==
    ASSUME NEW C, NEW s \in Seq(C)
    PROVE  /\ Folded(s) \in [0 .. Len(s) -> Seq(C)]
           /\ Folded(s)[0] = <<>>
           /\ \A n \in 1 .. Len(s) : Folded(s)[n] = PushComponent(Folded(s)[n - 1], s[n])
<1>1. ASSUME NEW acc \in Seq(C), NEW comp \in C PROVE PushComponent(acc, comp) \in Seq(C)
  BY DEF PushComponent, Pop, Front
<1>2. PICK A : A = Seq(C)
  OBVIOUS
<1>3. PICK F : F = [x \in A \X Nat |->
                      IF x[2] \in 1 .. Len(s) THEN PushComponent(x[1], s[x[2]]) ELSE x[1]]
  OBVIOUS
<1>4. F \in [A \X Nat -> A]
  <2>1. ASSUME NEW x \in A \X Nat PROVE F[x] \in A
    <3>1. PICK acc \in A, n \in Nat : x = <<acc, n>>
      OBVIOUS
    <3>2. F[x] = IF n \in 1 .. Len(s) THEN PushComponent(acc, s[n]) ELSE acc
      BY <1>3, <3>1
    <3>3. n \in 1 .. Len(s) => s[n] \in C
      OBVIOUS
    <3> QED
      BY <1>1, <1>2, <3>2, <3>3
  <2> QED
    BY <1>3, <2>1
<1>5. PICK w \in [0 .. Len(s) -> A] :
          w[0] = <<>> /\ \A n \in 1 .. Len(s) : w[n] = F[<<w[n - 1], n>>]
  <2>1. PICK a : a = <<>>
    OBVIOUS
  <2>2. a \in A /\ Len(s) \in Nat
    BY <1>2, <2>1
  <2>3. PICK k \in Nat : k = Len(s)
    OBVIOUS
  <2>4. Iterates(A, a, F, k) # {}
    BY <1>4, <2>2, Iteration
  <2> QED
    BY <2>1, <2>3, <2>4 DEF Iterates
<1>6. \A n \in 1 .. Len(s) : w[n] = PushComponent(w[n - 1], s[n])
  <2> SUFFICES ASSUME NEW n \in 1 .. Len(s) PROVE w[n] = PushComponent(w[n - 1], s[n])
    OBVIOUS
  <2>1. w[n - 1] \in A /\ n \in Nat
    BY <1>5
  <2>2. F[<<w[n - 1], n>>] = PushComponent(w[n - 1], s[n])
    BY <1>3, <2>1
  <2> QED
    BY <1>5, <2>2
<1>7. w = [n \in 0 .. Len(s) |-> IF n = 0 THEN <<>> ELSE PushComponent(w[n - 1], s[n])]
  <2>1. \A n \in 0 .. Len(s) : w[n] = IF n = 0 THEN <<>> ELSE PushComponent(w[n - 1], s[n])
    BY <1>5, <1>6
  <2> QED
    BY <1>5, <2>1
<1>8. Folded(s) = [n \in 0 .. Len(s) |->
                     IF n = 0 THEN <<>> ELSE PushComponent(Folded(s)[n - 1], s[n])]
  BY <1>7, Zenon DEF Folded
<1>9. \A n \in 1 .. Len(s) : Folded(s)[n] = PushComponent(Folded(s)[n - 1], s[n])
  <2> SUFFICES ASSUME NEW n \in 1 .. Len(s)
               PROVE  Folded(s)[n] = PushComponent(Folded(s)[n - 1], s[n])
    OBVIOUS
  <2>1. n \in 0 .. Len(s) /\ n # 0
    OBVIOUS
  <2> QED
    BY <1>8, <2>1, Zenon
<1>10. Folded(s)[0] = <<>>
  <2>1. 0 \in 0 .. Len(s)
    OBVIOUS
  <2> QED
    BY <1>8, <2>1, Zenon
<1>11. PICK S : S = {n \in Nat : n <= Len(s) => Folded(s)[n] \in Seq(C)}
  OBVIOUS
<1>12. ASSUME NEW n \in Nat, n \in S PROVE n + 1 \in S
  <2>1. SUFFICES ASSUME n + 1 <= Len(s) PROVE Folded(s)[n + 1] \in Seq(C)
    BY <1>11
  <2>2. n + 1 \in 1 .. Len(s) /\ n + 1 - 1 = n /\ Folded(s)[n] \in Seq(C)
    BY <1>11, <1>12, <2>1
  <2>3. Folded(s)[n + 1] = PushComponent(Folded(s)[n], s[n + 1]) /\ s[n + 1] \in C
    BY <1>9, <2>2
  <2> QED
    BY <1>1, <2>2, <2>3
<1>13. Nat \subseteq S
  <2>1. 0 \in S
    BY <1>10, <1>11
  <2> QED
    BY <1>12, <2>1, Induction
<1> QED
  <2>1. \A n \in 0 .. Len(s) : Folded(s)[n] \in Seq(C)
    BY <1>11, <1>13
  <2>2. DOMAIN Folded(s) = 0 .. Len(s) /\ Folded(s) = [n \in DOMAIN Folded(s) |-> Folded(s)[n]]
    BY <1>8, Zenon
  <2> QED
    BY <1>9, <1>10, <2>1, <2>2

\* As many values as a function has arguments, if it has none of them twice.
LEMMA CountedOnce ==
    ASSUME NEW n \in Nat, NEW S, NEW f, f \in [1 .. n -> S],
           \A i, j \in 1 .. n : f[i] = f[j] => i = j,
           \A x \in S : \E i \in 1 .. n : f[i] = x
    PROVE  IsFiniteSet(S) /\ Cardinality(S) = n
<1>1. f \in Bijection(1 .. n, S)
  BY DEF Bijection, Injection, Surjection, IsInjective
<1>2. ExistsBijection(1 .. n, S)
  BY <1>1 DEF ExistsBijection
<1> QED
  BY <1>2, FS_CountingElements, FS_NatBijection

\* A component that names a directory.
IsName(comp) == comp \notin {".", ".."}

\* Reading one more component makes every depth one more, one less or leaves it.
LEMMA DepthGrows ==
    ASSUME NEW C, NEW s \in Seq(C), NEW n \in Nat, n + 1 <= Len(s), NEW i \in 1 .. n + 1
    PROVE  /\ Depth(s, i, n) \in Int /\ Depth(s, n + 1, n) = 0
           /\ Depth(s, i, n + 1) = Depth(s, i, n) + (IF IsName(s[n + 1]) THEN 1
                                                     ELSE IF s[n + 1] = ".." THEN -1 ELSE 0)
<1>1. PICK names : names = {k \in i .. n : s[k] \notin {".", ".."}}
  OBVIOUS
<1>2. PICK ups : ups = {k \in i .. n : s[k] = ".."}
  OBVIOUS
<1>3. /\ IsFiniteSet(names) /\ IsFiniteSet(ups)
      /\ Cardinality(names) \in Nat /\ Cardinality(ups) \in Nat
  <2>1. IsFiniteSet(i .. n) /\ names \subseteq i .. n /\ ups \subseteq i .. n
    BY <1>1, <1>2, FS_Interval
  <2> QED
    BY <2>1, FS_Subset, FS_CardinalityType
<1>4. Depth(s, i, n) = Cardinality(names) - Cardinality(ups)
  BY <1>1, <1>2 DEF Depth
<1>5. Depth(s, n + 1, n) = 0
  <2>1. {k \in n + 1 .. n : s[k] \notin {".", ".."}} = {} /\ {k \in n + 1 .. n : s[k] = ".."} = {}
    OBVIOUS
  <2>2. Cardinality({}) = 0
    BY FS_EmptySet
  <2>3. Depth(s, n + 1, n) = Cardinality({}) - Cardinality({})
    BY <2>1 DEF Depth
  <2> QED
    BY <2>2, <2>3
<1>6. n + 1 \notin names /\ n + 1 \notin ups
  BY <1>1, <1>2
<1>7. i .. n + 1 = (i .. n) \cup {n + 1}
  OBVIOUS
<1>8. CASE IsName(s[n + 1])
  <2>1. {k \in i .. n + 1 : s[k] \notin {".", ".."}} = names \cup {n + 1}
    BY <1>1, <1>7, <1>8 DEF IsName
  <2>2. {k \in i .. n + 1 : s[k] = ".."} = ups
    BY <1>2, <1>7, <1>8 DEF IsName
  <2>3. Cardinality(names \cup {n + 1}) = Cardinality(names) + 1
    BY <1>3, <1>6, FS_AddElement
  <2>4. Depth(s, i, n + 1) = Cardinality(names \cup {n + 1}) - Cardinality(ups)
    BY <2>1, <2>2 DEF Depth
  <2> QED
    BY <1>3, <1>4, <1>5, <1>8, <2>3, <2>4
<1>9. CASE s[n + 1] = ".."
  <2>1. {k \in i .. n + 1 : s[k] \notin {".", ".."}} = names
    BY <1>1, <1>7, <1>9
  <2>2. {k \in i .. n + 1 : s[k] = ".."} = ups \cup {n + 1}
    BY <1>2, <1>7, <1>9
  <2>3. Cardinality(ups \cup {n + 1}) = Cardinality(ups) + 1
    BY <1>3, <1>6, FS_AddElement
  <2>4. Depth(s, i, n + 1) = Cardinality(names) - (Cardinality(ups) + 1)
    BY <2>1, <2>2, <2>3 DEF Depth
  <2> QED
    BY <1>3, <1>4, <1>5, <1>9, <2>4 DEF IsName
<1>10. CASE s[n + 1] = "."
  <2>1. {k \in i .. n + 1 : s[k] \notin {".", ".."}} = names
    BY <1>1, <1>7, <1>10
  <2>2. {k \in i .. n + 1 : s[k] = ".."} = ups
    BY <1>2, <1>7, <1>10
  <2>3. Depth(s, i, n + 1) = Cardinality(names) - Cardinality(ups)
    BY <2>1, <2>2 DEF Depth
  <2> QED
    BY <1>3, <1>4, <1>5, <1>10, <2>3 DEF IsName
<1> QED
  BY <1>8, <1>9, <1>10 DEF IsName

\* Where the components kept of the first n are: in order, each so deep that
\* those behind it are above it, and no other name is below its directory still.
Places(s, n) ==
    {pos \in [1 .. Len(Folded(s)[n]) -> 1 .. n] :
        /\ \A k \in DOMAIN pos : Folded(s)[n][k] = s[pos[k]] /\ IsName(s[pos[k]])
        /\ \A k, l \in DOMAIN pos : k < l => pos[k] < pos[l]
        /\ \A k \in DOMAIN pos : Depth(s, pos[k], n) = Len(Folded(s)[n]) - k + 1
        /\ \A k \in DOMAIN pos : \A j \in pos[k] .. n : Depth(s, pos[k], j) > 0
        /\ \A i \in 1 .. n : \/ ~IsName(s[i]) \/ \E k \in DOMAIN pos : pos[k] = i
                             \/ \E j \in i .. n : Depth(s, i, j) <= 0}

\* A name is kept behind those there are.
LEMMA NameIsPlaced ==
    ASSUME NEW C, NEW s \in Seq(C), NEW n \in Nat, n + 1 <= Len(s),
           NEW pos \in Places(s, n), IsName(s[n + 1])
    PROVE  Places(s, n + 1) # {}
<1>1. PICK acc \in Seq(C) : acc = Folded(s)[n]
  BY FoldedSteps
<1>2. PICK L \in Nat : L = Len(acc)
  OBVIOUS
<1>3. PICK comp \in C : comp = s[n + 1]
  OBVIOUS
<1>4. Folded(s)[n + 1] = Append(acc, comp)
  <2>1. n + 1 \in 1 .. Len(s) /\ n + 1 - 1 = n
    OBVIOUS
  <2>2. Folded(s)[n + 1] = PushComponent(acc, comp)
    BY <1>1, <1>3, <2>1, FoldedSteps
  <2> QED
    BY <1>3, <2>2 DEF PushComponent, IsName
<1>5. /\ Len(Append(acc, comp)) = L + 1 /\ Append(acc, comp)[L + 1] = comp
      /\ \A k \in 1 .. L : Append(acc, comp)[k] = acc[k]
  BY <1>2
<1>6. /\ pos \in [1 .. L -> 1 .. n] /\ DOMAIN pos = 1 .. L
      /\ \A k \in 1 .. L : acc[k] = s[pos[k]] /\ IsName(s[pos[k]])
      /\ \A k, l \in 1 .. L : k < l => pos[k] < pos[l]
      /\ \A k \in 1 .. L : Depth(s, pos[k], n) = L - k + 1
      /\ \A k \in 1 .. L : \A j \in pos[k] .. n : Depth(s, pos[k], j) > 0
      /\ \A i \in 1 .. n : \/ ~IsName(s[i]) \/ \E k \in 1 .. L : pos[k] = i
                           \/ \E j \in i .. n : Depth(s, i, j) <= 0
  BY <1>1, <1>2 DEF Places
<1>7. \A i \in 1 .. n + 1 : /\ Depth(s, i, n) \in Int /\ Depth(s, n + 1, n) = 0
                            /\ Depth(s, i, n + 1) = Depth(s, i, n) + 1
  BY DepthGrows
<1>8. PICK new : new = [k \in 1 .. L + 1 |-> IF k = L + 1 THEN n + 1 ELSE pos[k]]
  OBVIOUS
<1>9. /\ new \in [1 .. L + 1 -> 1 .. n + 1] /\ DOMAIN new = 1 .. L + 1
      /\ new[L + 1] = n + 1
      /\ \A k \in 1 .. L : new[k] = pos[k] /\ new[k] \in 1 .. n
  BY <1>6, <1>8
<1>10. \A k \in 1 .. L + 1 : k = L + 1 \/ k \in 1 .. L
  OBVIOUS
<1>11. \A k \in 1 .. L + 1 : Append(acc, comp)[k] = s[new[k]] /\ IsName(s[new[k]])
  BY <1>3, <1>5, <1>6, <1>9, <1>10
<1>12. ASSUME NEW k \in 1 .. L + 1, NEW l \in 1 .. L + 1, k < l PROVE new[k] < new[l]
  <2>1. k \in 1 .. L /\ new[k] = pos[k] /\ new[k] < n + 1
    BY <1>9, <1>12
  <2>2. CASE l = L + 1
    BY <1>9, <2>1, <2>2
  <2>3. CASE l # L + 1
    <3>1. l \in 1 .. L /\ new[l] = pos[l]
      BY <1>9, <2>3
    <3> QED
      BY <1>6, <1>12, <2>1, <3>1
  <2> QED
    BY <2>2, <2>3
<1>13. \A k \in 1 .. L + 1 : Depth(s, new[k], n + 1) = (L + 1) - k + 1
  <2>1. Depth(s, n + 1, n + 1) = 1
    BY <1>7
  <2>2. ASSUME NEW k \in 1 .. L PROVE Depth(s, new[k], n + 1) = (L + 1) - k + 1
    <3>1. Depth(s, pos[k], n) = L - k + 1 /\ pos[k] \in 1 .. n + 1
      BY <1>6
    <3> QED
      BY <1>7, <1>9, <3>1
  <2> QED
    BY <1>9, <1>10, <2>1, <2>2
<1>14. ASSUME NEW k \in 1 .. L + 1, NEW j \in new[k] .. n + 1 PROVE Depth(s, new[k], j) > 0
  <2>1. CASE j = n + 1
    BY <1>13, <2>1
  <2>2. CASE j # n + 1
    <3>1. k \in 1 .. L /\ j \in pos[k] .. n
      BY <1>9, <1>10, <1>14, <2>2
    <3> QED
      BY <1>6, <1>9, <3>1
  <2> QED
    BY <2>1, <2>2
<1>15. ASSUME NEW i \in 1 .. n + 1
       PROVE  \/ ~IsName(s[i]) \/ \E k \in 1 .. L + 1 : new[k] = i
              \/ \E j \in i .. n + 1 : Depth(s, i, j) <= 0
  <2>1. CASE i = n + 1
    BY <1>9, <2>1
  <2>2. CASE i # n + 1
    <3>1. i \in 1 .. n /\ i .. n \subseteq i .. n + 1 /\ 1 .. L \subseteq 1 .. L + 1
      BY <2>2
    <3> QED
      BY <1>6, <1>9, <3>1
  <2> QED
    BY <2>1, <2>2
<1>16. Len(Folded(s)[n + 1]) = L + 1
  BY <1>4, <1>5
<1>17. new \in Places(s, n + 1)
  BY <1>4, <1>9, <1>11, <1>12, <1>13, <1>14, <1>15, <1>16 DEF Places
<1> QED
  BY <1>17

\* The current directory leaves everything where it is, and so does the parent
\* of nothing.
LEMMA NothingIsPlaced ==
    ASSUME NEW C, NEW s \in Seq(C), NEW n \in Nat, n + 1 <= Len(s),
           NEW pos \in Places(s, n),
           s[n + 1] = "." \/ (s[n + 1] = ".." /\ Folded(s)[n] = <<>>)
    PROVE  Places(s, n + 1) # {}
<1>1. PICK acc \in Seq(C) : acc = Folded(s)[n]
  BY FoldedSteps
<1>2. PICK L \in Nat : L = Len(acc)
  OBVIOUS
<1>3. Folded(s)[n + 1] = acc
  <2>1. n + 1 \in 1 .. Len(s) /\ n + 1 - 1 = n
    OBVIOUS
  <2>2. Folded(s)[n + 1] = PushComponent(acc, s[n + 1])
    BY <1>1, <2>1, FoldedSteps
  <2> QED
    BY <1>1, <2>2 DEF PushComponent, Pop
<1>4. /\ pos \in [1 .. L -> 1 .. n] /\ DOMAIN pos = 1 .. L
      /\ \A k \in 1 .. L : acc[k] = s[pos[k]] /\ IsName(s[pos[k]])
      /\ \A k, l \in 1 .. L : k < l => pos[k] < pos[l]
      /\ \A k \in 1 .. L : Depth(s, pos[k], n) = L - k + 1
      /\ \A k \in 1 .. L : \A j \in pos[k] .. n : Depth(s, pos[k], j) > 0
      /\ \A i \in 1 .. n : \/ ~IsName(s[i]) \/ \E k \in 1 .. L : pos[k] = i
                           \/ \E j \in i .. n : Depth(s, i, j) <= 0
  BY <1>1, <1>2 DEF Places
<1>5. ~IsName(s[n + 1])
  BY DEF IsName
<1>6. \A k \in 1 .. L : Depth(s, pos[k], n + 1) = L - k + 1
  <2> SUFFICES ASSUME NEW k \in 1 .. L PROVE Depth(s, pos[k], n + 1) = L - k + 1
    OBVIOUS
  <2>1. L # 0 /\ acc # <<>>
    BY <1>2
  <2>2. s[n + 1] = "."
    BY <1>1, <2>1
  <2>3. pos[k] \in 1 .. n + 1
    BY <1>4
  <2>4. Depth(s, pos[k], n + 1) = Depth(s, pos[k], n) /\ Depth(s, pos[k], n) \in Int
    BY <1>5, <2>2, <2>3, DepthGrows
  <2> QED
    BY <1>4, <2>4
<1>7. ASSUME NEW k \in 1 .. L, NEW j \in pos[k] .. n + 1 PROVE Depth(s, pos[k], j) > 0
  <2>1. CASE j = n + 1
    BY <1>6, <2>1
  <2>2. CASE j # n + 1
    <3>1. j \in pos[k] .. n
      BY <1>4, <1>7, <2>2
    <3> QED
      BY <1>4, <3>1
  <2> QED
    BY <2>1, <2>2
<1>8. ASSUME NEW i \in 1 .. n + 1
       PROVE  \/ ~IsName(s[i]) \/ \E k \in 1 .. L : pos[k] = i
              \/ \E j \in i .. n + 1 : Depth(s, i, j) <= 0
  <2>1. CASE i = n + 1
    BY <1>5, <2>1
  <2>2. CASE i # n + 1
    <3>1. i \in 1 .. n /\ i .. n \subseteq i .. n + 1
      BY <2>2
    <3> QED
      BY <1>4, <3>1
  <2> QED
    BY <2>1, <2>2
<1>9. pos \in [1 .. L -> 1 .. n + 1] /\ Len(Folded(s)[n + 1]) = L
  BY <1>2, <1>3, <1>4
<1>10. pos \in Places(s, n + 1)
  BY <1>3, <1>4, <1>6, <1>7, <1>8, <1>9 DEF Places
<1> QED
  BY <1>10

\* A parent takes the last one away, whose depth is one.
LEMMA ParentIsPlaced ==
    ASSUME NEW C, NEW s \in Seq(C), NEW n \in Nat, n + 1 <= Len(s),
           NEW pos \in Places(s, n), s[n + 1] = "..", Folded(s)[n] # <<>>
    PROVE  Places(s, n + 1) # {}
<1>1. PICK acc \in Seq(C) : acc = Folded(s)[n]
  BY FoldedSteps
<1>2. PICK L \in Nat : L = Len(acc)
  OBVIOUS
<1>3. PICK front : front = Front(acc)
  OBVIOUS
<1>4. Folded(s)[n + 1] = front
  <2>1. n + 1 \in 1 .. Len(s) /\ n + 1 - 1 = n
    OBVIOUS
  <2>2. Folded(s)[n + 1] = PushComponent(acc, s[n + 1])
    BY <1>1, <2>1, FoldedSteps
  <2> QED
    BY <1>1, <1>3, <2>2 DEF PushComponent, Pop
<1>5. /\ L > 0 /\ L - 1 \in Nat /\ Len(front) = L - 1
      /\ \A k \in 1 .. L - 1 : front[k] = acc[k]
  BY <1>1, <1>2, <1>3 DEF Front
<1>6. /\ pos \in [1 .. L -> 1 .. n] /\ DOMAIN pos = 1 .. L
      /\ \A k \in 1 .. L : acc[k] = s[pos[k]] /\ IsName(s[pos[k]])
      /\ \A k, l \in 1 .. L : k < l => pos[k] < pos[l]
      /\ \A k \in 1 .. L : Depth(s, pos[k], n) = L - k + 1
      /\ \A k \in 1 .. L : \A j \in pos[k] .. n : Depth(s, pos[k], j) > 0
      /\ \A i \in 1 .. n : \/ ~IsName(s[i]) \/ \E k \in 1 .. L : pos[k] = i
                           \/ \E j \in i .. n : Depth(s, i, j) <= 0
  BY <1>1, <1>2 DEF Places
<1>7. ~IsName(s[n + 1])
  BY DEF IsName
<1>8. \A k \in 1 .. L : Depth(s, pos[k], n + 1) = L - k
  <2> SUFFICES ASSUME NEW k \in 1 .. L PROVE Depth(s, pos[k], n + 1) = L - k
    OBVIOUS
  <2>1. pos[k] \in 1 .. n + 1
    BY <1>6
  <2>2. Depth(s, pos[k], n + 1) = Depth(s, pos[k], n) - 1 /\ Depth(s, pos[k], n) \in Int
    BY <1>7, <2>1, DepthGrows
  <2> QED
    BY <1>6, <2>2
<1>9. PICK new : new = [k \in 1 .. L - 1 |-> pos[k]]
  OBVIOUS
<1>10. /\ new \in [1 .. L - 1 -> 1 .. n + 1] /\ DOMAIN new = 1 .. L - 1
       /\ \A k \in 1 .. L - 1 : k \in 1 .. L /\ new[k] = pos[k] /\ new[k] \in 1 .. n
  BY <1>5, <1>6, <1>9
<1>11. \A k \in 1 .. L - 1 : front[k] = s[new[k]] /\ IsName(s[new[k]])
  BY <1>5, <1>6, <1>10
<1>12. \A k, l \in 1 .. L - 1 : k < l => new[k] < new[l]
  BY <1>6, <1>10
<1>13. \A k \in 1 .. L - 1 : Depth(s, new[k], n + 1) = (L - 1) - k + 1
  BY <1>8, <1>10
<1>14. ASSUME NEW k \in 1 .. L - 1, NEW j \in new[k] .. n + 1 PROVE Depth(s, new[k], j) > 0
  <2>1. CASE j = n + 1
    BY <1>13, <2>1
  <2>2. CASE j # n + 1
    <3>1. k \in 1 .. L /\ j \in pos[k] .. n
      BY <1>10, <1>14, <2>2
    <3> QED
      BY <1>6, <1>10, <3>1
  <2> QED
    BY <2>1, <2>2
<1>15. ASSUME NEW i \in 1 .. n + 1
       PROVE  \/ ~IsName(s[i]) \/ \E k \in 1 .. L - 1 : new[k] = i
              \/ \E j \in i .. n + 1 : Depth(s, i, j) <= 0
  <2>1. CASE i = n + 1
    BY <1>7, <2>1
  <2>2. CASE i = pos[L]
    <3>1. L \in 1 .. L /\ n + 1 \in i .. n + 1
      BY <1>5
    <3>2. Depth(s, i, n + 1) = 0
      BY <1>8, <2>2, <3>1
    <3> QED
      BY <3>1, <3>2
  <2>3. CASE i # n + 1 /\ i # pos[L]
    <3>1. i \in 1 .. n /\ i .. n \subseteq i .. n + 1
      BY <2>3
    <3>2. \A k \in 1 .. L : pos[k] = i => k \in 1 .. L - 1
      BY <2>3, <1>5
    <3> QED
      BY <1>6, <1>10, <3>1, <3>2
  <2> QED
    BY <2>1, <2>2, <2>3
<1>16. Len(Folded(s)[n + 1]) = L - 1
  BY <1>4, <1>5
<1>17. new \in Places(s, n + 1)
  BY <1>4, <1>10, <1>11, <1>12, <1>13, <1>14, <1>15, <1>16 DEF Places
<1> QED
  BY <1>17

\* So every component that is kept has its place.
LEMMA AllArePlaced ==
    ASSUME NEW C, NEW s \in Seq(C)
    PROVE  Places(s, Len(s)) # {}
<1>1. PICK S : S = {n \in Nat : n <= Len(s) => Places(s, n) # {}}
  OBVIOUS
<1>2. 0 \in S
  <2>1. Folded(s)[0] = <<>>
    BY FoldedSteps
  <2>2. PICK none : none = [k \in 1 .. 0 |-> 0]
    OBVIOUS
  <2>3. none \in [1 .. 0 -> 1 .. 0] /\ DOMAIN none = {} /\ Len(Folded(s)[0]) = 0 /\ 1 .. 0 = {}
    BY <2>1, <2>2
  <2>4. none \in Places(s, 0)
    BY <2>3 DEF Places
  <2> QED
    BY <1>1, <2>4
<1>3. ASSUME NEW n \in Nat, n \in S PROVE n + 1 \in S
  <2>1. SUFFICES ASSUME n + 1 <= Len(s) PROVE Places(s, n + 1) # {}
    BY <1>1
  <2>2. PICK pos : pos \in Places(s, n)
    BY <1>1, <1>3, <2>1
  <2>3. CASE IsName(s[n + 1])
    BY <2>1, <2>2, <2>3, NameIsPlaced
  <2>4. CASE s[n + 1] = "." \/ (s[n + 1] = ".." /\ Folded(s)[n] = <<>>)
    BY <2>1, <2>2, <2>4, NothingIsPlaced
  <2>5. CASE s[n + 1] = ".." /\ Folded(s)[n] # <<>>
    BY <2>1, <2>2, <2>5, ParentIsPlaced
  <2> QED
    BY <2>3, <2>4, <2>5 DEF IsName
<1>4. Len(s) \in Nat /\ Nat \subseteq S
  BY <1>2, <1>3, Induction
<1> QED
  BY <1>1, <1>4

\* For any components whatever, a root has exactly the names that are kept, each
\* at its place (canonicalize_root_path).
THEOREM RootsKeepTheNames ==
    ASSUME NEW C, NEW path \in [absolute : BOOLEAN, comps : Seq(C)]
    PROVE  KeepsTheNames(path)
<1>1. PICK s \in Seq(C) : s = path.comps
  OBVIOUS
<1>2. PICK n \in Nat : n = Len(s)
  OBVIOUS
<1>3. PICK acc \in Seq(C) : acc = Folded(s)[n]
  BY <1>2, FoldedSteps
<1>4. PICK L \in Nat : L = Len(acc)
  OBVIOUS
<1>5. PICK pos : pos \in Places(s, n)
  BY <1>2, AllArePlaced
<1>6. /\ pos \in [1 .. L -> 1 .. n] /\ DOMAIN pos = 1 .. L
      /\ \A k \in 1 .. L : acc[k] = s[pos[k]] /\ IsName(s[pos[k]])
      /\ \A k, l \in 1 .. L : k < l => pos[k] < pos[l]
      /\ \A k \in 1 .. L : \A j \in pos[k] .. n : Depth(s, pos[k], j) > 0
      /\ \A i \in 1 .. n : \/ ~IsName(s[i]) \/ \E k \in 1 .. L : pos[k] = i
                           \/ \E j \in i .. n : Depth(s, i, j) <= 0
  BY <1>3, <1>4, <1>5 DEF Places
<1>7. ASSUME NEW i \in 1 .. n, NEW j \in i .. n PROVE Depth(s, i, j) \in Int
  <2>1. CASE j + 1 <= n
    BY <1>2, <2>1, DepthGrows
  <2>2. CASE j = n
    <3>1. PICK m \in Nat : m + 1 = n
      OBVIOUS
    <3>2. i \in 1 .. m + 1 /\ m + 1 <= Len(s)
      BY <1>2, <3>1
    <3>3. Depth(s, i, m) \in Int
      BY <3>2, DepthGrows
    <3>4. Depth(s, i, m + 1) = Depth(s, i, m) + (IF IsName(s[m + 1]) THEN 1
                                                 ELSE IF s[m + 1] = ".." THEN -1 ELSE 0)
      BY <3>2, DepthGrows
    <3> QED
      BY <2>2, <3>1, <3>3, <3>4
  <2> QED
    BY <2>1, <2>2
<1>8. PICK kept : kept = Kept(s)
  OBVIOUS
<1>9. kept \subseteq 1 .. n /\ \A i \in 1 .. n : i \in kept <=> \E k \in 1 .. L : pos[k] = i
  <2>1. ASSUME NEW i \in 1 .. n
        PROVE  i \in kept <=> IsName(s[i]) /\ \A j \in i .. n : Depth(s, i, j) > 0
    BY <1>2, <1>8 DEF Kept, IsName
  <2>2. ASSUME NEW i \in 1 .. n, NEW k \in 1 .. L, pos[k] = i PROVE i \in kept
    BY <1>6, <2>1, <2>2
  <2>3. ASSUME NEW i \in 1 .. n, i \in kept PROVE \E k \in 1 .. L : pos[k] = i
    <3>1. IsName(s[i]) /\ \A j \in i .. n : ~(Depth(s, i, j) <= 0)
      BY <1>7, <2>1, <2>3
    <3> QED
      BY <1>6, <3>1
  <2> QED
    BY <1>2, <1>8, <2>2, <2>3 DEF Kept
<1>10. \A k, l \in 1 .. L : pos[k] = pos[l] => k = l
  BY <1>6
<1>11. IsFiniteSet(kept) /\ Cardinality(kept) = L
  <2>1. pos \in [1 .. L -> kept] /\ \A x \in kept : \E k \in 1 .. L : pos[k] = x
    BY <1>6, <1>9
  <2> QED
    BY <1>10, <2>1, CountedOnce
<1>12. ASSUME NEW k \in 1 .. L
       PROVE  Cardinality({j \in kept : j <= pos[k]}) = k
  <2>1. PICK upto : upto = {j \in kept : j <= pos[k]}
    OBVIOUS
  <2>2. PICK f : f = [l \in 1 .. k |-> pos[l]]
    OBVIOUS
  <2>3. \A l \in 1 .. k : l \in 1 .. L /\ pos[l] \in upto
    <3> SUFFICES ASSUME NEW l \in 1 .. k PROVE l \in 1 .. L /\ pos[l] \in upto
      OBVIOUS
    <3>1. l \in 1 .. L /\ (l = k \/ l < k)
      OBVIOUS
    <3>2. pos[l] <= pos[k]
      BY <1>6, <3>1
    <3> QED
      BY <1>6, <1>9, <2>1, <3>1, <3>2
  <2>4. \A x \in upto : \E l \in 1 .. k : f[l] = x
    <3> SUFFICES ASSUME NEW x \in upto PROVE \E l \in 1 .. k : f[l] = x
      OBVIOUS
    <3>1. PICK l \in 1 .. L : pos[l] = x
      BY <1>9, <2>1
    <3>2. ~(k < l)
      BY <1>6, <2>1, <3>1
    <3>3. l \in 1 .. k
      BY <3>2
    <3> QED
      BY <2>2, <3>1, <3>3
  <2>5. f \in [1 .. k -> upto] /\ \A l, m \in 1 .. k : f[l] = f[m] => l = m
    BY <1>10, <2>2, <2>3
  <2>6. k \in Nat
    OBVIOUS
  <2> QED
    BY <2>1, <2>4, <2>5, <2>6, CountedOnce
<1>13. PICK root : root = Canonicalize(path)
  OBVIOUS
<1>14. root.comps = acc /\ root.absolute = (path.absolute \/ acc = <<>>)
  BY <1>1, <1>2, <1>3, <1>13 DEF Canonicalize, Top
<1>15. kept = {} <=> acc = <<>>
  BY <1>4, <1>11, FS_EmptySet
<1>16. ASSUME NEW i \in kept
       PROVE  acc[Cardinality({j \in kept : j <= i})] = s[i]
  <2>1. PICK k \in 1 .. L : pos[k] = i
    BY <1>9
  <2> QED
    BY <1>6, <1>12, <2>1
<1> QED
  BY <1>1, <1>4, <1>8, <1>11, <1>13, <1>14, <1>15, <1>16 DEF KeepsTheNames
-----------------------------------------------------------------------------
(* The LRU cache: one use of any cache.                                    *)

\* What the order of a cache whose map has the keys K is: each of them once.
Enumerates(order, K) ==
    /\ order \in Seq(K)
    /\ ToSet(order) = K
    /\ IsInjective(order)

\* A cache has no fields but a map and an order.
IsCache(c) == c = [map |-> c.map, order |-> c.order]

\* Its order lists its keys, of which there are at most as many as it may have.
IsOrdered(c, capacity) ==
    /\ Enumerates(c.order, DOMAIN c.map)
    /\ IsFiniteSet(DOMAIN c.map) /\ Cardinality(DOMAIN c.map) <= capacity

\* A cache that is read still maps its keys as before.
LEMMA GetKeepsTheMap ==
    ASSUME NEW c, IsCache(c), NEW p
    PROVE  /\ Get(c, p).map = c.map
           /\ Get(c, p) = [map |-> Get(c, p).map, order |-> Get(c, p).order]
<1>1. CASE Cached(c, p)
  <2> DEFINE order == MoveToFront(c.order, p)
  <2>1. Get(c, p) = [c EXCEPT !.order = order]
    BY <1>1 DEF Get
  <2> HIDE DEF order
  <2> QED
    BY <2>1 DEF IsCache
<1>2. CASE ~Cached(c, p)
  BY <1>2 DEF Get, IsCache
<1> QED
  BY <1>1, <1>2

\* A put binds its key and may take another away.
LEMMA PutBinds ==
    ASSUME NEW c, IsCache(c), NEW capacity, NEW p, NEW e
    PROVE  LET filled == Put(c, p, e, capacity)
           IN  /\ filled = [map |-> filled.map, order |-> filled.order]
               /\ \A q \in DOMAIN filled.map :
                      \/ q = p /\ filled.map[q] = e
                      \/ q \in DOMAIN c.map /\ filled.map[q] = c.map[q]
<1>1. CASE Cached(c, p)
  <2> DEFINE order == MoveToFront(c.order, p)
  <2>1. Put(c, p, e, capacity) = [map |-> Bind(c.map, p, e), order |-> order]
    BY <1>1 DEF Put
  <2> HIDE DEF order
  <2> QED
    BY <2>1 DEF Bind
<1>2. CASE ~Cached(c, p)
  <2> DEFINE room == Evict(c, capacity)
             order == <<p>> \o room.order
  <2>1. Put(c, p, e, capacity) = [map |-> Bind(room.map, p, e), order |-> order]
    BY <1>2 DEF Put
  <2>2. \A q \in DOMAIN room.map : q \in DOMAIN c.map /\ room.map[q] = c.map[q]
    <3> DEFINE rest == Restrict(c.map, DOMAIN c.map \ {Last(c.order)})
               front == Front(c.order)
    <3>1. room = c \/ room = [map |-> rest, order |-> front]
      BY DEF Evict
    <3>2. \A q \in DOMAIN rest : q \in DOMAIN c.map /\ rest[q] = c.map[q]
      BY DEF Restrict
    <3> HIDE DEF room, rest, front
    <3> QED
      BY <3>1, <3>2
  <2> HIDE DEF room, order
  <2> QED
    BY <2>1, <2>2 DEF Bind
<1> QED
  BY <1>1, <1>2

\* A key that is used comes to the front, the others close the gap.
LEMMA MoveToFrontEnumerates ==
    ASSUME NEW K, NEW order, Enumerates(order, K), NEW k \in K
    PROVE  LET moved == MoveToFront(order, k)
           IN  /\ Enumerates(moved, K) /\ moved[1] = k
               /\ \A x, y \in K : Before(order, x, y) /\ y # k => Before(moved, x, y)
<1> DEFINE n == Len(order)
<1>1. /\ n \in Nat /\ order \in [1 .. n -> K] /\ DOMAIN order = 1 .. n
      /\ \A x \in K : \E i \in 1 .. n : order[i] = x
      /\ \A i, j \in 1 .. n : order[i] = order[j] => i = j
  BY DEF Enumerates, ToSet, IsInjective
<1>2. PICK i \in 1 .. n : order[i] = k
  BY <1>1
<1>3. RemoveFirst(order, k) = RemoveAt(order, i)
  <2> DEFINE I == {j \in 1 .. n : order[j] = k}
  <2>1. I = {i}
    BY <1>1, <1>2
  <2>2. Min(I) = i
    BY <2>1, i \in Nat DEF Min
  <2>3. SelectInSeq(order, LAMBDA v : v = k) = i
    BY <2>1, <2>2 DEF SelectInSeq
  <2> QED
    BY <2>3, <1>2 DEF RemoveFirst
<1>4. MoveToFront(order, k) = <<k>> \o RemoveAt(order, i)
  BY <1>3 DEF MoveToFront, Enumerates
<1> DEFINE moved == MoveToFront(order, k)
           a == SubSeq(order, 1, i - 1)
           b == SubSeq(order, i + 1, n)
<1>5. /\ a \in Seq(K) /\ Len(a) = i - 1
      /\ \A j \in 1 .. (i - 1) : a[j] = order[j]
  BY <1>1 DEF Enumerates
<1>6. b \in Seq(K) /\ Len(b) = n - i
  <2>1. CASE i = n
    BY <1>1, <2>1 DEF Enumerates
  <2>2. CASE i < n
    BY <1>1, <2>2 DEF Enumerates
  <2> QED
    BY <2>1, <2>2, <1>1
<1>7. ASSUME NEW j \in 1 .. (n - i) PROVE b[j] = order[i + j]
  BY <1>1, <1>7 DEF Enumerates
<1>8. moved = <<k>> \o (a \o b)
  BY <1>4 DEF RemoveAt
<1> HIDE DEF moved, a, b
<1>9. /\ moved \in Seq(K) /\ Len(moved) = n
      /\ moved[1] = order[i]
      /\ \A j \in 2 .. n : moved[j] = IF j <= i THEN order[j - 1] ELSE order[j]
  <2>1. (a \o b) \in Seq(K) /\ Len(a \o b) = n - 1
    <3>1. Len(a \o b) = (i - 1) + (n - i) /\ (i - 1) + (n - i) = n - 1
      BY <1>1, <1>5, <1>6
    <3> QED
      BY <3>1, <1>5, <1>6
  <2>2. \A j \in 1 .. (n - 1) : (a \o b)[j] = IF j <= i - 1 THEN order[j] ELSE order[j + 1]
    <3>1. ASSUME NEW j \in 1 .. (n - 1), j <= i - 1 PROVE (a \o b)[j] = order[j]
      BY <1>1, <1>5, <1>6, <3>1
    <3>2. ASSUME NEW j \in 1 .. (n - 1), ~(j <= i - 1) PROVE (a \o b)[j] = order[j + 1]
      <4>1. (a \o b)[j] = b[j - (i - 1)]
        BY <1>1, <1>5, <1>6, <3>2
      <4>2. j - (i - 1) \in 1 .. (n - i) /\ i + (j - (i - 1)) = j + 1
        BY <1>1, <3>2
      <4> QED
        BY <4>1, <4>2, <1>7
    <3> QED
      BY <3>1, <3>2
  <2> DEFINE ab == a \o b
  <2>3. moved = <<k>> \o ab /\ ab \in Seq(K) /\ Len(ab) = n - 1
    BY <1>8, <2>1
  <2>4. \A j \in 1 .. (n - 1) : ab[j] = IF j <= i - 1 THEN order[j] ELSE order[j + 1]
    BY <2>2
  <2> HIDE DEF ab
  <2>5. /\ moved \in Seq(K) /\ Len(moved) = n
        /\ moved[1] = k /\ \A j \in 2 .. n : moved[j] = ab[j - 1]
    BY <2>3, <1>1
  <2>6. ASSUME NEW j \in 2 .. n
        PROVE  moved[j] = IF j <= i THEN order[j - 1] ELSE order[j]
    <3>1. /\ j - 1 \in 1 .. (n - 1) /\ (j - 1) + 1 = j
          /\ j - 1 <= i - 1 <=> j <= i
      BY <1>1
    <3> QED
      BY <3>1, <2>4, <2>5
  <2> QED
    BY <2>5, <2>6, <1>1, <1>2
<1>10. \A j \in 1 .. n : \E l \in 1 .. n : moved[l] = order[j]
  <2> SUFFICES ASSUME NEW j \in 1 .. n PROVE \E l \in 1 .. n : moved[l] = order[j]
    OBVIOUS
  <2>1. CASE j = i
    BY <2>1, <1>9, <1>1
  <2>2. CASE j < i
    <3>1. j + 1 \in 2 .. n /\ j + 1 \in 1 .. n /\ (j + 1) - 1 = j /\ j + 1 <= i
      BY <2>2, <1>1
    <3> QED
      BY <3>1, <1>9
  <2>3. CASE j > i
    <3>1. j \in 2 .. n /\ ~(j <= i)
      BY <2>3, <1>1
    <3> QED
      BY <3>1, <1>9
  <2> QED
    BY <2>1, <2>2, <2>3, <1>1
<1>11. DOMAIN moved = 1 .. n /\ \A j \in 1 .. n : moved[j] \in K
  BY <1>9, <1>1
<1>12. ToSet(moved) = K
  <2>1. \A x \in K : \E l \in 1 .. n : moved[l] = x
    BY <1>1, <1>10
  <2> QED
    BY <2>1, <1>11 DEF ToSet
<1>13. \A j, l \in 1 .. n : moved[j] = moved[l] => j = l
  <2> DEFINE from(j) == IF j = 1 THEN i ELSE IF j <= i THEN j - 1 ELSE j
  <2>1. ASSUME NEW j \in 1 .. n PROVE from(j) \in 1 .. n /\ moved[j] = order[from(j)]
    <3>1. CASE j = 1
      BY <3>1, <1>9
    <3>2. CASE j # 1 /\ j <= i
      <4>1. j \in 2 .. n /\ j - 1 \in 1 .. n
        BY <3>2, <1>1
      <4> QED
        BY <3>2, <4>1, <1>9
    <3>3. CASE j # 1 /\ ~(j <= i)
      BY <3>3, <1>9, <1>1, j \in 2 .. n
    <3> QED
      BY <3>1, <3>2, <3>3
  <2>2. ASSUME NEW j \in 1 .. n, NEW l \in 1 .. n, from(j) = from(l) PROVE j = l
    BY <2>2, <1>1
  <2> HIDE DEF from
  <2> QED
    BY <2>1, <2>2, <1>1
<1>14. Enumerates(moved, K) /\ moved[1] = k
  BY <1>2, <1>9, <1>11, <1>12, <1>13 DEF Enumerates, IsInjective
<1>15. ASSUME NEW x \in K, NEW y \in K, Before(order, x, y), y # k
       PROVE  Before(moved, x, y)
  <2>0. PICK to \in [1 .. n -> 1 .. n] :
          \A m \in 1 .. n : to[m] = IF m = i THEN 1 ELSE IF m < i THEN m + 1 ELSE m
    <3> DEFINE f == [m \in 1 .. n |-> IF m = i THEN 1 ELSE IF m < i THEN m + 1 ELSE m]
    <3>1. f \in [1 .. n -> 1 .. n]
      BY <1>1
    <3> QED
      BY <3>1
  <2>1. PICK j \in 1 .. n, l \in 1 .. n : j < l /\ order[j] = x /\ order[l] = y
    BY <1>1, <1>15 DEF Before
  <2>2. l # i
    BY <1>2, <1>15, <2>1
  <2>3. to[j] \in 1 .. n /\ to[l] \in 1 .. n /\ to[j] < to[l]
    BY <1>1, <2>0, <2>1, <2>2
  <2>4. ASSUME NEW m \in 1 .. n PROVE moved[to[m]] = order[m]
    <3>1. CASE m = i
      BY <3>1, <2>0, <1>9
    <3>2. CASE m < i
      <4>1. m + 1 \in 2 .. n /\ (m + 1) - 1 = m /\ m + 1 <= i /\ to[m] = m + 1
        BY <3>2, <2>0, <1>1
      <4>2. moved[m + 1] = order[(m + 1) - 1]
        BY <4>1, <1>9
      <4> QED
        BY <4>1, <4>2
    <3>3. CASE m > i
      <4>1. m \in 2 .. n /\ ~(m <= i) /\ to[m] = m
        BY <3>3, <2>0, <1>1
      <4> QED
        BY <4>1, <1>9
    <3> QED
      BY <3>1, <3>2, <3>3, <1>1
  <2> QED
    BY <2>1, <2>3, <2>4, <1>11 DEF Before
<1> QED
  BY <1>14, <1>15 DEF moved

\* A key that the order does not have is put in front of it (put).
LEMMA PushEnumerates ==
    ASSUME NEW K, NEW order, Enumerates(order, K), NEW k, k \notin K
    PROVE  LET pushed == <<k>> \o order
           IN  /\ Enumerates(pushed, K \cup {k}) /\ pushed[1] = k
               /\ \A x, y : Before(order, x, y) => Before(pushed, x, y)
<1> DEFINE n == Len(order)
           pushed == <<k>> \o order
<1>1. /\ n \in Nat /\ order \in [1 .. n -> K] /\ DOMAIN order = 1 .. n
      /\ \A x \in K : \E i \in 1 .. n : order[i] = x
      /\ \A i, j \in 1 .. n : order[i] = order[j] => i = j
  BY DEF Enumerates, ToSet, IsInjective
<1>2. order \in Seq(K \cup {k}) /\ <<k>> \in Seq(K \cup {k})
  BY <1>1 DEF Enumerates
<1>3. pushed \in Seq(K \cup {k}) /\ Len(pushed) = n + 1
  BY <1>1, <1>2
<1>4. pushed[1] = k /\ \A j \in 2 .. (n + 1) : pushed[j] = order[j - 1]
  BY <1>1, <1>2
<1> HIDE DEF pushed
<1>5. DOMAIN pushed = 1 .. (n + 1)
  BY <1>3, <1>1
<1>6. \A j \in 1 .. n : pushed[j + 1] = order[j]
  BY <1>1, <1>4
<1>7. ToSet(pushed) = K \cup {k}
  <2>1. \A x \in K \cup {k} : \E j \in 1 .. (n + 1) : pushed[j] = x
    <3>1. \A x \in K : \E j \in 1 .. (n + 1) : pushed[j] = x
      BY <1>1, <1>6
    <3>2. 1 \in 1 .. (n + 1) /\ pushed[1] = k
      BY <1>1, <1>4
    <3> QED
      BY <3>1, <3>2
  <2>2. \A j \in 1 .. (n + 1) : pushed[j] \in K \cup {k}
    BY <1>3, <1>5
  <2> QED
    BY <2>1, <2>2, <1>5 DEF ToSet
<1>8. \A j, l \in 1 .. (n + 1) : pushed[j] = pushed[l] => j = l
  <2>1. ASSUME NEW j \in 2 .. (n + 1) PROVE j - 1 \in 1 .. n /\ pushed[j] = order[j - 1] /\ pushed[j] \in K
    BY <1>1, <1>4
  <2>2. ASSUME NEW j \in 2 .. (n + 1), NEW l \in 2 .. (n + 1), pushed[j] = pushed[l] PROVE j = l
    BY <2>1, <2>2, <1>1
  <2>3. \A j \in 1 .. (n + 1) : j = 1 \/ j \in 2 .. (n + 1)
    BY <1>1
  <2> QED
    BY <2>1, <2>2, <2>3, <1>4
<1>9. ASSUME NEW x, NEW y, Before(order, x, y)
      PROVE  Before(pushed, x, y)
  <2>1. PICK j \in 1 .. n, l \in 1 .. n : j < l /\ order[j] = x /\ order[l] = y
    BY <1>1, <1>9 DEF Before
  <2>2. j + 1 \in 1 .. (n + 1) /\ l + 1 \in 1 .. (n + 1) /\ j + 1 < l + 1
    BY <1>1, <2>1
  <2> QED
    BY <1>5, <1>6, <2>1, <2>2 DEF Before
<1>10. Enumerates(pushed, K \cup {k})
  BY <1>3, <1>5, <1>7, <1>8 DEF Enumerates, IsInjective
<1> QED
  BY <1>4, <1>9, <1>10 DEF pushed

\* The key at the back of the order leaves it (evict).
LEMMA FrontEnumerates ==
    ASSUME NEW K, NEW order, Enumerates(order, K), order # <<>>
    PROVE  /\ Last(order) \in K
           /\ Enumerates(Front(order), K \ {Last(order)})
           /\ \A x, y : Before(order, x, y) /\ y # Last(order) => Before(Front(order), x, y)
<1> DEFINE n == Len(order)
           kept == Front(order)
<1>1. /\ n \in Nat /\ order \in [1 .. n -> K] /\ DOMAIN order = 1 .. n
      /\ \A x \in K : \E i \in 1 .. n : order[i] = x
      /\ \A i, j \in 1 .. n : order[i] = order[j] => i = j
  BY DEF Enumerates, ToSet, IsInjective
<1>2. n > 0 /\ Last(order) = order[n] /\ order[n] \in K
  BY <1>1 DEF Last, Enumerates
<1>3. Len(kept) = n - 1 /\ DOMAIN kept = 1 .. (n - 1) /\ \A j \in 1 .. (n - 1) : kept[j] = order[j]
  BY <1>1, <1>2 DEF Front, Enumerates
<1>4. \A j \in 1 .. (n - 1) : kept[j] \in K \ {order[n]}
  BY <1>1, <1>2, <1>3
<1>5. kept \in Seq(K \ {order[n]})
  <2>1. kept \in Seq(K)
    BY <1>1, <1>2 DEF Front, Enumerates
  <2> HIDE DEF kept
  <2>2. kept \in [1 .. (n - 1) -> K \ {order[n]}] /\ n - 1 \in Nat
    BY <2>1, <1>1, <1>2, <1>3, <1>4
  <2> QED
    BY <2>2
<1> HIDE DEF kept
<1>6. ToSet(kept) = K \ {order[n]}
  <2>1. ASSUME NEW x \in K \ {order[n]} PROVE \E j \in 1 .. (n - 1) : kept[j] = x
    <3>1. PICK j \in 1 .. n : order[j] = x
      BY <1>1
    <3>2. j \in 1 .. (n - 1)
      BY <3>1, <1>1, <1>2
    <3> QED
      BY <3>1, <3>2, <1>3
  <2>2. ToSet(kept) \subseteq K \ {order[n]}
    BY <1>3, <1>4 DEF ToSet
  <2>3. K \ {order[n]} \subseteq ToSet(kept)
    BY <2>1, <1>3 DEF ToSet
  <2> QED
    BY <2>2, <2>3
<1>7. \A j, l \in 1 .. (n - 1) : kept[j] = kept[l] => j = l
  BY <1>1, <1>2, <1>3
<1>8. ASSUME NEW x, NEW y, Before(order, x, y), y # order[n]
      PROVE  Before(kept, x, y)
  <2>1. PICK j \in 1 .. n, l \in 1 .. n : j < l /\ order[j] = x /\ order[l] = y
    BY <1>1, <1>8 DEF Before
  <2>2. j \in 1 .. (n - 1) /\ l \in 1 .. (n - 1)
    BY <1>1, <1>8, <2>1
  <2> QED
    BY <1>3, <2>1, <2>2 DEF Before
<1>9. Enumerates(kept, K \ {order[n]})
  BY <1>3, <1>5, <1>6, <1>7 DEF Enumerates, IsInjective
<1> QED
  BY <1>2, <1>8, <1>9 DEF kept

\* A hit is a use of the key.
LEMMA GetKeepsOrdered ==
    ASSUME NEW c, IsCache(c), NEW capacity \in Nat \ {0}, IsOrdered(c, capacity), NEW p
    PROVE  LET used == Get(c, p)
           IN  /\ DOMAIN used.map = DOMAIN c.map
               /\ Enumerates(used.order, DOMAIN used.map)
               /\ Cached(c, p) => IsUse(c, used, p, capacity)
<1>1. CASE Cached(c, p)
  <2> DEFINE order == MoveToFront(c.order, p)
  <2>1. /\ Enumerates(order, DOMAIN c.map) /\ order[1] = p
        /\ \A q, r \in DOMAIN c.map :
              Before(c.order, q, r) /\ r # p => Before(order, q, r)
    BY <1>1, MoveToFrontEnumerates DEF Cached, IsOrdered
  <2>2. Get(c, p) = [c EXCEPT !.order = order]
    BY <1>1 DEF Get
  <2> HIDE DEF order
  <2>3. Get(c, p).map = c.map /\ Get(c, p).order = order
    BY <2>2 DEF IsCache
  <2> QED
    BY <2>1, <2>3 DEF IsUse
<1>2. CASE ~Cached(c, p)
  BY <1>2 DEF Get, IsOrdered
<1> QED
  BY <1>1, <1>2

\* A full cache that evicts has room for one more; only the capacity of at least
\* one makes sure that it has something to evict.
LEMMA EvictMakesRoom ==
    ASSUME NEW c, IsCache(c), NEW capacity \in Nat \ {0}, IsOrdered(c, capacity)
    PROVE  LET room == Evict(c, capacity)
           IN  /\ DOMAIN room.map \subseteq DOMAIN c.map
               /\ Enumerates(room.order, DOMAIN room.map)
               /\ IsFiniteSet(DOMAIN room.map)
               /\ Cardinality(DOMAIN room.map) + 1 <= capacity
               /\ \A q, r \in DOMAIN room.map :
                     Before(c.order, q, r) => Before(room.order, q, r)
               /\ \A q \in DOMAIN c.map \ DOMAIN room.map :
                     q = Last(c.order) /\ Cardinality(DOMAIN c.map) = capacity
<1> DEFINE K == DOMAIN c.map
           back == Last(c.order)
           rest == Restrict(c.map, K \ {back})
           front == Front(c.order)
<1>1. Enumerates(c.order, K) /\ IsFiniteSet(K) /\ Cardinality(K) <= capacity
  BY DEF IsOrdered
<1>2. Cardinality(K) \in Nat /\ capacity \in Nat /\ capacity > 0
  BY <1>1, FS_CardinalityType
<1>3. CASE Cardinality(K) < capacity
  <2>1. Evict(c, capacity) = c
    BY <1>3 DEF Evict
  <2> QED
    BY <2>1, <1>1, <1>2, <1>3
<1>4. CASE ~(Cardinality(K) < capacity)
  <2>1. c.order # <<>>
    <3>1. SUFFICES ASSUME c.order = <<>> PROVE FALSE
      OBVIOUS
    <3>2. K = {}
      BY <3>1, <1>1 DEF Enumerates, ToSet
    <3> QED
      BY <3>2, <1>2, <1>4, FS_EmptySet
  <2>2. /\ back \in K /\ Enumerates(front, K \ {back})
        /\ \A q, r : Before(c.order, q, r) /\ r # back => Before(front, q, r)
    BY <1>1, <2>1, FrontEnumerates
  <2>3. Evict(c, capacity) = [map |-> rest, order |-> front]
    BY <1>4, <2>1 DEF Evict
  <2>4. DOMAIN rest = K \ {back}
    BY DEF Restrict
  <2>5. IsFiniteSet(K \ {back}) /\ Cardinality(K \ {back}) = Cardinality(K) - 1
    BY <2>2, <1>1, FS_RemoveElement
  <2> HIDE DEF rest, front, back, K
  <2>6. Cardinality(K \ {back}) + 1 <= capacity /\ Cardinality(K) = capacity
    BY <2>5, <1>1, <1>2, <1>4
  <2>7. Evict(c, capacity).map = rest /\ Evict(c, capacity).order = front
    BY <2>3
  <2>8. \A q \in K \ (K \ {back}) : q = Last(c.order)
    BY DEF back
  <2> QED
    BY <2>2, <2>4, <2>5, <2>6, <2>7, <2>8 DEF K
<1> QED
  BY <1>3, <1>4

\* A put is a use of its key, whether the cache had it or not.
LEMMA PutKeepsOrdered ==
    ASSUME NEW c, IsCache(c), NEW capacity \in Nat \ {0}, IsOrdered(c, capacity), NEW p, NEW e
    PROVE  LET filled == Put(c, p, e, capacity)
           IN  /\ Enumerates(filled.order, DOMAIN filled.map)
               /\ IsFiniteSet(DOMAIN filled.map)
               /\ Cardinality(DOMAIN filled.map) <= capacity
               /\ IsUse(c, filled, p, capacity)
<1>1. CASE Cached(c, p)
  <2> DEFINE order == MoveToFront(c.order, p)
             map == Bind(c.map, p, e)
  <2>1. /\ Enumerates(order, DOMAIN c.map) /\ order[1] = p
        /\ \A q, r \in DOMAIN c.map :
              Before(c.order, q, r) /\ r # p => Before(order, q, r)
    BY <1>1, MoveToFrontEnumerates DEF Cached, IsOrdered
  <2>2. DOMAIN map = DOMAIN c.map
    BY <1>1 DEF Bind, Cached
  <2>3. Put(c, p, e, capacity) = [map |-> map, order |-> order]
    BY <1>1 DEF Put
  <2> HIDE DEF order, map
  <2> QED
    BY <2>1, <2>2, <2>3 DEF IsOrdered, IsUse
<1>2. CASE ~Cached(c, p)
  <2> DEFINE room == Evict(c, capacity)
             order == <<p>> \o room.order
             map == Bind(room.map, p, e)
  <2>1. /\ DOMAIN room.map \subseteq DOMAIN c.map
        /\ Enumerates(room.order, DOMAIN room.map)
        /\ IsFiniteSet(DOMAIN room.map)
        /\ Cardinality(DOMAIN room.map) + 1 <= capacity
        /\ \A q, r \in DOMAIN room.map :
              Before(c.order, q, r) => Before(room.order, q, r)
        /\ \A q \in DOMAIN c.map \ DOMAIN room.map :
              q = Last(c.order) /\ Cardinality(DOMAIN c.map) = capacity
    BY EvictMakesRoom
  <2>2. p \notin DOMAIN room.map
    BY <1>2, <2>1 DEF Cached
  <2>3. DOMAIN map = DOMAIN room.map \cup {p}
    BY DEF Bind
  <2>4. Put(c, p, e, capacity) = [map |-> map, order |-> order]
    BY <1>2 DEF Put
  <2> HIDE DEF room
  <2>5. /\ Enumerates(order, DOMAIN room.map \cup {p}) /\ order[1] = p
        /\ \A q, r : Before(room.order, q, r) => Before(order, q, r)
    BY <2>1, <2>2, PushEnumerates
  <2>6. /\ IsFiniteSet(DOMAIN room.map \cup {p})
        /\ Cardinality(DOMAIN room.map \cup {p}) = Cardinality(DOMAIN room.map) + 1
    BY <2>1, <2>2, FS_AddElement
  <2> HIDE DEF order, map
  <2>7. Put(c, p, e, capacity).map = map /\ Put(c, p, e, capacity).order = order
    BY <2>4
  <2>8. IsUse(c, Put(c, p, e, capacity), p, capacity)
    <3>1. \A q, r \in DOMAIN map \ {p} : Before(c.order, q, r) => Before(order, q, r)
      BY <2>1, <2>3, <2>5
    <3>2. \A q \in DOMAIN c.map \ DOMAIN map :
              q = Last(c.order) /\ Cardinality(DOMAIN c.map) = capacity
      BY <2>1, <2>3
    <3> QED
      BY <1>2, <2>5, <2>7, <3>1, <3>2 DEF IsUse, Cached
  <2> QED
    BY <2>1, <2>3, <2>5, <2>6, <2>7, <2>8
<1> QED
  BY <1>1, <1>2

\* What a use of key k leaves of the other entries.
KeepsTheRest(c, new, k, capacity) ==
    /\ k \in DOMAIN new.map /\ DOMAIN new.map \subseteq DOMAIN c.map \cup {k}
    /\ \A q \in DOMAIN new.map \ {k} : new.map[q] = c.map[q]
    /\ Cardinality(DOMAIN c.map) = capacity => Cardinality(DOMAIN new.map) = capacity

\* The value that a cache has for a key.
Holds(c, k, v) == c.map[k] = v

\* The key that is put is in the cache with its value, and who is not put keeps
\* its own; a full cache stays full.
LEMMA PutFills ==
    ASSUME NEW c, IsCache(c), NEW capacity \in Nat \ {0}, IsOrdered(c, capacity), NEW p, NEW e,
           NEW filled, filled = Put(c, p, e, capacity)
    PROVE  /\ KeepsTheRest(c, filled, p, capacity) /\ Holds(filled, p, e)
           /\ filled.map = [q \in DOMAIN filled.map |-> filled.map[q]]
<1>1. \A m : Bind(m, p, e) = [x \in DOMAIN m \cup {p} |-> IF x = p THEN e ELSE m[x]]
  BY DEF Bind
<1>2. CASE Cached(c, p)
  <2>1. Put(c, p, e, capacity).map = Bind(c.map, p, e)
    BY <1>2 DEF Put
  <2>2. DOMAIN c.map \cup {p} = DOMAIN c.map
    BY <1>2 DEF Cached
  <2>3. PICK m, f : m = c.map /\ f = Put(c, p, e, capacity).map
    OBVIOUS
  <2>4. f = [x \in DOMAIN m \cup {p} |-> IF x = p THEN e ELSE m[x]]
    <3>1. f = Bind(m, p, e)
      BY <2>1, <2>3, Zenon
    <3> QED
      BY <3>1 DEF Bind
  <2>5. /\ p \in DOMAIN f /\ f[p] = e
        /\ DOMAIN f \subseteq DOMAIN m \cup {p}
        /\ \A q \in DOMAIN f \ {p} : f[q] = m[q]
        /\ f = [q \in DOMAIN f |-> f[q]]
    BY <2>4
  <2>6. DOMAIN f = DOMAIN m
    BY <2>2, <2>3, <2>4
  <2> QED
    BY <2>3, <2>5, <2>6 DEF KeepsTheRest, Holds
<1>3. CASE ~Cached(c, p)
  <2>1. PICK room : room = Evict(c, capacity)
    OBVIOUS
  <2>2. Put(c, p, e, capacity).map = Bind(room.map, p, e)
    BY <1>3, <2>1 DEF Put
  <2>3. \A q \in DOMAIN room.map : q \in DOMAIN c.map /\ room.map[q] = c.map[q]
    <3> DEFINE rest == Restrict(c.map, DOMAIN c.map \ {Last(c.order)})
               front == Front(c.order)
    <3>1. room = c \/ room = [map |-> rest, order |-> front]
      BY <2>1 DEF Evict
    <3>2. \A q \in DOMAIN rest : q \in DOMAIN c.map /\ rest[q] = c.map[q]
      BY DEF Restrict
    <3> HIDE DEF rest, front
    <3> QED
      BY <3>1, <3>2
  <2>4. p \notin DOMAIN room.map
    BY <1>3, <2>3 DEF Cached
  <2>5. ASSUME Cardinality(DOMAIN c.map) = capacity
        PROVE  Cardinality(DOMAIN room.map \cup {p}) = capacity
    <3>1. IsFiniteSet(DOMAIN c.map) /\ Enumerates(c.order, DOMAIN c.map)
      BY DEF IsOrdered
    <3>2. c.order # <<>>
      <4>1. SUFFICES ASSUME c.order = <<>> PROVE FALSE
        OBVIOUS
      <4>2. DOMAIN c.map = {}
        BY <3>1, <4>1 DEF Enumerates, ToSet
      <4> QED
        BY <2>5, <4>2, FS_EmptySet
    <3>3. Last(c.order) \in DOMAIN c.map
      BY <3>1, <3>2, FrontEnumerates
    <3>4. room.map = Restrict(c.map, DOMAIN c.map \ {Last(c.order)})
      BY <2>1, <2>5, <3>2 DEF Evict
    <3>5. PICK D : D = DOMAIN c.map \ {Last(c.order)}
      OBVIOUS
    <3>6. DOMAIN room.map = D
      BY <3>4, <3>5 DEF Restrict
    <3>7. IsFiniteSet(D) /\ Cardinality(D) = capacity - 1
      BY <2>5, <3>1, <3>3, <3>5, FS_RemoveElement
    <3>8. Cardinality(D \cup {p}) = Cardinality(D) + 1
      BY <2>4, <3>6, <3>7, FS_AddElement
    <3> QED
      BY <3>6, <3>7, <3>8
  <2>6. PICK m, f : m = room.map /\ f = Put(c, p, e, capacity).map
    OBVIOUS
  <2>7. f = [x \in DOMAIN m \cup {p} |-> IF x = p THEN e ELSE m[x]]
    <3>1. f = Bind(m, p, e)
      BY <2>2, <2>6, Zenon
    <3> QED
      BY <3>1 DEF Bind
  <2>8. /\ p \in DOMAIN f /\ f[p] = e /\ DOMAIN f = DOMAIN m \cup {p}
        /\ \A q \in DOMAIN f \ {p} : f[q] = m[q]
        /\ f = [q \in DOMAIN f |-> f[q]]
    BY <2>7
  <2>9. /\ DOMAIN f \subseteq DOMAIN c.map \cup {p}
        /\ \A q \in DOMAIN f \ {p} : f[q] = c.map[q]
    BY <2>3, <2>6, <2>8
  <2>10. Cardinality(DOMAIN c.map) = capacity => Cardinality(DOMAIN f) = capacity
    BY <2>5, <2>6, <2>8
  <2> QED
    BY <2>6, <2>8, <2>9, <2>10 DEF KeepsTheRest, Holds
<1> QED
  BY <1>2, <1>3

\* The caches that uses of the keys K can make of an empty one.
Caches(K, capacity) ==
    {c \in [map : UNION {[D -> Nat] : D \in SUBSET K}, order : Seq(K)] : IsOrdered(c, capacity)}

\* Each of them is a cache in order.
LEMMA CacheShape ==
    ASSUME NEW K, NEW capacity, NEW c
    PROVE  c \in Caches(K, capacity) <=>
               /\ IsCache(c) /\ IsOrdered(c, capacity)
               /\ DOMAIN c.map \subseteq K
               /\ c.map = [k \in DOMAIN c.map |-> c.map[k]]
               /\ \A k \in DOMAIN c.map : c.map[k] \in Nat
<1>1. ASSUME c \in Caches(K, capacity)
      PROVE  /\ IsCache(c) /\ IsOrdered(c, capacity)
             /\ DOMAIN c.map \subseteq K
             /\ c.map = [k \in DOMAIN c.map |-> c.map[k]]
             /\ \A k \in DOMAIN c.map : c.map[k] \in Nat
  <2>1. PICK D \in SUBSET K : c.map \in [D -> Nat]
    BY <1>1 DEF Caches
  <2> QED
    BY <1>1, <2>1 DEF Caches, IsCache
<1>2. ASSUME IsCache(c), IsOrdered(c, capacity), DOMAIN c.map \subseteq K,
             c.map = [k \in DOMAIN c.map |-> c.map[k]],
             \A k \in DOMAIN c.map : c.map[k] \in Nat
      PROVE  c \in Caches(K, capacity)
  <2>1. c.map \in [DOMAIN c.map -> Nat]
    BY <1>2
  <2>2. c.order \in Seq(K)
    BY <1>2 DEF IsOrdered, Enumerates
  <2>3. PICK m : m = c.map
    OBVIOUS
  <2>4. PICK o : o = c.order
    OBVIOUS
  <2>5. c = [map |-> m, order |-> o]
    BY <1>2, <2>3, <2>4 DEF IsCache
  <2>6. m \in UNION {[D -> Nat] : D \in SUBSET K}
    BY <1>2, <2>1, <2>3
  <2> QED
    BY <1>2, <2>2, <2>4, <2>5, <2>6 DEF Caches
<1> QED
  BY <1>1, <1>2

\* A get or a put makes such a cache of another.
LEMMA UseKeepsShape ==
    ASSUME NEW K, NEW capacity \in Nat \ {0}, NEW c \in Caches(K, capacity),
           NEW k \in K, NEW v \in Nat
    PROVE  /\ Get(c, k) \in Caches(K, capacity)
           /\ Put(c, k, v, capacity) \in Caches(K, capacity)
<1>1. /\ IsCache(c) /\ IsOrdered(c, capacity) /\ DOMAIN c.map \subseteq K
      /\ c.map = [x \in DOMAIN c.map |-> c.map[x]]
      /\ \A x \in DOMAIN c.map : c.map[x] \in Nat
  BY CacheShape
<1>2. PICK g : g = Get(c, k)
  OBVIOUS
<1>3. g.map = c.map /\ IsCache(g)
  BY <1>1, <1>2, GetKeepsTheMap DEF IsCache
<1>4. IsOrdered(g, capacity)
  <2>1. Enumerates(g.order, DOMAIN g.map)
    BY <1>1, <1>2, GetKeepsOrdered
  <2> QED
    BY <1>1, <1>3, <2>1 DEF IsOrdered
<1>5. g \in Caches(K, capacity)
  BY <1>1, <1>3, <1>4, CacheShape
<1>6. PICK f : f = Put(c, k, v, capacity)
  OBVIOUS
<1>7. IsCache(f)
  BY <1>1, <1>6, PutBinds DEF IsCache
<1>8. IsOrdered(f, capacity)
  BY <1>1, <1>6, PutKeepsOrdered DEF IsOrdered
<1>9. /\ k \in DOMAIN f.map /\ f.map[k] = v /\ DOMAIN f.map \subseteq DOMAIN c.map \cup {k}
      /\ \A q \in DOMAIN f.map \ {k} : f.map[q] = c.map[q]
      /\ f.map = [q \in DOMAIN f.map |-> f.map[q]]
  BY <1>1, <1>6, PutFills DEF KeepsTheRest, Holds
<1>10. \A q \in DOMAIN f.map : f.map[q] \in Nat
  BY <1>1, <1>9
<1>11. f \in Caches(K, capacity)
  <2>1. DOMAIN f.map \subseteq K
    BY <1>1, <1>9
  <2> QED
    BY <1>7, <1>8, <1>9, <1>10, <2>1, CacheShape
<1> QED
  BY <1>2, <1>5, <1>6, <1>11

\* A use is a get or a put of a key.
UsesOf(K) == [op : {"get", "put"}, key : K]

\* The cache after a use is what the use makes of the one before.
UseStep(c, use, n) ==
    IF use.op = "get" THEN Get(c, use.key) ELSE Put(c, use.key, n, CacheCapacity)

\* Use after use, from the empty cache.
LEMMA CacheAfterSteps ==
    ASSUME NEW K, NEW uses \in Seq(UsesOf(K))
    PROVE  /\ CacheAfter(uses)[0] = EmptyCache
           /\ \A n \in 0 .. Len(uses) : CacheAfter(uses)[n] \in Caches(K, CacheCapacity)
           /\ \A n \in 1 .. Len(uses) :
                  CacheAfter(uses)[n] = UseStep(CacheAfter(uses)[n - 1], uses[n], n)
<1>1. PICK A : A = Caches(K, CacheCapacity)
  OBVIOUS
<1>2. EmptyCache \in A
  <2>1. PICK c : c = EmptyCache
    OBVIOUS
  <2>2. c = [map |-> <<>>, order |-> <<>>] /\ c.map = <<>> /\ c.order = <<>>
    BY <2>1 DEF EmptyCache
  <2>3. DOMAIN c.map = {} /\ c.map = [k \in DOMAIN c.map |-> c.map[k]]
    BY <2>2
  <2>4. Enumerates(c.order, DOMAIN c.map)
    BY <2>2, <2>3 DEF Enumerates, ToSet, IsInjective
  <2>5. IsFiniteSet(DOMAIN c.map) /\ Cardinality(DOMAIN c.map) <= CacheCapacity
    BY <2>3, FS_EmptySet, AlgorithmsAssumption
  <2>6. IsCache(c)
    BY <2>2 DEF IsCache
  <2>7. IsOrdered(c, CacheCapacity)
    BY <2>4, <2>5 DEF IsOrdered
  <2>8. DOMAIN c.map \subseteq K /\ \A k \in DOMAIN c.map : c.map[k] \in Nat
    BY <2>3
  <2>9. c \in Caches(K, CacheCapacity)
    BY <2>3, <2>6, <2>7, <2>8, CacheShape
  <2> QED
    BY <1>1, <2>1, <2>9
<1>3. ASSUME NEW c \in A, NEW n \in Nat, n \in 1 .. Len(uses)
      PROVE  UseStep(c, uses[n], n) \in A
  <2>1. uses[n] \in UsesOf(K)
    BY <1>3
  <2>2. uses[n].key \in K
    BY <2>1 DEF UsesOf
  <2> QED
    BY <1>1, <1>3, <2>2, UseKeepsShape, AlgorithmsAssumption DEF UseStep
<1>4. PICK F : F = [x \in A \X Nat |->
                      IF x[2] \in 1 .. Len(uses) THEN UseStep(x[1], uses[x[2]], x[2]) ELSE x[1]]
  OBVIOUS
<1>5. F \in [A \X Nat -> A]
  <2>1. ASSUME NEW x \in A \X Nat PROVE F[x] \in A
    <3>1. PICK c \in A, n \in Nat : x = <<c, n>>
      OBVIOUS
    <3>2. F[x] = IF n \in 1 .. Len(uses) THEN UseStep(c, uses[n], n) ELSE c
      BY <1>4, <3>1
    <3> QED
      BY <1>3, <3>2
  <2> QED
    BY <1>4, <2>1
<1>6. PICK w \in [0 .. Len(uses) -> A] :
          w[0] = EmptyCache /\ \A n \in 1 .. Len(uses) : w[n] = F[<<w[n - 1], n>>]
  <2>1. PICK a : a = EmptyCache
    OBVIOUS
  <2>2. PICK k \in Nat : k = Len(uses)
    OBVIOUS
  <2>3. a \in A
    BY <1>2, <2>1
  <2>4. Iterates(A, a, F, k) # {}
    BY <1>5, <2>2, <2>3, Iteration
  <2> QED
    BY <2>1, <2>2, <2>4 DEF Iterates
<1>7. \A n \in 1 .. Len(uses) : w[n] = UseStep(w[n - 1], uses[n], n)
  <2> SUFFICES ASSUME NEW n \in 1 .. Len(uses) PROVE w[n] = UseStep(w[n - 1], uses[n], n)
    OBVIOUS
  <2>1. w[n - 1] \in A /\ n \in Nat
    BY <1>6
  <2>2. F[<<w[n - 1], n>>] = UseStep(w[n - 1], uses[n], n)
    BY <1>4, <2>1
  <2> QED
    BY <1>6, <2>2
<1>8. w = [n \in 0 .. Len(uses) |->
             IF n = 0 THEN EmptyCache
             ELSE IF uses[n].op = "get" THEN Get(w[n - 1], uses[n].key)
             ELSE Put(w[n - 1], uses[n].key, n, CacheCapacity)]
  <2>1. ASSUME NEW n \in 0 .. Len(uses)
        PROVE  w[n] = IF n = 0 THEN EmptyCache
                      ELSE IF uses[n].op = "get" THEN Get(w[n - 1], uses[n].key)
                      ELSE Put(w[n - 1], uses[n].key, n, CacheCapacity)
    <3>1. n = 0 \/ n \in 1 .. Len(uses)
      OBVIOUS
    <3> QED
      BY <1>6, <1>7, <3>1 DEF UseStep
  <2> QED
    BY <1>6, <2>1
<1>9. PICK g : g = CacheAfter(uses)
  OBVIOUS
<1>10. g = [n \in 0 .. Len(uses) |->
              IF n = 0 THEN EmptyCache
              ELSE IF uses[n].op = "get" THEN Get(g[n - 1], uses[n].key)
              ELSE Put(g[n - 1], uses[n].key, n, CacheCapacity)]
  BY <1>8, <1>9, Zenon DEF CacheAfter
<1>11. g[0] = EmptyCache
  <2>1. 0 \in 0 .. Len(uses)
    OBVIOUS
  <2> QED
    BY <1>10, <2>1, Zenon
<1>12. \A n \in 1 .. Len(uses) : g[n] = UseStep(g[n - 1], uses[n], n)
  <2> SUFFICES ASSUME NEW n \in 1 .. Len(uses) PROVE g[n] = UseStep(g[n - 1], uses[n], n)
    OBVIOUS
  <2>1. n \in 0 .. Len(uses) /\ n # 0
    OBVIOUS
  <2>2. g[n] = IF uses[n].op = "get" THEN Get(g[n - 1], uses[n].key)
               ELSE Put(g[n - 1], uses[n].key, n, CacheCapacity)
    BY <1>10, <2>1, Zenon
  <2> QED
    BY <2>2 DEF UseStep
<1>13. PICK S : S = {n \in Nat : n <= Len(uses) => g[n] \in A}
  OBVIOUS
<1>14. ASSUME NEW n \in Nat, n \in S PROVE n + 1 \in S
  <2>1. SUFFICES ASSUME n + 1 <= Len(uses) PROVE g[n + 1] \in A
    BY <1>13
  <2>2. n + 1 \in 1 .. Len(uses) /\ n + 1 - 1 = n /\ g[n] \in A
    BY <1>13, <1>14, <2>1
  <2>3. g[n + 1] = UseStep(g[n], uses[n + 1], n + 1)
    BY <1>12, <2>2
  <2> QED
    BY <1>3, <2>2, <2>3
<1>15. Nat \subseteq S
  <2>1. 0 \in S
    BY <1>2, <1>11, <1>13
  <2> QED
    BY <1>14, <2>1, Induction
<1>16. \A n \in 0 .. Len(uses) : g[n] \in A
  BY <1>13, <1>15
<1> QED
  BY <1>1, <1>9, <1>11, <1>12, <1>16
-----------------------------------------------------------------------------
(* The LRU cache: any uses of an empty one.                                *)

\* Who is listed once each stands before or behind another, and not both; nobody
\* stands before the first or behind the last.
LEMMA ListsAreOrders ==
    ASSUME NEW D, NEW order, Enumerates(order, D)
    PROVE  /\ \A x, y : Before(order, x, y) => x \in D /\ y \in D /\ x # y /\ ~Before(order, y, x)
           /\ \A x, y \in D : x # y => Before(order, x, y) \/ Before(order, y, x)
           /\ \A x : ~Before(order, x, order[1])
           /\ \A x \in D : x # Last(order) => Before(order, x, Last(order))
<1> DEFINE n == Len(order)
<1>1. /\ n \in Nat /\ order \in [1 .. n -> D] /\ DOMAIN order = 1 .. n
      /\ \A x \in D : \E i \in 1 .. n : order[i] = x
      /\ \A i, j \in 1 .. n : order[i] = order[j] => i = j
  BY DEF Enumerates, ToSet, IsInjective
<1>2. \A x, y : Before(order, x, y) <=> \E i, j \in 1 .. n : i < j /\ order[i] = x /\ order[j] = y
  BY <1>1 DEF Before
<1> HIDE DEF n
<1>3. \A x, y : Before(order, x, y) => x \in D /\ y \in D /\ x # y /\ ~Before(order, y, x)
  BY <1>1, <1>2
<1>4. \A x, y \in D : x # y => Before(order, x, y) \/ Before(order, y, x)
  <2> SUFFICES ASSUME NEW x \in D, NEW y \in D, x # y
               PROVE  Before(order, x, y) \/ Before(order, y, x)
    OBVIOUS
  <2>1. PICK i \in 1 .. n, j \in 1 .. n : order[i] = x /\ order[j] = y
    BY <1>1
  <2>2. i < j \/ j < i
    BY <2>1
  <2> QED
    BY <1>2, <2>1, <2>2
<1>5. \A x : ~Before(order, x, order[1])
  <2> SUFFICES ASSUME NEW x, Before(order, x, order[1]) PROVE FALSE
    OBVIOUS
  <2>1. PICK i \in 1 .. n, j \in 1 .. n : i < j /\ order[j] = order[1]
    BY <1>2
  <2>2. 1 \in 1 .. n
    BY <2>1, <1>1
  <2> QED
    BY <1>1, <2>1, <2>2
<1>6. ASSUME NEW x \in D, x # Last(order) PROVE Before(order, x, Last(order))
  <2>1. PICK i \in 1 .. n : order[i] = x
    BY <1>1
  <2>2. Last(order) = order[n] /\ n \in 1 .. n
    BY <2>1, <1>1 DEF Last, n
  <2>3. i < n
    BY <1>6, <2>1, <2>2
  <2> QED
    BY <1>2, <2>1, <2>2, <2>3
<1> QED
  BY <1>3, <1>4, <1>5, <1>6

\* What the cache c after n uses knows of them, where last has for each key its
\* last use so far, or 0: the cached keys are those used last, in that order.
Tracks(K, uses, n, c) ==
    {last \in [K -> 0 .. n] :
        /\ \A k \in K : \A i \in Touches(uses, k) : i <= n => i <= last[k]
        /\ \A k \in K : last[k] = 0 \/ last[k] \in Touches(uses, k)
        /\ \A k \in DOMAIN c.map : last[k] > 0
        /\ \A q, r \in K : Before(c.order, q, r) => last[q] > last[r]
        /\ \A q \in K \ DOMAIN c.map : last[q] > 0 =>
              /\ Cardinality(DOMAIN c.map) = CacheCapacity
              /\ \A r \in DOMAIN c.map : last[q] < last[r]
        /\ \A k \in DOMAIN c.map :
              /\ c.map[k] \in 1 .. n /\ uses[c.map[k]] = [op |-> "put", key |-> k]
              /\ \A j \in c.map[k] + 1 .. n : uses[j] # uses[c.map[k]]}

\* A get that misses is no use.
LEMMA MissIsTracked ==
    ASSUME NEW K, NEW uses \in Seq(UsesOf(K)), NEW n \in Nat, n + 1 \in 1 .. Len(uses),
           NEW c, c = CacheAfter(uses)[n],
           uses[n + 1].op = "get", ~Cached(c, uses[n + 1].key),
           NEW last \in Tracks(K, uses, n, c)
    PROVE  last \in Tracks(K, uses, n + 1, c)
<1>1. last \in [K -> 0 .. n + 1]
  BY DEF Tracks
<1>2. \A k \in K : \A i \in Touches(uses, k) : i <= n + 1 => i <= last[k]
  <2> SUFFICES ASSUME NEW k \in K, NEW i \in Touches(uses, k), i <= n + 1
               PROVE  i <= last[k]
    OBVIOUS
  <2>1. i \in 1 .. Len(uses) /\ i # n + 1
    <3>1. i \in DOMAIN uses /\ uses[i].key = k
          /\ (uses[i].op = "put" \/ Cached(CacheAfter(uses)[i - 1], k))
      BY DEF Touches
    <3>2. i = n + 1 => i - 1 = n
      OBVIOUS
    <3> QED
      BY <3>1, <3>2
  <2> QED
    BY <2>1 DEF Tracks
<1>3. \A k \in DOMAIN c.map :
          /\ c.map[k] \in 1 .. n + 1 /\ uses[c.map[k]] = [op |-> "put", key |-> k]
          /\ \A j \in c.map[k] + 1 .. n + 1 : uses[j] # uses[c.map[k]]
  <2> SUFFICES ASSUME NEW k \in DOMAIN c.map
               PROVE  /\ c.map[k] \in 1 .. n + 1 /\ uses[c.map[k]] = [op |-> "put", key |-> k]
                      /\ \A j \in c.map[k] + 1 .. n + 1 : uses[j] # uses[c.map[k]]
    OBVIOUS
  <2>1. PICK v \in 1 .. n : v = c.map[k] /\ uses[v] = [op |-> "put", key |-> k]
                            /\ \A j \in v + 1 .. n : uses[j] # uses[v]
    BY DEF Tracks
  <2>2. uses[n + 1] # uses[v]
    BY <2>1
  <2>3. \A j \in v + 1 .. n + 1 : j = n + 1 \/ j \in v + 1 .. n
    OBVIOUS
  <2> QED
    BY <2>1, <2>2, <2>3
<1> QED
  BY <1>1, <1>2, <1>3 DEF Tracks

\* A put, or a get that hits, makes its key the one used last.
LEMMA UseIsTracked ==
    ASSUME NEW K, NEW uses \in Seq(UsesOf(K)), NEW n \in Nat, n + 1 \in 1 .. Len(uses),
           NEW c \in Caches(K, CacheCapacity), c = CacheAfter(uses)[n],
           NEW k \in K, k = uses[n + 1].key,
           uses[n + 1].op = "put" \/ Cached(c, k),
           NEW new \in Caches(K, CacheCapacity), IsUse(c, new, k, CacheCapacity),
           KeepsTheRest(c, new, k, CacheCapacity),
           uses[n + 1].op = "put" => new.map[k] = n + 1,
           uses[n + 1].op = "get" => new.map[k] = c.map[k],
           NEW last \in Tracks(K, uses, n, c)
    PROVE  Tracks(K, uses, n + 1, new) # {}
<1>0. /\ k \in DOMAIN new.map /\ DOMAIN new.map \subseteq DOMAIN c.map \cup {k}
      /\ \A q \in DOMAIN new.map \ {k} : new.map[q] = c.map[q]
      /\ Cardinality(DOMAIN c.map) = CacheCapacity => Cardinality(DOMAIN new.map) = CacheCapacity
  BY DEF KeepsTheRest
<1>1. PICK l : l = [x \in K |-> IF x = k THEN n + 1 ELSE last[x]]
  OBVIOUS
<1>2. last \in [K -> 0 .. n]
  BY DEF Tracks
<1>3. /\ l \in [K -> 0 .. n + 1] /\ l[k] = n + 1
      /\ \A x \in K : x # k => l[x] = last[x] /\ l[x] < n + 1
  BY <1>1, <1>2
<1>4. /\ DOMAIN c.map \subseteq K /\ Enumerates(c.order, DOMAIN c.map)
      /\ DOMAIN new.map \subseteq K /\ Enumerates(new.order, DOMAIN new.map)
  BY CacheShape DEF IsOrdered
<1>5. /\ \A x, y : Before(c.order, x, y) =>
              x \in DOMAIN c.map /\ y \in DOMAIN c.map /\ x # y /\ ~Before(c.order, y, x)
      /\ \A x, y \in DOMAIN c.map : x # y => Before(c.order, x, y) \/ Before(c.order, y, x)
      /\ \A x \in DOMAIN c.map : x # Last(c.order) => Before(c.order, x, Last(c.order))
  BY <1>0, <1>4, ListsAreOrders
<1>6. /\ \A x, y : Before(new.order, x, y) =>
              x \in DOMAIN new.map /\ y \in DOMAIN new.map /\ x # y /\ ~Before(new.order, y, x)
      /\ \A x : ~Before(new.order, x, new.order[1])
  BY <1>0, <1>4, ListsAreOrders
<1>7. /\ new.order[1] = k
      /\ \A x, y \in DOMAIN new.map \ {k} :
            Before(c.order, x, y) => Before(new.order, x, y)
      /\ \A x \in DOMAIN c.map \ DOMAIN new.map :
            x = Last(c.order) /\ Cardinality(DOMAIN c.map) = CacheCapacity
  BY DEF IsUse
<1>8. \A x \in K : \A i \in Touches(uses, x) : i <= n + 1 => i <= l[x]
  <2> SUFFICES ASSUME NEW x \in K, NEW i \in Touches(uses, x), i <= n + 1
               PROVE  i <= l[x]
    OBVIOUS
  <2>1. i \in 1 .. Len(uses) /\ uses[i].key = x
    BY DEF Touches
  <2>2. i = n + 1 \/ i <= n
    BY <2>1
  <2>3. i <= n => i <= last[x]
    BY DEF Tracks
  <2> QED
    BY <1>2, <1>3, <2>1, <2>2, <2>3
<1>9. \A x \in K : l[x] = 0 \/ l[x] \in Touches(uses, x)
  <2>1. n + 1 \in Touches(uses, k)
    <3>1. n + 1 \in DOMAIN uses /\ n + 1 - 1 = n
      OBVIOUS
    <3> QED
      BY <3>1 DEF Touches
  <2>2. \A x \in K : last[x] = 0 \/ last[x] \in Touches(uses, x)
    BY DEF Tracks
  <2> QED
    BY <1>3, <2>1, <2>2
<1>10. \A x \in DOMAIN new.map : l[x] > 0
  <2>1. \A x \in DOMAIN c.map : last[x] > 0
    BY DEF Tracks
  <2> QED
    BY <1>0, <1>3, <1>4, <2>1
<1>11. \A q, r \in K : Before(new.order, q, r) => l[q] > l[r]
  <2> SUFFICES ASSUME NEW q \in K, NEW r \in K, Before(new.order, q, r) PROVE l[q] > l[r]
    OBVIOUS
  <2>1. q \in DOMAIN new.map /\ r \in DOMAIN new.map /\ q # r /\ r # k
    BY <1>6, <1>7
  <2>2. CASE q = k
    BY <1>0, <1>3, <2>1, <2>2
  <2>3. CASE q # k
    <3>1. q \in DOMAIN c.map /\ r \in DOMAIN c.map /\ ~Before(new.order, r, q)
      BY <1>0, <1>6, <2>1, <2>3
    <3>2. Before(c.order, q, r)
      BY <1>5, <1>7, <2>1, <2>3, <3>1
    <3>3. last[q] > last[r]
      BY <3>2 DEF Tracks
    <3> QED
      BY <1>3, <2>1, <2>3, <3>3
  <2> QED
    BY <2>2, <2>3
<1>12. ASSUME NEW q \in K \ DOMAIN new.map, l[q] > 0
       PROVE  /\ Cardinality(DOMAIN new.map) = CacheCapacity
              /\ \A r \in DOMAIN new.map : l[q] < l[r]
  <2>1. q # k /\ l[q] = last[q] /\ last[q] \in 0 .. n
    BY <1>0, <1>2, <1>3
  <2>2. CASE q \in DOMAIN c.map
    <3>1. q = Last(c.order) /\ Cardinality(DOMAIN c.map) = CacheCapacity
      BY <1>7, <2>2
    <3>2. ASSUME NEW r \in DOMAIN new.map, r # k PROVE last[q] < last[r]
      <4>1. r \in DOMAIN c.map /\ r # q
        BY <1>0, <2>2, <3>2
      <4>2. Before(c.order, r, q) /\ r \in K
        BY <1>4, <1>5, <3>1, <4>1
      <4> QED
        BY <4>2 DEF Tracks
    <3> QED
      BY <1>0, <1>3, <1>4, <2>1, <3>1, <3>2
  <2>3. CASE q \notin DOMAIN c.map
    <3>1. /\ Cardinality(DOMAIN c.map) = CacheCapacity
          /\ \A r \in DOMAIN c.map : last[q] < last[r]
      BY <1>12, <2>1, <2>3 DEF Tracks
    <3> QED
      BY <1>0, <1>3, <1>4, <2>1, <3>1
  <2> QED
    BY <2>2, <2>3
<1>13. ASSUME NEW q \in DOMAIN new.map
       PROVE  /\ new.map[q] \in 1 .. n + 1 /\ uses[new.map[q]] = [op |-> "put", key |-> q]
              /\ \A j \in new.map[q] + 1 .. n + 1 : uses[j] # uses[new.map[q]]
  <2>1. uses[n + 1] \in UsesOf(K) /\ uses[n + 1].op \in {"get", "put"}
    <3>1. uses[n + 1] \in UsesOf(K)
      OBVIOUS
    <3> QED
      BY <3>1 DEF UsesOf
  <2>2. CASE q = k /\ uses[n + 1].op = "put"
    <3>1. new.map[q] = n + 1 /\ uses[n + 1] = [op |-> "put", key |-> q]
      BY <2>1, <2>2 DEF UsesOf
    <3> QED
      BY <3>1
  <2>3. CASE ~(q = k /\ uses[n + 1].op = "put")
    <3>1. q \in DOMAIN c.map /\ new.map[q] = c.map[q]
      BY <1>0, <2>1, <2>3 DEF Cached
    <3>2. PICK v \in 1 .. n : v = c.map[q] /\ uses[v] = [op |-> "put", key |-> q]
                              /\ \A j \in v + 1 .. n : uses[j] # uses[v]
      BY <3>1 DEF Tracks
    <3>3. uses[n + 1] # uses[v]
      BY <2>3, <3>2
    <3>4. \A j \in v + 1 .. n + 1 : j = n + 1 \/ j \in v + 1 .. n
      OBVIOUS
    <3> QED
      BY <3>1, <3>2, <3>3, <3>4
  <2> QED
    BY <2>2, <2>3
<1>14. l \in Tracks(K, uses, n + 1, new)
  BY <1>3, <1>8, <1>9, <1>10, <1>11, <1>12, <1>13 DEF Tracks
<1> QED
  BY <1>14

\* So a cache that is tracked is tracked after one more use,
LEMMA StepIsTracked ==
    ASSUME NEW K, NEW uses \in Seq(UsesOf(K)), NEW n \in Nat, n + 1 \in 1 .. Len(uses),
           Tracks(K, uses, n, CacheAfter(uses)[n]) # {}
    PROVE  Tracks(K, uses, n + 1, CacheAfter(uses)[n + 1]) # {}
<1>1. PICK c, new : c = CacheAfter(uses)[n] /\ new = CacheAfter(uses)[n + 1]
  OBVIOUS
<1>2. PICK k : k = uses[n + 1].key
  OBVIOUS
<1>3. k \in K /\ uses[n + 1].op \in {"get", "put"}
  <2>1. uses[n + 1] \in UsesOf(K)
    OBVIOUS
  <2> QED
    BY <1>2, <2>1 DEF UsesOf
<1>4. /\ c \in Caches(K, CacheCapacity) /\ new \in Caches(K, CacheCapacity)
      /\ new = UseStep(c, uses[n + 1], n + 1)
  <2>1. n \in 0 .. Len(uses) /\ n + 1 \in 0 .. Len(uses) /\ n + 1 - 1 = n
    OBVIOUS
  <2> QED
    BY <1>1, <2>1, CacheAfterSteps
<1>5. PICK last : last \in Tracks(K, uses, n, c)
  BY <1>1
<1>6. IsCache(c) /\ IsOrdered(c, CacheCapacity)
  BY <1>4, CacheShape
<1>7. CASE uses[n + 1].op = "get" /\ ~Cached(c, k)
  <2>1. new = c
    BY <1>2, <1>4, <1>7 DEF UseStep, Get
  <2> QED
    BY <1>1, <1>2, <1>5, <1>7, <2>1, MissIsTracked
<1>8. CASE uses[n + 1].op = "get" /\ Cached(c, k)
  <2>1. new = Get(c, k)
    BY <1>2, <1>4, <1>8 DEF UseStep
  <2>2. new.map = c.map
    BY <1>6, <2>1, GetKeepsTheMap
  <2>3. IsUse(c, new, k, CacheCapacity)
    BY <1>6, <1>8, <2>1, GetKeepsOrdered, AlgorithmsAssumption
  <2>5. ~(uses[n + 1].op = "put")
    BY <1>8
  <2>4. KeepsTheRest(c, new, k, CacheCapacity)
    BY <1>8, <2>2 DEF KeepsTheRest, Cached
  <2> QED
    BY <1>1, <1>2, <1>3, <1>4, <1>5, <1>8, <2>2, <2>3, <2>4, <2>5, UseIsTracked
<1>9. CASE uses[n + 1].op = "put"
  <2>1. new = Put(c, k, n + 1, CacheCapacity)
    BY <1>2, <1>4, <1>9 DEF UseStep
  <2>2. IsUse(c, new, k, CacheCapacity)
    BY <1>6, <2>1, PutKeepsOrdered, AlgorithmsAssumption
  <2>3. KeepsTheRest(c, new, k, CacheCapacity) /\ new.map[k] = n + 1
    <3>1. KeepsTheRest(c, new, k, CacheCapacity) /\ Holds(new, k, n + 1)
      BY <1>6, <2>1, PutFills, AlgorithmsAssumption
    <3> QED
      BY <3>1 DEF Holds
  <2>4. ~(uses[n + 1].op = "get")
    BY <1>9
  <2> QED
    BY <1>1, <1>2, <1>3, <1>4, <1>5, <1>9, <2>2, <2>3, <2>4, UseIsTracked
<1> QED
  BY <1>3, <1>7, <1>8, <1>9

\* and after all of them.
LEMMA AllUsesAreTracked ==
    ASSUME NEW K, NEW uses \in Seq(UsesOf(K))
    PROVE  Tracks(K, uses, Len(uses), CacheAfter(uses)[Len(uses)]) # {}
<1>1. PICK S : S = {n \in Nat : n <= Len(uses) => Tracks(K, uses, n, CacheAfter(uses)[n]) # {}}
  OBVIOUS
<1>2. 0 \in S
  <2>1. PICK c : c = EmptyCache
    OBVIOUS
  <2>2. DOMAIN c.map = {} /\ c.order = <<>>
    BY <2>1 DEF EmptyCache
  <2>3. PICK last : last = [k \in K |-> 0]
    OBVIOUS
  <2>4. last \in Tracks(K, uses, 0, c)
    <3>1. last \in [K -> 0 .. 0] /\ \A k \in K : last[k] = 0
      BY <2>3
    <3>2. \A k \in K : \A i \in Touches(uses, k) : ~(i <= 0)
      BY DEF Touches
    <3>3. \A q, r : ~Before(c.order, q, r)
      BY <2>2 DEF Before
    <3> QED
      BY <2>2, <3>1, <3>2, <3>3 DEF Tracks
  <2>5. CacheAfter(uses)[0] = c
    BY <2>1, CacheAfterSteps
  <2> QED
    BY <1>1, <2>4, <2>5
<1>3. ASSUME NEW n \in Nat, n \in S PROVE n + 1 \in S
  <2>1. n + 1 <= Len(uses) => n + 1 \in 1 .. Len(uses) /\ n <= Len(uses)
    OBVIOUS
  <2>2. SUFFICES ASSUME n + 1 <= Len(uses)
                 PROVE  Tracks(K, uses, n + 1, CacheAfter(uses)[n + 1]) # {}
    BY <1>1
  <2>3. Tracks(K, uses, n, CacheAfter(uses)[n]) # {}
    BY <1>1, <1>3, <2>1, <2>2
  <2> QED
    BY <2>1, <2>2, <2>3, StepIsTracked
<1>4. Nat \subseteq S
  BY <1>2, <1>3, Induction
<1> QED
  BY <1>1, <1>4

\* After any uses of any keys the cache has exactly the keys most recently used,
\* in that order, and their last values.
THEOREM CachesKeepTheMostRecent ==
    ASSUME NEW K, NEW uses \in Seq(UsesOf(K))
    PROVE  HasTheMostRecent(CacheAfter(uses)[Len(uses)], uses)
<1>1. PICK n \in Nat : n = Len(uses)
  OBVIOUS
<1>2. PICK c : c = CacheAfter(uses)[n]
  OBVIOUS
<1>3. PICK last \in Tracks(K, uses, n, c) : TRUE
  BY <1>1, <1>2, AllUsesAreTracked
<1>4. c \in Caches(K, CacheCapacity)
  BY <1>1, <1>2, CacheAfterSteps
<1>5. /\ DOMAIN c.map \subseteq K /\ Enumerates(c.order, DOMAIN c.map)
      /\ IsFiniteSet(DOMAIN c.map) /\ Cardinality(DOMAIN c.map) <= CacheCapacity
  BY <1>4, CacheShape DEF IsOrdered
<1>6. last \in [K -> 0 .. n]
  BY <1>3 DEF Tracks
<1>7. \A k \in K : Touches(uses, k) \subseteq 1 .. n
  BY <1>1 DEF Touches
<1>8. ASSUME NEW k \in K
      PROVE  /\ Touches(uses, k) # {} <=> last[k] > 0
             /\ last[k] > 0 => LastTouch(uses, k) = last[k]
  <2>1. last[k] = 0 \/ last[k] \in Touches(uses, k)
    BY <1>3 DEF Tracks
  <2>2. \A i \in Touches(uses, k) : i \in 1 .. n /\ i <= last[k]
    BY <1>3, <1>7 DEF Tracks
  <2>3. ASSUME last[k] > 0 PROVE LastTouch(uses, k) = last[k]
    <3>1. last[k] \in Touches(uses, k) /\ last[k] \in 0 .. n
      BY <2>1, <2>3, <1>6
    <3>2. \A i \in Touches(uses, k) : (\A j \in Touches(uses, k) : j <= i) => i = last[k]
      BY <2>2, <3>1
    <3> QED
      BY <2>2, <3>1, <3>2 DEF LastTouch
  <2> QED
    BY <1>6, <2>1, <2>2, <2>3
<1>9. Touched(uses) = {k \in K : last[k] > 0}
  <2>1. \A k \in K : \A i \in Touches(uses, k) : i \in DOMAIN uses /\ uses[i].key = k
    BY DEF Touches
  <2>2. \A i \in DOMAIN uses : uses[i].key \in K
    <3>1. \A i \in DOMAIN uses : uses[i] \in UsesOf(K)
      OBVIOUS
    <3> QED
      BY <3>1 DEF UsesOf
  <2> QED
    BY <1>8, <2>1, <2>2 DEF Touched
<1>10. \A k \in K : last[k] > 0 => Newer(uses, k) = {m \in K : last[m] > last[k]}
  BY <1>6, <1>8, <1>9 DEF Newer
<1>11. PICK len \in Nat : /\ len = Len(c.order) /\ c.order \in [1 .. len -> DOMAIN c.map]
                          /\ DOMAIN c.order = 1 .. len
                          /\ \A k \in DOMAIN c.map : \E i \in 1 .. len : c.order[i] = k
                          /\ \A i, j \in 1 .. len : c.order[i] = c.order[j] => i = j
  BY <1>5 DEF Enumerates, ToSet, IsInjective
<1>12. Cardinality(DOMAIN c.map) = len
  BY <1>11, CountedOnce
<1>13. /\ \A k \in DOMAIN c.map : last[k] > 0
       /\ \A q, r \in K : Before(c.order, q, r) => last[q] > last[r]
       /\ \A q \in K \ DOMAIN c.map : last[q] > 0 =>
             /\ Cardinality(DOMAIN c.map) = CacheCapacity
             /\ \A r \in DOMAIN c.map : last[q] < last[r]
  BY <1>3 DEF Tracks
<1>14. \A i, j \in 1 .. len : i < j => last[c.order[i]] > last[c.order[j]]
  BY <1>5, <1>11, <1>13 DEF Before
<1>15. ASSUME NEW p \in 1 .. len
       PROVE  Cardinality(Newer(uses, c.order[p])) = p - 1
  <2>1. PICK k \in DOMAIN c.map : k = c.order[p]
    BY <1>11
  <2>2. PICK newer : newer = {m \in K : last[m] > last[k]}
    OBVIOUS
  <2>3. Newer(uses, k) = newer
    BY <1>5, <1>10, <1>13, <2>1, <2>2
  <2>4. PICK f : f = [j \in 1 .. p - 1 |-> c.order[j]]
    OBVIOUS
  <2>5. \A j \in 1 .. p - 1 : j \in 1 .. len /\ j < p
    OBVIOUS
  <2>6. f \in [1 .. p - 1 -> newer]
    BY <1>5, <1>11, <1>14, <2>1, <2>2, <2>4, <2>5
  <2>7. \A i, j \in 1 .. p - 1 : f[i] = f[j] => i = j
    BY <1>11, <2>4, <2>5
  <2>8. \A m \in newer : \E j \in 1 .. p - 1 : f[j] = m
    <3> SUFFICES ASSUME NEW m \in newer PROVE \E j \in 1 .. p - 1 : f[j] = m
      OBVIOUS
    <3>1. m \in K /\ last[m] > last[k] /\ last[m] \in 0 .. n /\ last[k] \in 0 .. n
      BY <1>5, <1>6, <2>2
    <3>2. m \in DOMAIN c.map
      <4>1. SUFFICES ASSUME m \notin DOMAIN c.map PROVE FALSE
        OBVIOUS
      <4>2. last[m] < last[k]
        BY <1>13, <3>1, <4>1
      <4> QED
        BY <3>1, <4>2
    <3>3. PICK j \in 1 .. len : c.order[j] = m
      BY <1>11, <3>2
    <3>4. ~(p < j) /\ p # j
      BY <1>14, <2>1, <3>1, <3>3
    <3>5. j \in 1 .. p - 1
      BY <3>4
    <3> QED
      BY <2>4, <3>3, <3>5
  <2>9. p - 1 \in Nat
    OBVIOUS
  <2> QED
    BY <2>1, <2>3, <2>6, <2>7, <2>8, <2>9, CountedOnce
<1>16. IsFiniteSet(Touched(uses))
  <2>1. PICK f : f = [i \in DOMAIN uses |-> uses[i].key]
    OBVIOUS
  <2>2. PICK keys : keys = {f[i] : i \in DOMAIN uses}
    OBVIOUS
  <2>3. IsFiniteSet(DOMAIN uses)
    <3>1. DOMAIN uses = 1 .. n
      BY <1>1
    <3> QED
      BY <3>1, FS_Interval
  <2>4. IsFiniteSet(keys)
    <3>1. f \in Surjection(DOMAIN uses, keys)
      BY <2>1, <2>2 DEF Surjection
    <3> QED
      BY <2>3, <3>1, FS_Surjection
  <2>5. Touched(uses) \subseteq keys
    BY <2>1, <2>2 DEF Touched
  <2> QED
    BY <2>4, <2>5, FS_Subset
<1>17. DOMAIN c.map = {k \in Touched(uses) : Cardinality(Newer(uses, k)) < CacheCapacity}
  <2>1. ASSUME NEW k \in DOMAIN c.map
        PROVE  k \in Touched(uses) /\ Cardinality(Newer(uses, k)) < CacheCapacity
    <3>1. PICK p \in 1 .. len : c.order[p] = k
      BY <1>11
    <3>2. Cardinality(Newer(uses, k)) = p - 1
      BY <1>15, <3>1
    <3> QED
      BY <1>5, <1>9, <1>12, <1>13, <3>2, AlgorithmsAssumption
  <2>2. ASSUME NEW k \in Touched(uses), k \notin DOMAIN c.map
        PROVE  ~(Cardinality(Newer(uses, k)) < CacheCapacity)
    <3>1. k \in K /\ last[k] > 0
      BY <1>9
    <3>2. PICK newer : newer = Newer(uses, k)
      OBVIOUS
    <3>3. /\ Cardinality(DOMAIN c.map) = CacheCapacity
          /\ \A r \in DOMAIN c.map : last[k] < last[r]
      BY <1>13, <2>2, <3>1
    <3>4. DOMAIN c.map \subseteq newer
      BY <1>5, <1>6, <1>10, <3>1, <3>2, <3>3
    <3>5. IsFiniteSet(newer)
      <4>1. newer \subseteq Touched(uses)
        BY <3>2 DEF Newer
      <4> QED
        BY <1>16, <4>1, FS_Subset
    <3>6. Cardinality(DOMAIN c.map) <= Cardinality(newer)
      BY <3>4, <3>5, FS_Subset
    <3>7. Cardinality(newer) \in Nat
      BY <3>5, FS_CardinalityType
    <3> QED
      BY <3>2, <3>3, <3>6, <3>7, AlgorithmsAssumption
  <2> QED
    BY <2>1, <2>2
<1>18. ASSUME NEW k \in DOMAIN c.map
       PROVE  c.order[Cardinality(Newer(uses, k)) + 1] = k
  <2>1. PICK p \in 1 .. len : c.order[p] = k
    BY <1>11
  <2>2. Cardinality(Newer(uses, k)) + 1 = p
    BY <1>15, <2>1
  <2> QED
    BY <2>1, <2>2
<1>19. ASSUME NEW k \in DOMAIN c.map
       PROVE  LET v == c.map[k]
              IN  /\ v \in DOMAIN uses /\ uses[v] = [op |-> "put", key |-> k]
                  /\ \A j \in v + 1 .. Len(uses) : uses[j] # uses[v]
  BY <1>1, <1>3 DEF Tracks
<1> QED
  BY <1>1, <1>2, <1>11, <1>12, <1>17, <1>18, <1>19 DEF HasTheMostRecent
-----------------------------------------------------------------------------
(* Slugs: any name, over any alphabet.                                     *)

\* What one more element adds to those not in S.
Kept1(rest, x, S) == IF x \in S THEN rest ELSE Append(rest, x)

\* The elements not in S are found one after the other.
LEMMA WithoutSteps ==
    ASSUME NEW A, NEW s \in Seq(A), NEW S
    PROVE  /\ Without(s, S) \in [0 .. Len(s) -> Seq(A)]
           /\ Without(s, S)[0] = <<>>
           /\ \A n \in 1 .. Len(s) : Without(s, S)[n] = Kept1(Without(s, S)[n - 1], s[n], S)
<1>1. ASSUME NEW rest \in Seq(A), NEW x \in A PROVE Kept1(rest, x, S) \in Seq(A)
  BY AppendProperties DEF Kept1
<1>2. PICK B, k : B = Seq(A) /\ k = Len(s)
  OBVIOUS
<1>0. <<>> \in B /\ \A rest \in B, x \in A : Kept1(rest, x, S) \in B
  BY <1>1, <1>2
<1>3. k \in Nat /\ \A n \in 1 .. k : s[n] \in A
  BY <1>2
<1>4. PICK F : F = [x \in B \X Nat |->
                      IF x[2] \in 1 .. k THEN Kept1(x[1], s[x[2]], S) ELSE x[1]]
  OBVIOUS
<1>5. \A rest \in B, n \in Nat :
          F[<<rest, n>>] = IF n \in 1 .. k THEN Kept1(rest, s[n], S) ELSE rest
  BY <1>4
<1>6. F \in [B \X Nat -> B]
  <2>1. ASSUME NEW rest \in B, NEW n \in Nat PROVE F[<<rest, n>>] \in B
    BY <1>0, <1>3, <1>5
  <2> QED
    BY <1>4, <2>1
<1>7. PICK w \in [0 .. k -> B] : w[0] = <<>> /\ \A n \in 1 .. k : w[n] = F[<<w[n - 1], n>>]
  <2>1. PICK a : a = <<>>
    OBVIOUS
  <2>2. a \in B
    BY <1>2, <2>1
  <2>3. Iterates(B, a, F, k) # {}
    BY <1>3, <1>6, <2>2, Iteration
  <2> QED
    BY <2>1, <2>3 DEF Iterates
<1>8. \A n \in 1 .. k : n - 1 \in 0 .. k /\ w[n - 1] \in B /\ w[n] = Kept1(w[n - 1], s[n], S)
  <2> SUFFICES ASSUME NEW n \in 1 .. k
               PROVE  n - 1 \in 0 .. k /\ w[n - 1] \in B /\ w[n] = Kept1(w[n - 1], s[n], S)
    OBVIOUS
  <2>1. n - 1 \in 0 .. k /\ n \in Nat
    BY <1>3
  <2>2. w[n - 1] \in B /\ w[n] = F[<<w[n - 1], n>>]
    BY <1>7, <2>1
  <2> QED
    BY <1>5, <2>1, <2>2
<1>9. w = [n \in 0 .. k |-> IF n = 0 THEN <<>>
                            ELSE IF s[n] \in S THEN w[n - 1] ELSE Append(w[n - 1], s[n])]
  <2>1. \A n \in 0 .. k : n # 0 => n \in 1 .. k
    BY <1>3
  <2> QED
    BY <1>7, <1>8, <2>1 DEF Kept1
<1>10. Without(s, S) = [n \in 0 .. Len(s) |->
                          IF n = 0 THEN <<>>
                          ELSE IF s[n] \in S THEN Without(s, S)[n - 1]
                          ELSE Append(Without(s, S)[n - 1], s[n])]
  BY <1>9, <1>2, Zenon DEF Without
<1>11. PICK f : f = Without(s, S)
  OBVIOUS
<1>12. f = [n \in 0 .. k |-> IF n = 0 THEN <<>>
                             ELSE IF s[n] \in S THEN f[n - 1] ELSE Append(f[n - 1], s[n])]
  BY <1>2, <1>10, <1>11, Zenon
<1>13. f[0] = <<>> /\ DOMAIN f = 0 .. k /\ f = [n \in DOMAIN f |-> f[n]]
  BY <1>3, <1>12
<1>14. \A n \in 1 .. k : f[n] = Kept1(f[n - 1], s[n], S)
  <2> SUFFICES ASSUME NEW n \in 1 .. k PROVE f[n] = Kept1(f[n - 1], s[n], S)
    OBVIOUS
  <2>1. n \in 0 .. k /\ n # 0
    BY <1>3
  <2> QED
    BY <1>12, <2>1, Zenon DEF Kept1
<1>15. PICK T : T = {n \in 0 .. k : f[n] \in B}
  OBVIOUS
<1>16. 0 .. k \subseteq T
  <2>1. 0 \in T
    BY <1>0, <1>3, <1>13, <1>15
  <2>2. ASSUME NEW n \in 0 .. k - 1, n \in T PROVE n + 1 \in T
    <3>1. n + 1 \in 1 .. k /\ n + 1 - 1 = n /\ f[n] \in B
      BY <1>3, <1>15, <2>2
    <3>2. f[n + 1] = Kept1(f[n], s[n + 1], S) /\ s[n + 1] \in A
      BY <1>3, <1>14, <3>1
    <3> QED
      <4>1. f[n + 1] \in B
        BY <1>0, <3>1, <3>2
      <4> QED
        BY <1>15, <3>1, <4>1
  <2> QED
    BY <1>3, <2>1, <2>2, InductionUpTo
<1>17. f \in [0 .. k -> B]
  BY <1>13, <1>15, <1>16
<1> QED
  BY <1>2, <1>11, <1>13, <1>14, <1>17

\* What is joined of characters C are characters C.
LEMMA JoinStays ==
    ASSUME NEW C, Dash \in C, NEW slug \in Seq(C), NEW piece \in Seq(C)
    PROVE  Join(slug, piece) \in Seq(C)
<1>1. <<Dash>> \in Seq(C)
  OBVIOUS
<1>2. slug \o <<Dash>> \in Seq(C)
  BY <1>1, ConcatProperties
<1>3. slug \o <<Dash>> \o piece \in Seq(C)
  BY <1>2, ConcatProperties
<1> QED
  BY <1>3 DEF Join

\* The pieces are joined one after the other.
LEMMA JoinedSteps ==
    ASSUME NEW C, Dash \in C, NEW s \in Seq(Seq(C))
    PROVE  /\ Joined(s) \in [0 .. Len(s) -> Seq(C)]
           /\ Joined(s)[0] = <<>>
           /\ \A n \in 1 .. Len(s) : Joined(s)[n] = Join(Joined(s)[n - 1], s[n])
<1>1. ASSUME NEW rest \in Seq(C), NEW x \in Seq(C) PROVE Join(rest, x) \in Seq(C)
  BY JoinStays
<1>2. PICK B, k : B = Seq(C) /\ k = Len(s)
  OBVIOUS
<1>0. <<>> \in B /\ \A rest \in B, x \in B : Join(rest, x) \in B
  BY <1>1, <1>2
<1>3. k \in Nat /\ \A n \in 1 .. k : s[n] \in B
  BY <1>2
<1>4. PICK F : F = [x \in B \X Nat |->
                      IF x[2] \in 1 .. k THEN Join(x[1], s[x[2]]) ELSE x[1]]
  OBVIOUS
<1>5. \A rest \in B, n \in Nat :
          F[<<rest, n>>] = IF n \in 1 .. k THEN Join(rest, s[n]) ELSE rest
  BY <1>4
<1>6. F \in [B \X Nat -> B]
  <2>1. ASSUME NEW rest \in B, NEW n \in Nat PROVE F[<<rest, n>>] \in B
    BY <1>0, <1>3, <1>5
  <2> QED
    BY <1>4, <2>1
<1>7. PICK w \in [0 .. k -> B] : w[0] = <<>> /\ \A n \in 1 .. k : w[n] = F[<<w[n - 1], n>>]
  <2>1. PICK a : a = <<>>
    OBVIOUS
  <2>2. a \in B
    BY <1>2, <2>1
  <2>3. Iterates(B, a, F, k) # {}
    BY <1>3, <1>6, <2>2, Iteration
  <2> QED
    BY <2>1, <2>3 DEF Iterates
<1>8. \A n \in 1 .. k : n - 1 \in 0 .. k /\ w[n - 1] \in B /\ w[n] = Join(w[n - 1], s[n])
  <2> SUFFICES ASSUME NEW n \in 1 .. k
               PROVE  n - 1 \in 0 .. k /\ w[n - 1] \in B /\ w[n] = Join(w[n - 1], s[n])
    OBVIOUS
  <2>1. n - 1 \in 0 .. k /\ n \in Nat
    BY <1>3
  <2>2. w[n - 1] \in B /\ w[n] = F[<<w[n - 1], n>>]
    BY <1>7, <2>1
  <2> QED
    BY <1>5, <2>1, <2>2
<1>9. w = [n \in 0 .. k |-> IF n = 0 THEN <<>> ELSE Join(w[n - 1], s[n])]
  <2>1. \A n \in 0 .. k : n # 0 => n \in 1 .. k
    BY <1>3
  <2> QED
    BY <1>7, <1>8, <2>1
<1>10. Joined(s) = [n \in 0 .. Len(s) |->
                          IF n = 0 THEN <<>> ELSE Join(Joined(s)[n - 1], s[n])]
  BY <1>9, <1>2, Zenon DEF Joined
<1>11. PICK f : f = Joined(s)
  OBVIOUS
<1>12. f = [n \in 0 .. k |-> IF n = 0 THEN <<>> ELSE Join(f[n - 1], s[n])]
  BY <1>2, <1>10, <1>11, Zenon
<1>13. f[0] = <<>> /\ DOMAIN f = 0 .. k /\ f = [n \in DOMAIN f |-> f[n]]
  BY <1>3, <1>12
<1>14. \A n \in 1 .. k : f[n] = Join(f[n - 1], s[n])
  <2> SUFFICES ASSUME NEW n \in 1 .. k PROVE f[n] = Join(f[n - 1], s[n])
    OBVIOUS
  <2>1. n \in 0 .. k /\ n # 0
    BY <1>3
  <2> QED
    BY <1>12, <2>1, Zenon
<1>15. PICK T : T = {n \in 0 .. k : f[n] \in B}
  OBVIOUS
<1>16. 0 .. k \subseteq T
  <2>1. 0 \in T
    BY <1>0, <1>3, <1>13, <1>15
  <2>2. ASSUME NEW n \in 0 .. k - 1, n \in T PROVE n + 1 \in T
    <3>1. n + 1 \in 1 .. k /\ n + 1 - 1 = n /\ f[n] \in B
      BY <1>3, <1>15, <2>2
    <3>2. f[n + 1] = Join(f[n], s[n + 1]) /\ s[n + 1] \in B
      BY <1>3, <1>14, <3>1
    <3> QED
      <4>1. f[n + 1] \in B
        BY <1>0, <3>1, <3>2
      <4> QED
        BY <1>15, <3>1, <4>1
  <2> QED
    BY <1>3, <2>1, <2>2, InductionUpTo
<1>17. f \in [0 .. k -> B]
  BY <1>13, <1>15, <1>16
<1> QED
  BY <1>2, <1>11, <1>13, <1>14, <1>17

\* Pieces of characters C, one at least.
PiecesOf(C) == Seq(Seq(C)) \ {<<>>}

\* The first piece is empty.
LEMMA NoPiece ==
    ASSUME NEW C
    PROVE  << <<>> >> \in PiecesOf(C)
<1>1. PICK S, e : S = Seq(C) /\ e = <<>>
  OBVIOUS
<1>2. e \in S
  BY <1>1
<1>3. <<e>> \in Seq(S) /\ <<e>> # <<>>
  BY <1>2
<1> QED
  BY <1>1, <1>3 DEF PiecesOf

\* A character leaves there pieces.
LEMMA SplitStays ==
    ASSUME NEW C, NEW pieces \in PiecesOf(C), NEW c \in C
    PROVE  Split(pieces, c) \in PiecesOf(C)
<1>1. PICK S, e, n : S = Seq(C) /\ e = <<>> /\ n = Len(pieces)
  OBVIOUS
<1>2. e \in S /\ pieces \in Seq(S) /\ pieces # <<>> /\ n \in 1 .. n
  BY <1>1, EmptySeq DEF PiecesOf
<1>3. CASE c = Dash
  <2>1. Append(pieces, e) \in Seq(S) /\ Append(pieces, e) # <<>>
    BY <1>2, AppendProperties
  <2> QED
    BY <1>1, <1>3, <2>1 DEF Split, PiecesOf
<1>4. CASE c # Dash
  <2>1. PICK p : p = Append(pieces[n], c)
    OBVIOUS
  <2>2. p \in S
    BY <1>1, <1>2, <2>1, AppendProperties
  <2>3. PICK new : new = [pieces EXCEPT ![n] = p]
    OBVIOUS
  <2>4. new \in Seq(S) /\ Len(new) = n
    BY <1>1, <1>2, <2>2, <2>3, ExceptSeq
  <2>5. new # <<>>
    BY <1>2, <2>4
  <2> QED
    BY <1>1, <1>4, <2>1, <2>3, <2>4, <2>5 DEF Split, PiecesOf
<1> QED
  BY <1>3, <1>4

\* The characters are split one after the other.
LEMMA PiecesSteps ==
    ASSUME NEW C, NEW s \in Seq(C)
    PROVE  /\ Pieces(s) \in [0 .. Len(s) -> PiecesOf(C)]
           /\ Pieces(s)[0] = << <<>> >>
           /\ \A n \in 1 .. Len(s) : Pieces(s)[n] = Split(Pieces(s)[n - 1], s[n])
<1>1. ASSUME NEW rest \in PiecesOf(C), NEW x \in C PROVE Split(rest, x) \in PiecesOf(C)
  BY SplitStays
<1>2. PICK B, k : B = PiecesOf(C) /\ k = Len(s)
  OBVIOUS
<1>0. << <<>> >> \in B /\ \A rest \in B, x \in C : Split(rest, x) \in B
  BY <1>1, <1>2, NoPiece
<1>3. k \in Nat /\ \A n \in 1 .. k : s[n] \in C
  BY <1>2
<1>4. PICK F : F = [x \in B \X Nat |->
                      IF x[2] \in 1 .. k THEN Split(x[1], s[x[2]]) ELSE x[1]]
  OBVIOUS
<1>5. \A rest \in B, n \in Nat :
          F[<<rest, n>>] = IF n \in 1 .. k THEN Split(rest, s[n]) ELSE rest
  BY <1>4
<1>6. F \in [B \X Nat -> B]
  <2>1. ASSUME NEW rest \in B, NEW n \in Nat PROVE F[<<rest, n>>] \in B
    BY <1>0, <1>3, <1>5
  <2> QED
    BY <1>4, <2>1
<1>7. PICK w \in [0 .. k -> B] : w[0] = << <<>> >> /\ \A n \in 1 .. k : w[n] = F[<<w[n - 1], n>>]
  <2>1. PICK a : a = << <<>> >>
    OBVIOUS
  <2>2. a \in B
    BY <1>0, <2>1
  <2>3. Iterates(B, a, F, k) # {}
    BY <1>3, <1>6, <2>2, Iteration
  <2> QED
    BY <2>1, <2>3 DEF Iterates
<1>8. \A n \in 1 .. k : n - 1 \in 0 .. k /\ w[n - 1] \in B /\ w[n] = Split(w[n - 1], s[n])
  <2> SUFFICES ASSUME NEW n \in 1 .. k
               PROVE  n - 1 \in 0 .. k /\ w[n - 1] \in B /\ w[n] = Split(w[n - 1], s[n])
    OBVIOUS
  <2>1. n - 1 \in 0 .. k /\ n \in Nat
    BY <1>3
  <2>2. w[n - 1] \in B /\ w[n] = F[<<w[n - 1], n>>]
    BY <1>7, <2>1
  <2> QED
    BY <1>5, <2>1, <2>2
<1>9. w = [n \in 0 .. k |-> IF n = 0 THEN << <<>> >> ELSE Split(w[n - 1], s[n])]
  <2>1. \A n \in 0 .. k : n # 0 => n \in 1 .. k
    BY <1>3
  <2> QED
    BY <1>7, <1>8, <2>1
<1>10. Pieces(s) = [n \in 0 .. Len(s) |->
                          IF n = 0 THEN << <<>> >> ELSE Split(Pieces(s)[n - 1], s[n])]
  BY <1>9, <1>2, Zenon DEF Pieces
<1>11. PICK f : f = Pieces(s)
  OBVIOUS
<1>12. f = [n \in 0 .. k |-> IF n = 0 THEN << <<>> >> ELSE Split(f[n - 1], s[n])]
  BY <1>2, <1>10, <1>11, Zenon
<1>13. f[0] = << <<>> >> /\ DOMAIN f = 0 .. k /\ f = [n \in DOMAIN f |-> f[n]]
  BY <1>3, <1>12
<1>14. \A n \in 1 .. k : f[n] = Split(f[n - 1], s[n])
  <2> SUFFICES ASSUME NEW n \in 1 .. k PROVE f[n] = Split(f[n - 1], s[n])
    OBVIOUS
  <2>1. n \in 0 .. k /\ n # 0
    BY <1>3
  <2> QED
    BY <1>12, <2>1, Zenon
<1>15. PICK T : T = {n \in 0 .. k : f[n] \in B}
  OBVIOUS
<1>16. 0 .. k \subseteq T
  <2>1. 0 \in T
    <3>1. f[0] \in B
      BY <1>0, <1>13, Zenon
    <3> QED
      BY <1>3, <1>15, <3>1
  <2>2. ASSUME NEW n \in 0 .. k - 1, n \in T PROVE n + 1 \in T
    <3>1. n + 1 \in 1 .. k /\ n + 1 - 1 = n /\ f[n] \in B
      BY <1>3, <1>15, <2>2
    <3>2. f[n + 1] = Split(f[n], s[n + 1]) /\ s[n + 1] \in C
      BY <1>3, <1>14, <3>1
    <3> QED
      <4>1. f[n + 1] \in B
        BY <1>0, <3>1, <3>2
      <4> QED
        BY <1>15, <3>1, <4>1
  <2> QED
    BY <1>3, <2>1, <2>2, InductionUpTo
<1>17. f \in [0 .. k -> B]
  BY <1>13, <1>15, <1>16
<1> QED
  BY <1>2, <1>11, <1>13, <1>14, <1>17

\* What the first k elements leave depends on nothing behind them.
LEMMA WithoutOfPrefix ==
    ASSUME NEW A, NEW s \in Seq(A), NEW t \in Seq(A), NEW S,
           NEW k \in Nat, k <= Len(s), k <= Len(t), \A i \in 1 .. k : s[i] = t[i]
    PROVE  Without(s, S)[k] = Without(t, S)[k]
<1>1. PICK f, g : f = Without(s, S) /\ g = Without(t, S)
  OBVIOUS
<1>2. /\ f[0] = <<>> /\ \A n \in 1 .. Len(s) : f[n] = Kept1(f[n - 1], s[n], S)
      /\ g[0] = <<>> /\ \A n \in 1 .. Len(t) : g[n] = Kept1(g[n - 1], t[n], S)
  BY <1>1, WithoutSteps
<1>3. PICK T : T = {n \in Nat : n <= k => f[n] = g[n]}
  OBVIOUS
<1>4. ASSUME NEW n \in Nat, n \in T PROVE n + 1 \in T
  <2>1. SUFFICES ASSUME n + 1 <= k PROVE f[n + 1] = g[n + 1]
    BY <1>3
  <2>2. n + 1 \in 1 .. k /\ n + 1 \in 1 .. Len(s) /\ n + 1 \in 1 .. Len(t) /\ n + 1 - 1 = n
    BY <2>1
  <2>3. f[n] = g[n] /\ s[n + 1] = t[n + 1]
    BY <1>3, <1>4, <2>1, <2>2
  <2>4. f[n + 1] = Kept1(f[n], s[n + 1], S) /\ g[n + 1] = Kept1(g[n], t[n + 1], S)
    BY <1>2, <2>2
  <2> QED
    BY <2>3, <2>4
<1>5. Nat \subseteq T
  BY <1>2, <1>3, <1>4, Induction
<1> QED
  BY <1>1, <1>3, <1>5

\* Nor does what is joined of the first k pieces.
LEMMA JoinedOfPrefix ==
    ASSUME NEW C, Dash \in C, NEW s \in Seq(Seq(C)), NEW t \in Seq(Seq(C)),
           NEW k \in Nat, k <= Len(s), k <= Len(t), \A i \in 1 .. k : s[i] = t[i]
    PROVE  Joined(s)[k] = Joined(t)[k]
<1>1. PICK f, g : f = Joined(s) /\ g = Joined(t)
  OBVIOUS
<1>2. /\ f[0] = <<>> /\ \A n \in 1 .. Len(s) : f[n] = Join(f[n - 1], s[n])
      /\ g[0] = <<>> /\ \A n \in 1 .. Len(t) : g[n] = Join(g[n - 1], t[n])
  BY <1>1, JoinedSteps
<1>3. PICK T : T = {n \in Nat : n <= k => f[n] = g[n]}
  OBVIOUS
<1>4. ASSUME NEW n \in Nat, n \in T PROVE n + 1 \in T
  <2>1. SUFFICES ASSUME n + 1 <= k PROVE f[n + 1] = g[n + 1]
    BY <1>3
  <2>2. n + 1 \in 1 .. k /\ n + 1 \in 1 .. Len(s) /\ n + 1 \in 1 .. Len(t) /\ n + 1 - 1 = n
    BY <2>1
  <2>3. f[n] = g[n] /\ s[n + 1] = t[n + 1]
    BY <1>3, <1>4, <2>1, <2>2
  <2>4. f[n + 1] = Join(f[n], s[n + 1]) /\ g[n + 1] = Join(g[n], t[n + 1])
    BY <1>2, <2>2
  <2> QED
    BY <2>3, <2>4
<1>5. Nat \subseteq T
  BY <1>2, <1>3, <1>4, Induction
<1> QED
  BY <1>1, <1>3, <1>5

\* The slug of characters that are mapped already.
SlugOf(chars) ==
    LET pieces == Pieces(chars)[Len(chars)]
    IN  Joined(pieces)[Len(pieces)]

\* The last piece, and what is joined of those before it.
LastPiece(pieces) == pieces[Len(pieces)]
FirstPieces(pieces) == Joined(pieces)[Len(pieces) - 1]

\* All pieces are those before the last, and the last.
LEMMA LastIsJoined ==
    ASSUME NEW C, Dash \in C, NEW pieces \in PiecesOf(C)
    PROVE  /\ Joined(pieces)[Len(pieces)] = Join(FirstPieces(pieces), LastPiece(pieces))
           /\ FirstPieces(pieces) \in Seq(C) /\ LastPiece(pieces) \in Seq(C)
<1>1. PICK n, S : n = Len(pieces) /\ S = Seq(C)
  OBVIOUS
<1>2. pieces \in Seq(S) /\ n \in 1 .. n /\ n - 1 \in 0 .. n
  BY <1>1, EmptySeq DEF PiecesOf
<1>3. /\ Joined(pieces)[n - 1] \in S /\ pieces[n] \in S
      /\ Joined(pieces)[n] = Join(Joined(pieces)[n - 1], pieces[n])
  <2>1. PICK f : f = Joined(pieces)
    OBVIOUS
  <2>2. f \in [0 .. n -> S] /\ \A i \in 1 .. n : f[i] = Join(f[i - 1], pieces[i])
    BY <1>1, <2>1, JoinedSteps DEF PiecesOf
  <2>3. n \in 1 .. n /\ n - 1 \in 0 .. n /\ pieces[n] \in S
    BY <1>1, <1>2, ElementOfSeq
  <2>4. f[n - 1] \in S
    BY <2>2, <2>3
  <2>5. f[n] = Join(f[n - 1], pieces[n])
    BY <2>2, <2>3
  <2> QED
    BY <2>1, <2>3, <2>4, <2>5
<1> QED
  BY <1>1, <1>3 DEF FirstPieces, LastPiece

\* A dash joins the last piece to those before it, another character is added to it.
LEMMA SplitMoves ==
    ASSUME NEW C, Dash \in C, NEW pieces \in PiecesOf(C), NEW c \in C
    PROVE  LET new == Split(pieces, c)
           IN  /\ FirstPieces(new) = IF c = Dash THEN Join(FirstPieces(pieces), LastPiece(pieces))
                                     ELSE FirstPieces(pieces)
               /\ LastPiece(new) = IF c = Dash THEN <<>> ELSE Append(LastPiece(pieces), c)
<1>1. PICK n, S, e, new : n = Len(pieces) /\ S = Seq(C) /\ e = <<>> /\ new = Split(pieces, c)
  OBVIOUS
<1>2. pieces \in Seq(S) /\ n \in Nat /\ n \in 1 .. n /\ n - 1 \in Nat /\ e \in S
  BY <1>1, EmptySeq DEF PiecesOf
<1>3. new \in Seq(S)
  BY <1>1, SplitStays DEF PiecesOf
<1>4. CASE c = Dash
  <2>1. new = Append(pieces, e)
    BY <1>1, <1>4 DEF Split
  <2>2. Len(new) = n + 1 /\ new[n + 1] = e /\ \A i \in 1 .. n : new[i] = pieces[i]
    BY <1>1, <1>2, <2>1, AppendProperties
  <2>3. n <= Len(pieces) /\ n <= Len(new) /\ n + 1 - 1 = n
    BY <1>1, <1>2, <2>2
  <2>4. Joined(new)[n] = Joined(pieces)[n]
    BY <1>1, <1>2, <1>3, <2>2, <2>3, JoinedOfPrefix
  <2>5. Joined(new)[n] = Join(FirstPieces(pieces), LastPiece(pieces))
    BY <1>1, <2>4, LastIsJoined
  <2>6. FirstPieces(new) = Joined(new)[n] /\ LastPiece(new) = e
    BY <1>2, <2>2, <2>3 DEF FirstPieces, LastPiece
  <2> QED
    BY <1>1, <1>4, <2>5, <2>6
<1>5. CASE c # Dash
  <2>1. PICK p : p = Append(pieces[n], c)
    OBVIOUS
  <2>2. p \in S
    BY <1>1, <1>2, <2>1, AppendProperties
  <2>3. new = [pieces EXCEPT ![n] = p]
    BY <1>1, <1>5, <2>1 DEF Split
  <2>4. Len(new) = n /\ new[n] = p /\ \A i \in 1 .. n - 1 : new[i] = pieces[i]
    BY <1>1, <1>2, <2>2, <2>3, ExceptSeq
  <2>5. n - 1 <= Len(pieces) /\ n - 1 <= Len(new)
    BY <1>1, <1>2, <2>4
  <2>6. Joined(new)[n - 1] = Joined(pieces)[n - 1]
    BY <1>1, <1>2, <1>3, <2>4, <2>5, JoinedOfPrefix
  <2>7. FirstPieces(new) = FirstPieces(pieces) /\ LastPiece(new) = p
    BY <1>1, <2>4, <2>6 DEF FirstPieces, LastPiece
  <2>8. p = Append(LastPiece(pieces), c)
    BY <1>1, <2>1 DEF LastPiece
  <2> QED
    BY <1>1, <1>5, <2>7, <2>8
<1> QED
  BY <1>4, <1>5

\* At each of the characters of s, h is what is joined of the pieces before the
\* last one and l is the last one.
IsSplit(s, h, l) ==
    /\ h[0] = <<>> /\ l[0] = <<>>
    /\ \A n \in 1 .. Len(s) :
          IF s[n] = Dash THEN h[n] = Join(h[n - 1], l[n - 1]) /\ l[n] = <<>>
          ELSE h[n] = h[n - 1] /\ l[n] = Append(l[n - 1], s[n])

\* So the slug is made without looking at the pieces again.
LEMMA SlugIsSplit ==
    ASSUME NEW C, Dash \in C, NEW s \in Seq(C)
    PROVE  \E h, l \in [0 .. Len(s) -> Seq(C)] :
               IsSplit(s, h, l) /\ SlugOf(s) = Join(h[Len(s)], l[Len(s)])
<1>1. PICK P, m, S : P = Pieces(s) /\ m = Len(s) /\ S = Seq(C)
  OBVIOUS
<1>2. /\ m \in Nat /\ P \in [0 .. m -> PiecesOf(C)] /\ P[0] = << <<>> >>
      /\ \A n \in 1 .. m : P[n] = Split(P[n - 1], s[n]) /\ s[n] \in C
  BY <1>1, PiecesSteps
<1>3. PICK h, l : /\ h = [n \in 0 .. m |-> FirstPieces(P[n])]
                  /\ l = [n \in 0 .. m |-> LastPiece(P[n])]
  OBVIOUS
<1>4. \A n \in 0 .. m : h[n] = FirstPieces(P[n]) /\ l[n] = LastPiece(P[n])
  BY <1>3
<1>5. ASSUME NEW n \in 0 .. m PROVE FirstPieces(P[n]) \in S /\ LastPiece(P[n]) \in S
  BY <1>1, <1>2, LastIsJoined
<1>6. h \in [0 .. m -> S] /\ l \in [0 .. m -> S]
  BY <1>3, <1>5
<1>7. h[0] = <<>> /\ l[0] = <<>>
  <2>1. PICK e, p : e = <<>> /\ p = <<e>>
    OBVIOUS
  <2>2. Len(p) = 1 /\ p[1] = e /\ P[0] = p
    BY <1>2, <2>1
  <2>3. LastPiece(p) = e
    BY <2>2 DEF LastPiece
  <2>4. e \in S
    BY <1>1, <2>1
  <2>5. p \in Seq(S)
    BY <2>1, <2>4
  <2>6. Joined(p)[0] = e
    BY <1>1, <2>1, <2>5, JoinedSteps
  <2>7. FirstPieces(p) = e
    BY <2>2, <2>6 DEF FirstPieces
  <2>8. 0 \in 0 .. m
    BY <1>2
  <2>9. h[0] = FirstPieces(P[0]) /\ l[0] = LastPiece(P[0])
    BY <1>4, <2>8
  <2> QED
    BY <2>1, <2>2, <2>3, <2>7, <2>9
<1>8. ASSUME NEW n \in 1 .. m
      PROVE  IF s[n] = Dash THEN h[n] = Join(h[n - 1], l[n - 1]) /\ l[n] = <<>>
             ELSE h[n] = h[n - 1] /\ l[n] = Append(l[n - 1], s[n])
  <2>1. n - 1 \in 0 .. m /\ n \in 0 .. m
    BY <1>2
  <2>2. PICK p, c : p = P[n - 1] /\ c = s[n]
    OBVIOUS
  <2>3. p \in PiecesOf(C) /\ c \in C /\ P[n] = Split(p, c)
    BY <1>2, <2>1, <2>2
  <2>4. /\ h[n] = IF c = Dash THEN Join(FirstPieces(p), LastPiece(p)) ELSE FirstPieces(p)
        /\ l[n] = IF c = Dash THEN <<>> ELSE Append(LastPiece(p), c)
    <3>1. h[n] = FirstPieces(P[n]) /\ l[n] = LastPiece(P[n])
      BY <1>4, <2>1
    <3>2. PICK new : new = Split(p, c)
      OBVIOUS
    <3>3. /\ FirstPieces(new) = IF c = Dash THEN Join(FirstPieces(p), LastPiece(p))
                                ELSE FirstPieces(p)
          /\ LastPiece(new) = IF c = Dash THEN <<>> ELSE Append(LastPiece(p), c)
      BY <2>3, <3>2, SplitMoves
    <3> QED
      BY <2>3, <3>1, <3>2, <3>3
  <2>5. h[n - 1] = FirstPieces(p) /\ l[n - 1] = LastPiece(p)
    BY <1>4, <2>1, <2>2
  <2> QED
    BY <2>2, <2>4, <2>5
<1>9. IsSplit(s, h, l)
  BY <1>1, <1>7, <1>8 DEF IsSplit
<1>10. SlugOf(s) = Join(h[m], l[m])
  <2>1. m \in 0 .. m
    BY <1>2
  <2>2. PICK p : p = P[m]
    OBVIOUS
  <2>3. Joined(p)[Len(p)] = Join(FirstPieces(p), LastPiece(p))
    BY <1>2, <2>1, <2>2, LastIsJoined
  <2> QED
    BY <1>1, <1>4, <2>1, <2>2, <2>3 DEF SlugOf
<1> QED
  BY <1>1, <1>6, <1>9, <1>10

\* A tidy slug with a piece without dashes joined to it is tidy.
LEMMA JoinIsTidy ==
    ASSUME NEW C, Dash \in C, NEW slug \in Seq(C), NEW piece \in Seq(C),
           IsTidy(slug), \A i \in DOMAIN piece : piece[i] # Dash
    PROVE  IsTidy(Join(slug, piece))
<1>1. PICK a, b : a = Len(slug) /\ b = Len(piece)
  OBVIOUS
<1>2. /\ a \in Nat /\ b \in Nat /\ DOMAIN slug = 1 .. a /\ DOMAIN piece = 1 .. b
      /\ slug # <<>> => a > 0
      /\ piece # <<>> => b > 0
  BY <1>1, EmptySeq, LenProperties
<1>3. CASE piece = <<>> \/ slug = <<>>
  BY <1>3 DEF Join, IsTidy
<1>4. CASE piece # <<>> /\ slug # <<>>
  <2>1. PICK d, p, q : d = <<Dash>> /\ p = slug \o d /\ q = p \o piece
    OBVIOUS
  <2>2. d \in Seq(C) /\ Len(d) = 1 /\ d[1] = Dash
    BY <2>1
  <2>3. /\ p \in Seq(C) /\ Len(p) = a + 1
        /\ \A i \in 1 .. a + 1 : p[i] = IF i <= a THEN slug[i] ELSE d[i - a]
    BY <1>1, <2>1, <2>2, ConcatProperties
  <2>4. /\ q \in Seq(C) /\ Len(q) = a + 1 + b
        /\ \A i \in 1 .. a + 1 + b : q[i] = IF i <= a + 1 THEN p[i] ELSE piece[i - (a + 1)]
    BY <1>1, <2>1, <2>3, ConcatProperties
  <2>5. Join(slug, piece) = q
    BY <1>4, <2>1 DEF Join
  <2>6. /\ \A i \in 1 .. a : q[i] = slug[i]
        /\ q[a + 1] = Dash
        /\ \A i \in a + 2 .. a + 1 + b : q[i] # Dash
    <3>1. \A i \in 1 .. a : q[i] = slug[i]
      BY <1>2, <2>3, <2>4
    <3>2. q[a + 1] = Dash
      <4>1. a + 1 \in 1 .. a + 1 /\ a + 1 \in 1 .. a + 1 + b /\ ~(a + 1 <= a) /\ a + 1 - a = 1
        BY <1>2
      <4>2. p[a + 1] = d[1]
        <5>1. PICK k : k = a + 1
          OBVIOUS
        <5>2. k \in 1 .. a + 1 /\ ~(k <= a) /\ k - a = 1
          BY <1>2, <5>1
        <5>3. p[k] = d[k - a]
          BY <2>3, <5>2
        <5> QED
          BY <5>1, <5>2, <5>3
      <4>3. q[a + 1] = p[a + 1]
        BY <1>2, <2>4, <4>1
      <4> QED
        BY <2>2, <4>1, <4>2, <4>3
    <3>3. ASSUME NEW i \in a + 2 .. a + 1 + b PROVE q[i] # Dash
      <4>1. i \in 1 .. a + 1 + b /\ ~(i <= a + 1) /\ i - (a + 1) \in 1 .. b
        BY <1>2
      <4> QED
        BY <1>2, <2>4, <4>1
    <3> QED
      BY <3>1, <3>2, <3>3
  <2>7. ASSUME NEW i \in 1 .. a + 1 + b, q[i] = Dash
        PROVE  i > 1 /\ i < a + 1 + b /\ q[i + 1] # Dash
    <3>1. CASE i = a + 1
      BY <1>2, <1>4, <2>6, <3>1
    <3>2. CASE i \in 1 .. a
      <4>1. i > 1 /\ i < a /\ slug[i + 1] # Dash
        BY <1>1, <1>2, <2>6, <2>7, <3>2 DEF IsTidy
      <4> QED
        BY <1>2, <2>6, <4>1
    <3>3. i = a + 1 \/ i \in 1 .. a
      BY <1>2, <2>6, <2>7
    <3> QED
      BY <3>1, <3>2, <3>3
  <2>8. DOMAIN q = 1 .. a + 1 + b
    BY <2>4, LenProperties
  <2> QED
    BY <2>4, <2>5, <2>7, <2>8 DEF IsTidy
<1> QED
  BY <1>3, <1>4

\* So every slug is tidy.
LEMMA SlugIsTidy ==
    ASSUME NEW C, Dash \in C, NEW s \in Seq(C)
    PROVE  SlugOf(s) \in Seq(C) /\ IsTidy(SlugOf(s))
<1>1. PICK m, S : m = Len(s) /\ S = Seq(C)
  OBVIOUS
<1>2. PICK h \in [0 .. m -> S], l \in [0 .. m -> S] :
          IsSplit(s, h, l) /\ SlugOf(s) = Join(h[m], l[m])
  BY <1>1, SlugIsSplit
<1>3. m \in Nat /\ \A n \in 1 .. m : s[n] \in C
  BY <1>1
<1>4. PICK T : T = {n \in 0 .. m : IsTidy(h[n]) /\ \A i \in DOMAIN l[n] : l[n][i] # Dash}
  OBVIOUS
<1>5. 0 \in T
  <2>1. h[0] = <<>> /\ l[0] = <<>>
    BY <1>2 DEF IsSplit
  <2>2. DOMAIN h[0] = {} /\ DOMAIN l[0] = {}
    BY <2>1
  <2> QED
    BY <1>3, <1>4, <2>2 DEF IsTidy
<1>6. ASSUME NEW n \in 0 .. m - 1, n \in T PROVE n + 1 \in T
  <2>1. n + 1 \in 1 .. m /\ n + 1 - 1 = n /\ n \in 0 .. m /\ n + 1 \in 0 .. m
    BY <1>3
  <2>2. PICK hn, ln : hn = h[n] /\ ln = l[n]
    OBVIOUS
  <2>3. /\ hn \in S /\ ln \in S /\ IsTidy(hn) /\ \A i \in DOMAIN ln : ln[i] # Dash
    BY <1>4, <1>6, <2>1, <2>2
  <2>4. IF s[n + 1] = Dash THEN h[n + 1] = Join(hn, ln) /\ l[n + 1] = <<>>
        ELSE h[n + 1] = hn /\ l[n + 1] = Append(ln, s[n + 1])
    BY <1>1, <1>2, <2>1, <2>2 DEF IsSplit
  <2>5. CASE s[n + 1] = Dash
    <3>1. IsTidy(h[n + 1])
      BY <1>1, <2>3, <2>4, <2>5, JoinIsTidy
    <3>2. DOMAIN l[n + 1] = {}
      BY <2>4, <2>5
    <3> QED
      BY <1>4, <2>1, <3>1, <3>2
  <2>6. CASE s[n + 1] # Dash
    <3>1. PICK c, new, k : c = s[n + 1] /\ new = Append(ln, c) /\ k = Len(ln)
      OBVIOUS
    <3>2. /\ k \in Nat /\ DOMAIN ln = 1 .. k /\ DOMAIN new = 1 .. k + 1
          /\ new[k + 1] = c /\ \A i \in 1 .. k : new[i] = ln[i]
      BY <1>1, <1>3, <2>1, <2>3, <3>1, AppendProperties, LenProperties
    <3>3. \A i \in DOMAIN new : new[i] # Dash
      BY <2>3, <2>6, <3>1, <3>2
    <3> QED
      BY <1>4, <2>1, <2>3, <2>4, <2>6, <3>1, <3>3
  <2> QED
    BY <2>5, <2>6
<1>7. m \in T
  <2>1. 0 .. m \subseteq T
    BY <1>3, <1>5, <1>6, InductionUpTo
  <2> QED
    BY <1>3, <2>1
<1>8. h[m] \in S /\ l[m] \in S /\ IsTidy(h[m]) /\ \A i \in DOMAIN l[m] : l[m][i] # Dash
  BY <1>3, <1>4, <1>7
<1> QED
  BY <1>1, <1>2, <1>8, JoinIsTidy, JoinStays

\* Appending to the second of two sequences is appending to both.
LEMMA AppendBehind ==
    ASSUME NEW C, NEW s \in Seq(C), NEW t \in Seq(C), NEW c \in C,
           NEW u, u = s \o t
    PROVE  Append(u, c) = s \o Append(t, c)
<1>1. <<c>> \in Seq(C) /\ s \o t \in Seq(C)
  BY ConcatProperties
<1>2. Append(t, c) = t \o <<c>> /\ Append(s \o t, c) = (s \o t) \o <<c>>
  BY <1>1, AppendIsConcat
<1>3. (s \o t) \o <<c>> = s \o (t \o <<c>>)
  BY <1>1, ConcatAssociative
<1> QED
  BY <1>2, <1>3

\* What is left of no characters.
LEMMA LettersOfNone ==
    Letters(<<>>) = <<>>
<1>1. PICK D, s : D = {Dash} /\ s = <<>>
  OBVIOUS
<1>2. s \in Seq(D) /\ Len(s) = 0
  BY <1>1
<1>3. Without(s, D)[0] = <<>>
  BY <1>2, WithoutSteps
<1> QED
  BY <1>1, <1>2, <1>3 DEF Letters

\* They are characters of the same alphabet.
LEMMA LettersStay ==
    ASSUME NEW C, NEW s \in Seq(C)
    PROVE  Letters(s) \in Seq(C)
<1>1. PICK f, m, B : f = Without(s, {Dash}) /\ m = Len(s) /\ B = Seq(C)
  OBVIOUS
<1>2. f \in [0 .. m -> B] /\ m \in 0 .. m
  BY <1>1, WithoutSteps
<1> QED
  BY <1>1, <1>2 DEF Letters

\* One more character.
LEMMA LettersOfAppend ==
    ASSUME NEW C, NEW s \in Seq(C), NEW c \in C
    PROVE  Letters(Append(s, c)) = Kept1(Letters(s), c, {Dash})
<1>1. PICK t, m : t = Append(s, c) /\ m = Len(s)
  OBVIOUS
<1>2. /\ t \in Seq(C) /\ m \in Nat /\ Len(t) = m + 1 /\ t[m + 1] = c
      /\ \A i \in 1 .. m : t[i] = s[i]
  BY <1>1, AppendProperties
<1>3. m <= Len(s) /\ m <= Len(t) /\ m + 1 \in 1 .. Len(t) /\ m + 1 - 1 = m
  BY <1>1, <1>2
<1>4. Without(t, {Dash})[m] = Without(s, {Dash})[m]
  BY <1>2, <1>3, WithoutOfPrefix
<1>5. Without(t, {Dash})[m + 1] = Kept1(Without(t, {Dash})[m], c, {Dash})
  BY <1>2, <1>3, WithoutSteps
<1> QED
  BY <1>1, <1>2, <1>4, <1>5 DEF Letters

\* More of them behind others.
LEMMA LettersOfConcat ==
    ASSUME NEW C, NEW a \in Seq(C), NEW b \in Seq(C)
    PROVE  Letters(a \o b) = Letters(a) \o Letters(b)
<1>0. PICK D : D = {Dash}
  OBVIOUS
<1>1. PICK t, m, k, f, g, w : /\ t = a \o b /\ m = Len(a) /\ k = Len(b) /\ w = Letters(a)
                              /\ f = Without(t, D) /\ g = Without(b, D)
  OBVIOUS
<1>2. /\ m \in Nat /\ k \in Nat /\ t \in Seq(C) /\ Len(t) = m + k
      /\ \A i \in 1 .. m + k : t[i] = IF i <= m THEN a[i] ELSE b[i - m]
  BY <1>1, ConcatProperties
<1>3. /\ \A n \in 1 .. m + k : f[n] = Kept1(f[n - 1], t[n], D)
      /\ g \in [0 .. k -> Seq(C)] /\ g[0] = <<>>
      /\ \A n \in 1 .. k : g[n] = Kept1(g[n - 1], b[n], D)
  <2>1. t \in Seq(C)
    BY <1>2
  <2>2. \A n \in 1 .. Len(t) : Without(t, D)[n] = Kept1(Without(t, D)[n - 1], t[n], D)
    BY <2>1, WithoutSteps
  <2>3. /\ Without(b, D) \in [0 .. Len(b) -> Seq(C)] /\ Without(b, D)[0] = <<>>
        /\ \A n \in 1 .. Len(b) : Without(b, D)[n] = Kept1(Without(b, D)[n - 1], b[n], D)
    BY WithoutSteps
  <2> QED
    BY <1>1, <1>2, <2>2, <2>3
<1>4. w \in Seq(C)
  BY <1>1, LettersStay
<1>5. PICK T : T = {n \in 0 .. k : f[m + n] = w \o g[n]}
  OBVIOUS
<1>6. 0 \in T
  <2>1. m \in Nat /\ t \in Seq(C) /\ m <= Len(a) /\ m <= Len(t) /\ \A i \in 1 .. m : t[i] = a[i]
    BY <1>1, <1>2
  <2>2. Without(t, D)[m] = Without(a, D)[m]
    BY <2>1, WithoutOfPrefix
  <2>3. f[m] = w
    BY <1>0, <1>1, <2>2 DEF Letters
  <2>4. w \o <<>> = w
    BY <1>4, ConcatEmptySeq
  <2>5. 0 \in 0 .. k /\ m + 0 = m
    BY <1>2
  <2> QED
    BY <1>3, <1>5, <2>3, <2>4, <2>5
<1>7. ASSUME NEW n \in 0 .. k - 1, n \in T PROVE n + 1 \in T
  <2>1. n \in 0 .. k /\ n + 1 \in 0 .. k /\ n + 1 \in 1 .. k /\ n + 1 - 1 = n
    BY <1>2
  <2>2. PICK i : i = m + n + 1
    OBVIOUS
  <2>3. i \in 1 .. m + k /\ i - 1 = m + n /\ ~(i <= m) /\ i - m = n + 1 /\ i = m + (n + 1)
    BY <1>2, <2>2
  <2>4. t[i] = b[n + 1]
    BY <1>2, <2>3
  <2>5. f[i] = Kept1(w \o g[n], b[n + 1], D)
    BY <1>3, <1>5, <1>7, <2>3, <2>4
  <2>6. g[n + 1] = Kept1(g[n], b[n + 1], D)
    BY <1>3, <2>1
  <2>7. g[n] \in Seq(C) /\ b[n + 1] \in C
    <3>1. n + 1 \in 1 .. Len(b)
      BY <1>1, <2>1
    <3>2. b[n + 1] \in C
      BY <3>1, ElementOfSeq
    <3> QED
      BY <1>3, <2>1, <3>2
  <2>8. Append(w \o g[n], b[n + 1]) = w \o Append(g[n], b[n + 1])
    <3>1. PICK x, c : x = g[n] /\ c = b[n + 1]
      OBVIOUS
    <3> QED
      <4>1. x \in Seq(C) /\ c \in C
        BY <2>7, <3>1
      <4>2. w \o Append(x, c) = Append(w \o x, c)
        BY <1>4, <4>1, AppendBehind
      <4> QED
        BY <3>1, <4>2
  <2>9. f[i] = w \o g[n + 1]
    BY <2>5, <2>6, <2>8 DEF Kept1
  <2> QED
    BY <1>5, <2>1, <2>3, <2>9
<1>8. k \in T
  <2>1. 0 .. k \subseteq T
    BY <1>2, <1>6, <1>7, InductionUpTo
  <2> QED
    BY <1>2, <2>1
<1>9. f[m + k] = w \o g[k]
  BY <1>5, <1>8
<1> QED
  BY <1>0, <1>1, <1>2, <1>9 DEF Letters

\* Joining adds a dash at most.
LEMMA LettersOfJoin ==
    ASSUME NEW C, Dash \in C, NEW slug \in Seq(C), NEW piece \in Seq(C)
    PROVE  Letters(Join(slug, piece)) = Letters(slug) \o Letters(piece)
<1>1. PICK e, d, a, b : e = <<>> /\ d = Append(e, Dash) /\ a = Letters(slug) /\ b = Letters(piece)
  OBVIOUS
<1>2. a \in Seq(C) /\ b \in Seq(C) /\ e \in Seq(C) /\ Letters(e) = e
  BY <1>1, LettersStay, LettersOfNone
<1>3. d \in Seq(C) /\ d = <<Dash>> /\ Letters(d) = e
  <2>1. d \in Seq(C) /\ d = <<Dash>>
    BY <1>1, <1>2
  <2>2. Letters(d) = Kept1(e, Dash, {Dash})
    BY <1>1, <1>2, LettersOfAppend
  <2> QED
    BY <2>1, <2>2 DEF Kept1
<1>4. a \o e = a /\ e \o b = b
  BY <1>1, <1>2
<1>5. CASE piece = e
  BY <1>1, <1>2, <1>4, <1>5 DEF Join
<1>6. CASE piece # e /\ slug = e
  BY <1>1, <1>2, <1>4, <1>6 DEF Join
<1>7. CASE piece # e /\ slug # e
  <2>1. PICK p : p = slug \o d
    OBVIOUS
  <2>2. p \in Seq(C)
    BY <1>3, <2>1, ConcatProperties
  <2>3. Letters(p) = a
    <3>1. Letters(slug \o d) = Letters(slug) \o Letters(d)
      BY <1>3, LettersOfConcat
    <3> QED
      BY <1>1, <1>3, <1>4, <2>1, <3>1
  <2>4. Letters(p \o piece) = a \o b
    BY <1>1, <2>2, <2>3, LettersOfConcat
  <2>5. Join(slug, piece) = p \o piece
    BY <1>1, <1>3, <1>7, <2>1 DEF Join
  <2> QED
    BY <1>1, <2>4, <2>5
<1> QED
  BY <1>5, <1>6, <1>7

\* So a slug has the letters of the name, in their order.
LEMMA SlugKeepsLetters ==
    ASSUME NEW C, Dash \in C, NEW s \in Seq(C)
    PROVE  Letters(SlugOf(s)) = Letters(s)
<1>0. PICK D : D = {Dash}
  OBVIOUS
<1>1. PICK m, S, w : m = Len(s) /\ S = Seq(C) /\ w = Without(s, D)
  OBVIOUS
<1>2. PICK h \in [0 .. m -> S], l \in [0 .. m -> S] :
          IsSplit(s, h, l) /\ SlugOf(s) = Join(h[m], l[m])
  BY <1>1, SlugIsSplit
<1>3. /\ m \in Nat /\ \A n \in 1 .. m : s[n] \in C
      /\ w[0] = <<>> /\ \A n \in 1 .. m : w[n] = Kept1(w[n - 1], s[n], D)
  <2>1. /\ Without(s, D)[0] = <<>>
        /\ \A n \in 1 .. Len(s) : Without(s, D)[n] = Kept1(Without(s, D)[n - 1], s[n], D)
    BY WithoutSteps
  <2> QED
    BY <1>1, <2>1
<1>4. PICK T : T = {n \in 0 .. m : Letters(h[n]) \o Letters(l[n]) = w[n]}
  OBVIOUS
<1>5. 0 \in T
  <2>1. h[0] = <<>> /\ l[0] = <<>>
    BY <1>2 DEF IsSplit
  <2>2. Letters(h[0]) \o Letters(l[0]) = <<>>
    BY <2>1, LettersOfNone
  <2>3. 0 \in 0 .. m
    BY <1>3
  <2> QED
    BY <1>3, <1>4, <2>2, <2>3
<1>6. ASSUME NEW n \in 0 .. m - 1, n \in T PROVE n + 1 \in T
  <2>1. n + 1 \in 1 .. m /\ n + 1 - 1 = n /\ n \in 0 .. m /\ n + 1 \in 0 .. m
    BY <1>3
  <2>2. PICK hn, ln, c, x, y : /\ hn = h[n] /\ ln = l[n] /\ c = s[n + 1]
                               /\ x = Letters(hn) /\ y = Letters(ln)
    OBVIOUS
  <2>3. hn \in S /\ ln \in S /\ c \in C /\ x \o y = w[n]
    BY <1>3, <1>4, <1>6, <2>1, <2>2
  <2>4. x \in S /\ y \in S
    BY <1>1, <2>2, <2>3, LettersStay
  <2>5. w[n + 1] = Kept1(x \o y, c, D)
    <3>1. w[n + 1] = Kept1(w[n], s[n + 1], D)
      BY <1>3, <2>1
    <3> QED
      BY <2>2, <2>3, <3>1
  <2>6. IF c = Dash THEN h[n + 1] = Join(hn, ln) /\ l[n + 1] = <<>>
        ELSE h[n + 1] = hn /\ l[n + 1] = Append(ln, c)
    BY <1>1, <1>2, <2>1, <2>2 DEF IsSplit
  <2>7. CASE c = Dash
    <3>1. Letters(h[n + 1]) = x \o y
      BY <1>1, <2>2, <2>3, <2>6, <2>7, LettersOfJoin
    <3>2. Letters(l[n + 1]) = <<>>
      BY <2>6, <2>7, LettersOfNone
    <3>3. x \o y \in S
      BY <1>1, <2>4
    <3>4. (x \o y) \o <<>> = x \o y
      BY <1>1, <3>3
    <3>5. w[n + 1] = x \o y
      BY <1>0, <2>5, <2>7 DEF Kept1
    <3> QED
      BY <1>4, <2>1, <3>1, <3>2, <3>4, <3>5
  <2>8. CASE c # Dash
    <3>1. Letters(h[n + 1]) = x
      BY <2>2, <2>6, <2>8
    <3>2. Letters(l[n + 1]) = Append(y, c)
      <4>1. Letters(Append(ln, c)) = Kept1(y, c, {Dash})
        BY <1>1, <2>2, <2>3, LettersOfAppend
      <4> QED
        BY <2>6, <2>8, <4>1 DEF Kept1
    <3>3. w[n + 1] = Append(x \o y, c)
      BY <1>0, <2>5, <2>8 DEF Kept1
    <3>4. x \o Append(y, c) = Append(x \o y, c)
      <4>1. x \in Seq(C) /\ y \in Seq(C) /\ c \in C
        BY <1>1, <2>3, <2>4
      <4> QED
        BY <4>1, AppendBehind
    <3> QED
      BY <1>4, <2>1, <3>1, <3>2, <3>3, <3>4
  <2> QED
    BY <2>7, <2>8
<1>7. m \in T
  <2>1. 0 .. m \subseteq T
    BY <1>3, <1>5, <1>6, InductionUpTo
  <2> QED
    BY <1>3, <2>1
<1>8. m \in 0 .. m /\ h[m] \in S /\ l[m] \in S
  BY <1>3
<1>9. Letters(Join(h[m], l[m])) = Letters(h[m]) \o Letters(l[m])
  BY <1>1, <1>8, LettersOfJoin
<1>10. Letters(h[m]) \o Letters(l[m]) = w[m]
  BY <1>4, <1>7
<1> QED
  BY <1>0, <1>1, <1>2, <1>9, <1>10 DEF Letters

\* The first n + 1 elements are the first n and one more.
LEMMA OneMore ==
    ASSUME NEW C, NEW s \in Seq(C), NEW n \in Nat, n < Len(s), NEW u, u = SubSeq(s, 1, n),
           NEW c, c = s[n + 1]
    PROVE  Append(u, c) = SubSeq(s, 1, n + 1) /\ u \in Seq(C) /\ Len(u) = n
<1>1. PICK v, m : v = SubSeq(s, 1, n + 1) /\ m = Len(s)
  OBVIOUS
<1>2. m \in Nat /\ n + 1 \in 1 .. m /\ \A i \in 1 .. m : s[i] \in C
  BY <1>1, LenProperties, ElementOfSeq
<1>3. \A i \in 1 .. n + 1 : i \in 1 .. m
  BY <1>2
<1>4. \A i \in 1 .. n : i \in 1 .. n + 1
  OBVIOUS
<1>5. u \in Seq(C) /\ Len(u) = n /\ \A i \in 1 .. n : u[i] = s[i]
  <2>1. \A i \in 1 .. n : s[i] \in C
    BY <1>2, <1>3, <1>4
  <2>2. /\ u \in Seq(C) /\ Len(u) = IF 1 <= n THEN n - 1 + 1 ELSE 0
        /\ \A i \in 1 .. n - 1 + 1 : u[i] = s[1 + i - 1]
    BY <2>1, SubSeqProperties
  <2> QED
    BY <2>2
<1>6. v \in Seq(C) /\ Len(v) = n + 1 /\ \A i \in 1 .. n + 1 : v[i] = s[i]
  <2>1. \A i \in 1 .. n + 1 : s[i] \in C
    BY <1>2, <1>3
  <2>2. /\ v \in Seq(C) /\ Len(v) = IF 1 <= n + 1 THEN n + 1 - 1 + 1 ELSE 0
        /\ \A i \in 1 .. n + 1 - 1 + 1 : v[i] = s[1 + i - 1]
    BY <1>1, <2>1, SubSeqProperties
  <2> QED
    BY <2>2
<1>7. PICK w : w = Append(u, c)
  OBVIOUS
<1>8. c \in C
  BY <1>1, <1>2
<1>9. /\ w \in Seq(C) /\ Len(w) = n + 1 /\ w[n + 1] = c
      /\ \A i \in 1 .. n : w[i] = u[i]
  BY <1>5, <1>7, <1>8, AppendProperties
<1>10. ASSUME NEW i \in 1 .. n + 1 PROVE w[i] = v[i]
  <2>1. CASE i = n + 1
    BY <1>1, <1>6, <1>9, <2>1
  <2>2. CASE i \in 1 .. n
    BY <1>5, <1>6, <1>9, <2>2
  <2> QED
    BY <2>1, <2>2
<1>11. w = v
  BY <1>6, <1>9, <1>10, SeqEqual
<1> QED
  BY <1>1, <1>5, <1>7, <1>11

\* A piece that grows, grows at the end of what it is joined to.
LEMMA JoinGrows ==
    ASSUME NEW C, Dash \in C, NEW slug \in Seq(C), NEW piece \in Seq(C), NEW c \in C,
           piece # <<>>
    PROVE  Join(slug, Append(piece, c)) = Append(Join(slug, piece), c)
<1>1. PICK d, p, u, x : /\ d = <<Dash>> /\ p = slug \o d
                        /\ u = Join(slug, piece) /\ x = Append(piece, c)
  OBVIOUS
<1>2. d \in Seq(C) /\ x \in Seq(C) /\ x # <<>>
  BY <1>1, AppendProperties
<1>3. p \in Seq(C)
  BY <1>1, <1>2, ConcatProperties
<1>4. CASE slug = <<>>
  BY <1>1, <1>2, <1>4 DEF Join
<1>5. CASE slug # <<>>
  <2>1. u = p \o piece
    BY <1>1, <1>5 DEF Join
  <2>2. Append(u, c) = p \o x
    <3>1. p \o Append(piece, c) = Append(p \o piece, c)
      BY <1>3, AppendBehind
    <3> QED
      BY <1>1, <2>1, <3>1
  <2>3. Join(slug, x) = p \o x
    BY <1>1, <1>2, <1>5 DEF Join
  <2> QED
    BY <1>1, <2>2, <2>3
<1> QED
  BY <1>4, <1>5

\* After n characters of a tidy s: behind a dash there is no piece yet, and the
\* dash is not in the slug either.
SplitSoFar(s, h, l, n) ==
    IF n = 0 THEN h = <<>> /\ l = <<>>
    ELSE IF s[n] = Dash THEN h = SubSeq(s, 1, n - 1) /\ l = <<>>
    ELSE l # <<>> /\ Join(h, l) = SubSeq(s, 1, n)

\* One character more.
LEMMA SplitGoesOn ==
    ASSUME NEW C, Dash \in C, NEW s \in Seq(C), IsTidy(s), NEW n \in Nat, n < Len(s),
           NEW h \in Seq(C), NEW l \in Seq(C), NEW h2, NEW l2, SplitSoFar(s, h, l, n),
           IF s[n + 1] = Dash THEN h2 = Join(h, l) /\ l2 = <<>>
           ELSE h2 = h /\ l2 = Append(l, s[n + 1])
    PROVE  SplitSoFar(s, h2, l2, n + 1)
<1>1. PICK m, c, e : m = Len(s) /\ c = s[n + 1] /\ e = <<>>
  OBVIOUS
<1>2. m \in Nat /\ n < m /\ c \in C /\ DOMAIN s = 1 .. m /\ e \in Seq(C)
  <2>1. n + 1 \in 1 .. Len(s)
    BY LenProperties
  <2> QED
    BY <1>1, <2>1, LenProperties, ElementOfSeq
<1>3. n + 1 \in 1 .. m /\ n + 1 # 0 /\ n + 1 - 1 = n
  BY <1>2
<1>4. n # 0 => n \in 1 .. m /\ n - 1 \in Nat /\ n - 1 < m /\ n - 1 + 1 = n
  BY <1>2
<1>5. PICK u : u = SubSeq(s, 1, n)
  OBVIOUS
<1>6. Append(u, c) = SubSeq(s, 1, n + 1) /\ u \in Seq(C) /\ Len(u) = n
  BY <1>1, <1>2, <1>5, OneMore
<1>7. CASE c = Dash
  <2>1. n # 0 /\ s[n] # Dash
    <3>1. n + 1 > 1
      BY <1>1, <1>2, <1>3, <1>7 DEF IsTidy
    <3>2. n # 0 /\ n \in DOMAIN s
      BY <1>2, <1>4, <3>1
    <3> QED
      BY <1>1, <1>7, <3>2 DEF IsTidy
  <2>2. Join(h, l) = u
    BY <1>5, <2>1 DEF SplitSoFar
  <2>3. h2 = u /\ l2 = e
    BY <1>1, <1>7, <2>2
  <2> QED
    BY <1>1, <1>3, <1>5, <1>7, <2>3 DEF SplitSoFar
<1>8. CASE c # Dash
  <2>1. h2 = h /\ l2 = Append(l, c)
    BY <1>1, <1>8
  <2>2. l2 # <<>>
    BY <1>2, <2>1, AppendProperties
  <2>3. Join(h, l2) = Append(u, c)
    <3>1. CASE n = 0
      <4>1. h = <<>> /\ l = <<>>
        BY <3>1 DEF SplitSoFar
      <4>2. u = <<>>
        BY <1>5, <3>1, SubSeqEmpty
      <4> QED
        BY <2>1, <2>2, <4>1, <4>2 DEF Join
    <3>2. CASE n # 0 /\ s[n] = Dash
      <4>1. h = SubSeq(s, 1, n - 1) /\ l = e
        BY <1>1, <3>2 DEF SplitSoFar
      <4>2. n > 1
        BY <1>2, <1>4, <3>2 DEF IsTidy
      <4>3. Append(h, Dash) = SubSeq(s, 1, n) /\ Len(h) = n - 1
        <5>1. PICK k : k = n - 1
          OBVIOUS
        <5>2. k \in Nat /\ k < Len(s) /\ h = SubSeq(s, 1, k) /\ Dash = s[k + 1]
          BY <1>1, <1>4, <3>2, <4>1, <5>1
        <5>3. Append(h, Dash) = SubSeq(s, 1, k + 1) /\ Len(h) = k
          BY <5>2, OneMore
        <5> QED
          BY <1>4, <3>2, <5>1, <5>3
      <4>4. h # <<>>
        BY <4>2, <4>3
      <4>5. u = Append(h, Dash)
        BY <1>4, <1>5, <3>2, <4>3
      <4>6. PICK d : d = <<Dash>>
        OBVIOUS
      <4>7. u = h \o d
        BY <4>5, <4>6, AppendIsConcat
      <4>8. l2 = <<c>>
        BY <1>1, <2>1, <4>1
      <4>9. Join(h, l2) = u \o l2
        BY <2>2, <4>4, <4>6, <4>7 DEF Join
      <4>10. Append(u, c) = u \o <<c>>
        BY <1>2, <1>6, AppendIsConcat
      <4> QED
        BY <4>8, <4>9, <4>10
    <3>3. CASE n # 0 /\ s[n] # Dash
      <4>1. l # <<>> /\ u = Join(h, l)
        BY <1>5, <3>3 DEF SplitSoFar
      <4> QED
        <5>1. Join(h, Append(l, c)) = Append(Join(h, l), c)
          BY <1>2, <4>1, JoinGrows, SMTT(60)
        <5> QED
          BY <2>1, <4>1, <5>1
    <3> QED
      BY <3>1, <3>2, <3>3
  <2> QED
    BY <1>1, <1>3, <1>6, <1>8, <2>1, <2>2, <2>3 DEF SplitSoFar
<1> QED
  BY <1>7, <1>8

\* So a tidy sequence is its own slug.
LEMMA TidyIsItsSlug ==
    ASSUME NEW C, Dash \in C, NEW s \in Seq(C), IsTidy(s)
    PROVE  SlugOf(s) = s
<1>1. PICK m, S : m = Len(s) /\ S = Seq(C)
  OBVIOUS
<1>2. PICK h \in [0 .. m -> S], l \in [0 .. m -> S] :
          IsSplit(s, h, l) /\ SlugOf(s) = Join(h[m], l[m])
  BY <1>1, SlugIsSplit
<1>3. m \in Nat /\ DOMAIN s = 1 .. m
  BY <1>1, LenProperties
<1>4. PICK T : T = {n \in 0 .. m : SplitSoFar(s, h[n], l[n], n)}
  OBVIOUS
<1>5. 0 \in T
  BY <1>2, <1>3, <1>4 DEF IsSplit, SplitSoFar
<1>6. ASSUME NEW n \in 0 .. m - 1, n \in T PROVE n + 1 \in T
  <2>1. n + 1 \in 1 .. m /\ n + 1 - 1 = n /\ n \in 0 .. m /\ n + 1 \in 0 .. m /\ n \in Nat /\ n < m
    BY <1>3
  <2>2. PICK hn, ln, h2, l2 : hn = h[n] /\ ln = l[n] /\ h2 = h[n + 1] /\ l2 = l[n + 1]
    OBVIOUS
  <2>3. hn \in Seq(C) /\ ln \in Seq(C) /\ SplitSoFar(s, hn, ln, n)
    BY <1>1, <1>4, <1>6, <2>1, <2>2
  <2>4. IF s[n + 1] = Dash THEN h2 = Join(hn, ln) /\ l2 = <<>>
        ELSE h2 = hn /\ l2 = Append(ln, s[n + 1])
    BY <1>1, <1>2, <2>1, <2>2 DEF IsSplit
  <2>5. SplitSoFar(s, h2, l2, n + 1)
    BY <1>1, <2>1, <2>3, <2>4, SplitGoesOn
  <2> QED
    BY <1>4, <2>1, <2>2, <2>5
<1>7. SplitSoFar(s, h[m], l[m], m)
  <2>1. 0 .. m \subseteq T
    BY <1>3, <1>5, <1>6, InductionUpTo
  <2> QED
    BY <1>3, <1>4, <2>1
<1>8. CASE m = 0
  <2>1. s = <<>>
    BY <1>1, <1>8, EmptySeq
  <2> QED
    BY <1>2, <1>7, <1>8, <2>1 DEF SplitSoFar, Join
<1>9. CASE m # 0
  <2>1. m \in DOMAIN s
    BY <1>3, <1>9
  <2>2. s[m] # Dash
    BY <1>1, <1>3, <2>1 DEF IsTidy
  <2>3. SlugOf(s) = SubSeq(s, 1, m)
    BY <1>2, <1>7, <1>9, <2>2 DEF SplitSoFar
  <2> QED
    BY <1>1, <2>3, SubSeqFull
<1> QED
  BY <1>8, <1>9

\* A slug is its own slug, has no dash at an end or beside another, and the name's
\* letters in order, for every alphabet and any name (slugify).
THEOREM SlugsAreStable ==
    ASSUME NEW A, Dash \in A, NEW Lower \in [A -> A], Lower[Dash] = Dash,
           \A a \in A : Lower[Lower[a]] = Lower[a], NEW name \in Seq(A)
    PROVE  SlugIsStable(name, Lower)
<1>1. PICK L : L = {Lower[a] : a \in A}
  OBVIOUS
<1>2. Dash \in L /\ \A c \in L : c \in A /\ Lower[c] = c
  BY <1>1
<1>3. ASSUME NEW s \in Seq(A)
      PROVE  /\ Mapped(s, Lower) \in Seq(L) /\ Len(Mapped(s, Lower)) = Len(s)
             /\ Slugify(s, Lower) = SlugOf(Mapped(s, Lower))
  <2>1. PICK m, t : m = Len(s) /\ t = Mapped(s, Lower)
    OBVIOUS
  <2>2. m \in Nat /\ DOMAIN s = 1 .. m /\ \A i \in 1 .. m : Lower[s[i]] \in L
    BY <1>1, <2>1, LenProperties, ElementOfSeq
  <2>3. t = [i \in 1 .. m |-> Lower[s[i]]]
    BY <2>1, <2>2 DEF Mapped
  <2>4. t \in Seq(L) /\ Len(t) = m
    BY <2>2, <2>3
  <2> QED
    BY <2>1, <2>4 DEF Slugify, SlugOf
<1>4. PICK t, slug : t = Mapped(name, Lower) /\ slug = Slugify(name, Lower)
  OBVIOUS
<1>5. t \in Seq(L) /\ slug = SlugOf(t)
  BY <1>3, <1>4
<1>6. slug \in Seq(L) /\ IsTidy(slug) /\ Letters(slug) = Letters(t)
  BY <1>2, <1>5, SlugIsTidy, SlugKeepsLetters
<1>7. SlugOf(slug) = slug
  BY <1>2, <1>6, TidyIsItsSlug
<1>8. Mapped(slug, Lower) = slug
  <2>1. PICK m : m = Len(slug)
    OBVIOUS
  <2>2. m \in Nat /\ DOMAIN slug = 1 .. m /\ slug \in [1 .. m -> L]
    BY <1>6, <2>1, LenProperties
  <2>3. \A i \in 1 .. m : Lower[slug[i]] = slug[i]
    BY <1>2, <2>2
  <2> QED
    BY <2>2, <2>3 DEF Mapped
<1>9. slug \in Seq(A)
  <2>1. L \subseteq A
    BY <1>2
  <2> QED
    BY <1>6, <2>1, SeqMonotonic
<1>10. Slugify(slug, Lower) = slug
  BY <1>3, <1>7, <1>8, <1>9
<1> QED
  BY <1>4, <1>6, <1>10 DEF SlugIsStable
-----------------------------------------------------------------------------
(* Texts that registering a project merges into: any of them.              *)

\* What has been found of the first n elements not in S: each is one of them, each
\* of them is found, and if they all differ none is found twice.
FoundSoFar(s, S, n, rest) ==
    /\ \A i \in 1 .. Len(rest) : rest[i] \notin S /\ \E j \in 1 .. n : rest[i] = s[j]
    /\ \A j \in 1 .. n : s[j] \notin S => \E i \in 1 .. Len(rest) : rest[i] = s[j]
    /\ \A i, k \in 1 .. Len(rest) : rest[i] = rest[k] => i = k

\* A sequence without repetitions.
AllDiffer(s) == \A i, j \in 1 .. Len(s) : s[i] = s[j] => i = j

\* So are all of them found.
LEMMA WithoutFinds ==
    ASSUME NEW A, NEW s \in Seq(A), AllDiffer(s), NEW S
    PROVE  /\ Without(s, S)[Len(s)] \in Seq(A)
           /\ FoundSoFar(s, S, Len(s), Without(s, S)[Len(s)])
<1>1. PICK f, m, B : f = Without(s, S) /\ m = Len(s) /\ B = Seq(A)
  OBVIOUS
<1>2. /\ m \in Nat /\ f \in [0 .. m -> B] /\ f[0] = <<>>
      /\ \A n \in 1 .. m : f[n] = Kept1(f[n - 1], s[n], S)
  <2>1. /\ Without(s, S) \in [0 .. Len(s) -> Seq(A)] /\ Without(s, S)[0] = <<>>
        /\ \A n \in 1 .. Len(s) : Without(s, S)[n] = Kept1(Without(s, S)[n - 1], s[n], S)
    BY WithoutSteps
  <2> QED
    BY <1>1, <2>1, LenProperties
<1>3. PICK T : T = {n \in 0 .. m : FoundSoFar(s, S, n, f[n])}
  OBVIOUS
<1>4. 0 \in T
  <2>1. PICK e : e = <<>>
    OBVIOUS
  <2>2. f[0] = e /\ Len(e) = 0 /\ 0 \in 0 .. m
    BY <1>2, <2>1
  <2>3. FoundSoFar(s, S, 0, e)
    BY <2>2 DEF FoundSoFar
  <2> QED
    BY <1>3, <2>2, <2>3
<1>5. ASSUME NEW n \in 0 .. m - 1, n \in T PROVE n + 1 \in T
  <2>1. n \in 0 .. m /\ n + 1 \in 0 .. m /\ n + 1 \in 1 .. m /\ n + 1 - 1 = n
    BY <1>2
  <2>2. PICK x, r, r2, k : x = s[n + 1] /\ r = f[n] /\ r2 = f[n + 1] /\ k = Len(r)
    OBVIOUS
  <2>3. x \in A /\ r \in Seq(A) /\ k \in Nat /\ r2 = Kept1(r, x, S)
    <3>1. s[n + 1] \in A
      BY <1>1, <2>1, ElementOfSeq
    <3>2. f[n] \in Seq(A)
      BY <1>1, <1>2, <2>1
    <3>3. f[n + 1] = Kept1(f[n], s[n + 1], S)
      BY <1>2, <2>1
    <3> QED
      BY <2>2, <3>1, <3>2, <3>3, LenProperties
  <2>4. /\ \A i \in 1 .. k : r[i] \notin S /\ \E j \in 1 .. n : r[i] = s[j]
        /\ \A j \in 1 .. n : s[j] \notin S => \E i \in 1 .. k : r[i] = s[j]
        /\ \A i, j \in 1 .. k : r[i] = r[j] => i = j
    BY <1>3, <1>5, <2>2 DEF FoundSoFar
  <2>5. \A j \in 1 .. n + 1 : j = n + 1 \/ j \in 1 .. n
    BY <1>2
  <2>6. CASE x \in S
    <3>1. r2 = r
      BY <2>3, <2>6 DEF Kept1
    <3>2. FoundSoFar(s, S, n + 1, r)
      <4>1. \A i \in 1 .. k : r[i] \notin S /\ \E j \in 1 .. n + 1 : r[i] = s[j]
        BY <2>4
      <4>2. \A j \in 1 .. n + 1 : s[j] \notin S => \E i \in 1 .. k : r[i] = s[j]
        BY <2>2, <2>4, <2>5, <2>6
      <4> QED
        BY <2>2, <2>4, <4>1, <4>2 DEF FoundSoFar
    <3> QED
      BY <1>3, <2>1, <2>2, <3>1, <3>2
  <2>7. CASE x \notin S
    <3>1. r2 = Append(r, x)
      BY <2>3, <2>7 DEF Kept1
    <3>2. Len(r2) = k + 1 /\ r2[k + 1] = x /\ \A i \in 1 .. k : r2[i] = r[i]
      BY <2>2, <2>3, <3>1, AppendProperties
    <3>3. \A i \in 1 .. k + 1 : i = k + 1 \/ i \in 1 .. k
      BY <2>3
    <3>4. \A i \in 1 .. k + 1 : r2[i] \notin S /\ \E j \in 1 .. n + 1 : r2[i] = s[j]
      <4>1. ASSUME NEW i \in 1 .. k PROVE r2[i] \notin S /\ \E j \in 1 .. n + 1 : r2[i] = s[j]
        BY <2>4, <3>2
      <4>2. r2[k + 1] \notin S /\ \E j \in 1 .. n + 1 : r2[k + 1] = s[j]
        BY <2>1, <2>2, <2>7, <3>2
      <4> QED
        BY <3>3, <4>1, <4>2
    <3>5. \A j \in 1 .. n + 1 : s[j] \notin S => \E i \in 1 .. k + 1 : r2[i] = s[j]
      <4>1. ASSUME NEW j \in 1 .. n, s[j] \notin S PROVE \E i \in 1 .. k + 1 : r2[i] = s[j]
        <5>1. PICK i \in 1 .. k : r[i] = s[j]
          BY <2>4, <4>1
        <5>2. i \in 1 .. k + 1 /\ r2[i] = s[j]
          BY <2>3, <3>2, <5>1
        <5> QED
          BY <5>2
      <4>2. k + 1 \in 1 .. k + 1 /\ r2[k + 1] = s[n + 1]
        BY <2>2, <2>3, <3>2
      <4> QED
        BY <2>5, <4>1, <4>2
    <3>6. ASSUME NEW i \in 1 .. k PROVE r2[i] # x
      <4>1. PICK j \in 1 .. n : r[i] = s[j]
        BY <2>4
      <4>2. j \in 1 .. m /\ j # n + 1
        BY <1>2
      <4>3. s[j] # s[n + 1]
        BY <1>1, <2>1, <4>2 DEF AllDiffer
      <4> QED
        BY <2>2, <3>2, <4>1, <4>3
    <3>7. ASSUME NEW i \in 1 .. k + 1, NEW j \in 1 .. k + 1, r2[i] = r2[j] PROVE i = j
      <4>1. CASE i \in 1 .. k /\ j \in 1 .. k
        BY <2>4, <3>2, <3>7, <4>1
      <4>2. CASE i = k + 1
        BY <3>2, <3>3, <3>6, <3>7, <4>2
      <4>3. CASE j = k + 1
        BY <3>2, <3>3, <3>6, <3>7, <4>3
      <4> QED
        BY <3>3, <4>1, <4>2, <4>3
    <3>8. FoundSoFar(s, S, n + 1, r2)
      BY <3>2, <3>4, <3>5, <3>7 DEF FoundSoFar
    <3> QED
      BY <1>3, <2>1, <2>2, <3>8
  <2> QED
    BY <2>6, <2>7
<1>6. m \in T
  <2>1. 0 .. m \subseteq T
    BY <1>2, <1>4, <1>5, InductionUpTo
  <2> QED
    BY <1>2, <2>1
<1> QED
  BY <1>1, <1>2, <1>3, <1>6

\* Nothing is missing of entries that are all in S; if nothing is missing, all are.
LEMMA NothingMissing ==
    ASSUME NEW A, NEW s \in Seq(A), AllDiffer(s), NEW S
    PROVE  Without(s, S)[Len(s)] = <<>> <=> \A j \in 1 .. Len(s) : s[j] \in S
<1>1. PICK r, m, k : r = Without(s, S)[Len(s)] /\ m = Len(s) /\ k = Len(r)
  OBVIOUS
<1>2. r \in Seq(A) /\ FoundSoFar(s, S, m, r)
  BY <1>1, WithoutFinds
<1>3. k \in Nat /\ (r = <<>> <=> k = 0)
  BY <1>1, <1>2, EmptySeq, LenProperties
<1>4. ASSUME k = 0, NEW j \in 1 .. m PROVE s[j] \in S
  BY <1>1, <1>2, <1>4 DEF FoundSoFar
<1>5. ASSUME \A j \in 1 .. m : s[j] \in S, k # 0 PROVE FALSE
  <2>1. 1 \in 1 .. k
    BY <1>3, <1>5
  <2>2. r[1] \notin S /\ \E j \in 1 .. m : r[1] = s[j]
    BY <1>1, <1>2, <2>1 DEF FoundSoFar
  <2> QED
    BY <1>5, <2>2
<1> QED
  BY <1>1, <1>3, <1>4, <1>5

\* Lines over the texts E.
LinesOver(E) == [says : E, comment : BOOLEAN]

\* Each entry becomes a line.
LEMMA ListedLines ==
    ASSUME NEW E, NEW s \in Seq(E)
    PROVE  /\ Listed(s) \in Seq(LinesOver(E)) /\ Len(Listed(s)) = Len(s)
           /\ \A i \in 1 .. Len(s) : Listed(s)[i] = Plain(s[i])
<1>1. PICK m, t, L : m = Len(s) /\ t = Listed(s) /\ L = LinesOver(E)
  OBVIOUS
<1>2. m \in Nat /\ DOMAIN s = 1 .. m /\ \A i \in 1 .. m : s[i] \in E
  BY <1>1, LenProperties, ElementOfSeq
<1>3. \A i \in 1 .. m : Plain(s[i]) \in L
  BY <1>1, <1>2 DEF Plain, LinesOver
<1>4. t = [i \in 1 .. m |-> Plain(s[i])]
  BY <1>1, <1>2 DEF Listed
<1>5. t \in Seq(L) /\ Len(t) = m
  BY <1>2, <1>3, <1>4
<1> QED
  BY <1>1, <1>4, <1>5

\* What makes a line empty, or a pattern.
SaysNothing(line) == line.says = ""
SaysPattern(line, p) == line.says = p /\ p # "" /\ ~line.comment

\* new is old with lines behind it, each an empty one or one that is nowhere before.
AddsOnly(old, new) ==
    /\ IsPrefix(old, new)
    /\ \A i \in Len(old) + 1 .. Len(new) :
           \A j \in 1 .. i - 1 : SaysNothing(new[i]) \/ new[j] # new[i]

\* A text that is left alone.
LEMMA AddsNothing ==
    ASSUME NEW L, NEW old \in Seq(L)
    PROVE  AddsOnly(old, old)
<1>1. Len(old) \in Nat
  BY LenProperties
<1>2. Len(old) + 1 .. Len(old) = {}
  BY <1>1
<1>3. Len(old) <= Len(old)
  BY <1>1
<1> QED
  BY <1>2, <1>3, Zenon DEF AddsOnly, IsPrefix

\* Lines put behind a text whose last line has been ended.
LEMMA AddsBehind ==
    ASSUME NEW L, NEW old \in Seq(L), NEW mid \in Seq(L), NEW more \in Seq(L),
           Len(old) <= Len(mid), \A i \in 1 .. Len(old) : mid[i] = old[i],
           \A i \in Len(old) + 1 .. Len(mid) : SaysNothing(mid[i]),
           \A i \in 1 .. Len(more) :
               \/ SaysNothing(more[i])
               \/ /\ \A j \in 1 .. Len(mid) : mid[j] # more[i]
                  /\ \A j \in 1 .. i - 1 : more[j] # more[i]
    PROVE  AddsOnly(old, mid \o more)
<1>1. PICK new, a, b, c : /\ new = mid \o more
                          /\ a = Len(old) /\ b = Len(mid) /\ c = Len(more)
  OBVIOUS
<1>2. a \in Nat /\ b \in Nat /\ c \in Nat /\ a <= b
  BY <1>1, LenProperties
<1>3. /\ new \in Seq(L) /\ Len(new) = b + c
      /\ \A i \in 1 .. b + c : new[i] = IF i <= b THEN mid[i] ELSE more[i - b]
  BY <1>1, ConcatProperties
<1>4. \A i \in 1 .. b : new[i] = mid[i]
  BY <1>2, <1>3
<1>5. \A i \in 1 .. a : new[i] = old[i]
  <2>1. \A i \in 1 .. a : i \in 1 .. b
    BY <1>2
  <2> QED
    BY <1>1, <1>4, <2>1
<1>6. IsPrefix(old, new)
  <2>1. PICK u, v : u = SubSeq(old, 1, a) /\ v = SubSeq(new, 1, a)
    OBVIOUS
  <2>2. /\ u \in Seq(L) /\ Len(u) = a /\ \A i \in 1 .. a : u[i] = old[i]
    <3>1. \A i \in 1 .. a : old[i] \in L
      BY <1>1, ElementOfSeq
    <3>2. /\ u \in Seq(L) /\ Len(u) = IF 1 <= a THEN a - 1 + 1 ELSE 0
          /\ \A i \in 1 .. a - 1 + 1 : u[i] = old[1 + i - 1]
      BY <1>2, <2>1, <3>1, SubSeqProperties
    <3> QED
      BY <1>2, <3>2
  <2>3. /\ v \in Seq(L) /\ Len(v) = a /\ \A i \in 1 .. a : v[i] = new[i]
    <3>1. \A i \in 1 .. a : new[i] \in L
      BY <1>1, <1>5, ElementOfSeq
    <3>2. /\ v \in Seq(L) /\ Len(v) = IF 1 <= a THEN a - 1 + 1 ELSE 0
          /\ \A i \in 1 .. a - 1 + 1 : v[i] = new[1 + i - 1]
      BY <1>2, <2>1, <3>1, SubSeqProperties
    <3> QED
      BY <1>2, <3>2
  <2>4. u = v
    BY <1>5, <2>2, <2>3, SeqEqual
  <2>5. a <= b + c
    BY <1>2
  <2> QED
    BY <1>1, <1>3, <2>1, <2>4, <2>5 DEF IsPrefix
<1>7. ASSUME NEW i \in a + 1 .. b + c, NEW j \in 1 .. i - 1
      PROVE  SaysNothing(new[i]) \/ new[j] # new[i]
  <2>1. CASE i <= b
    <3>1. i \in 1 .. b /\ i \in a + 1 .. b
      BY <1>2, <2>1
    <3> QED
      BY <1>1, <1>4, <3>1
  <2>2. CASE ~(i <= b)
    <3>1. PICK k : k = i - b
      OBVIOUS
    <3>2. k \in 1 .. c /\ i \in 1 .. b + c /\ j \in 1 .. b + c
      BY <1>2, <2>2, <3>1
    <3>3. new[i] = more[k]
      BY <1>3, <2>2, <3>1, <3>2
    <3>4. CASE j <= b
      <4>1. j \in 1 .. b /\ new[j] = mid[j]
        BY <1>2, <1>4, <3>4
      <4> QED
        BY <1>1, <3>2, <3>3, <4>1
    <3>5. CASE ~(j <= b)
      <4>1. j - b \in 1 .. k - 1
        BY <1>2, <3>1, <3>2, <3>5
      <4>2. new[j] = more[j - b]
        BY <1>3, <3>2, <3>5
      <4> QED
        BY <1>1, <3>2, <3>3, <4>1, <4>2
    <3> QED
      BY <3>4, <3>5
  <2> QED
    BY <2>1, <2>2
<1> QED
  BY <1>1, <1>3, <1>6, <1>7 DEF AddsOnly

\* The patterns of lines put behind others are patterns.
LEMMA PatternsBehind ==
    ASSUME NEW L, NEW mid \in Seq(L), NEW more \in Seq(L), NEW ends, NEW p,
           \/ \E i \in 1 .. Len(mid) : SaysPattern(mid[i], p)
           \/ \E i \in 1 .. Len(more) : SaysPattern(more[i], p)
    PROVE  p \in PatternsOf([lines |-> mid \o more, ends |-> ends])
<1>1. PICK new, b, c : new = mid \o more /\ b = Len(mid) /\ c = Len(more)
  OBVIOUS
<1>2. /\ b \in Nat /\ c \in Nat /\ new \in Seq(L) /\ Len(new) = b + c /\ DOMAIN new = 1 .. b + c
      /\ \A i \in 1 .. b + c : new[i] = IF i <= b THEN mid[i] ELSE more[i - b]
  BY <1>1, ConcatProperties, LenProperties
<1>3. \E i \in DOMAIN new : SaysPattern(new[i], p)
  <2>1. ASSUME NEW i \in 1 .. b, SaysPattern(mid[i], p)
        PROVE  i \in DOMAIN new /\ new[i] = mid[i]
    BY <1>2
  <2>2. ASSUME NEW i \in 1 .. c, SaysPattern(more[i], p)
        PROVE  i + b \in DOMAIN new /\ new[i + b] = more[i]
    <3>1. PICK k : k = i + b
      OBVIOUS
    <3>2. k \in 1 .. b + c /\ ~(k <= b) /\ k - b = i
      BY <1>2, <3>1
    <3> QED
      BY <1>2, <3>1, <3>2
  <2> QED
    BY <1>1, <2>1, <2>2
<1>4. PICK text : text = [lines |-> new, ends |-> ends]
  OBVIOUS
<1>5. text.lines = new
  BY <1>4
<1> QED
  BY <1>1, <1>3, <1>4, <1>5 DEF PatternsOf, SaysPattern

\* A text has such lines, the last of which ends or does not.
TextsOver(E) == [lines : Seq(LinesOver(E)), ends : BOOLEAN]

\* The texts that merging adds by itself, an empty line, what may be a default, and
\* the line that is looked for.
HasTheTexts(E) == "" \in E /\ Pointer.says \in E
EmptyLine == Plain("")
EntriesOf(E) == E \ {""}

\* Ending the last line keeps the lines, and adds an empty one at most.
LEMMA EndedKeeps ==
    ASSUME NEW E, HasTheTexts(E), NEW text \in TextsOver(E)
    PROVE  /\ text.lines \in Seq(LinesOver(E)) /\ Ended(text) \in Seq(LinesOver(E))
           /\ Len(text.lines) <= Len(Ended(text))
           /\ \A i \in 1 .. Len(text.lines) : Ended(text)[i] = text.lines[i]
           /\ \A i \in Len(text.lines) + 1 .. Len(Ended(text)) :
                  Ended(text)[i] = EmptyLine /\ SaysNothing(Ended(text)[i])
<1>1. PICK L, s, t, x : L = LinesOver(E) /\ s = text.lines /\ t = Ended(text) /\ x = EmptyLine
  OBVIOUS
<1>2. s \in Seq(L) /\ text.ends \in BOOLEAN
  BY <1>1 DEF TextsOver
<1>3. x \in L /\ SaysNothing(x)
  BY <1>1 DEF EmptyLine, HasTheTexts, Plain, LinesOver, SaysNothing
<1>4. t = s \/ (Len(s) = 0 /\ t = <<x>>)
  BY <1>1, <1>2, EmptySeq DEF Ended, EmptyLine
<1>5. Len(s) \in Nat
  BY <1>2, LenProperties
<1>6. CASE t = s
  <2>1. Len(s) <= Len(t) /\ Len(s) + 1 .. Len(t) = {}
    BY <1>5, <1>6
  <2> QED
    BY <1>1, <1>2, <1>6, <2>1, Zenon
<1>7. CASE Len(s) = 0 /\ t = <<x>>
  <2>1. t \in Seq(L) /\ Len(t) = 1 /\ t[1] = x
    BY <1>3, <1>7
  <2>2. /\ \A i \in 1 .. Len(s) : t[i] = s[i]
        /\ \A i \in Len(s) + 1 .. Len(t) : i = 1
    BY <1>7, <2>1
  <2>3. Len(s) <= Len(t)
    BY <1>7, <2>1
  <2>4. \A i \in Len(s) + 1 .. Len(t) : t[i] = x /\ SaysNothing(t[i])
    BY <1>3, <2>1, <2>2
  <2> QED
    BY <1>1, <1>2, <2>1, <2>2, <2>3, <2>4, Zenon
<1> QED
  BY <1>4, <1>6, <1>7

\* An entry's line is a pattern, and tells which entry it is.
LEMMA PatternOfEntry ==
    ASSUME NEW E, NEW p \in EntriesOf(E)
    PROVE  SaysPattern(Plain(p), p)
BY DEF EntriesOf, Plain, SaysPattern

\* Other entries have other lines.
LEMMA PlainsDiffer ==
    ASSUME NEW p, NEW q, p # q
    PROVE  Plain(p) # Plain(q)
<1>1. Plain(p).says = p /\ Plain(q).says = q
  BY DEF Plain
<1> QED
  BY <1>1

\* An entry that is no pattern of a text is none of its lines, nor an empty one.
LEMMA NoPatternNoLine ==
    ASSUME NEW E, NEW text, NEW p \in EntriesOf(E), p \notin PatternsOf(text)
    PROVE  /\ \A j \in DOMAIN text.lines : text.lines[j] # Plain(p)
           /\ EmptyLine # Plain(p)
<1>1. p # "" /\ Plain(p).says = p /\ ~Plain(p).comment /\ EmptyLine.says = ""
  BY DEF EntriesOf, Plain, EmptyLine
<1>2. ASSUME NEW j \in DOMAIN text.lines, text.lines[j] = Plain(p) PROVE FALSE
  <2>1. text.lines[j].says = p /\ ~text.lines[j].comment
    BY <1>1, <1>2
  <2>2. p \in PatternsOf(text)
    BY <1>1, <2>1 DEF PatternsOf
  <2> QED
    BY <2>2
<1> QED
  BY <1>1, <1>2

\* A pattern of a text is one of its lines.
LEMMA PatternHasALine ==
    ASSUME NEW text, NEW p \in PatternsOf(text)
    PROVE  \E j \in DOMAIN text.lines : SaysPattern(text.lines[j], p)
BY DEF PatternsOf, SaysPattern

\* What create_or_update_mcignore leaves, of any file.
LEMMA IgnoreMerges ==
    ASSUME NEW E, HasTheTexts(E), NEW text \in TextsOver(E), NEW defaults \in Seq(EntriesOf(E)),
           AllDiffer(defaults), NEW new, new = UpdateMcIgnore(text, defaults)
    PROVE  /\ AddsOnly(text.lines, new.lines)
           /\ \A i \in 1 .. Len(defaults) : defaults[i] \in PatternsOf(new)
<1>1. PICK L, P, F, s, mid : /\ L = LinesOver(E) /\ P = PatternsOf(text) /\ F = EntriesOf(E)
                             /\ s = text.lines /\ mid = Ended(text)
  OBVIOUS
<1>2. PICK missing, m : missing = Without(defaults, P)[Len(defaults)] /\ m = Len(defaults)
  OBVIOUS
<1>3. /\ s \in Seq(L) /\ mid \in Seq(L) /\ Len(s) <= Len(mid)
      /\ \A i \in 1 .. Len(s) : mid[i] = s[i]
      /\ \A i \in Len(s) + 1 .. Len(mid) : mid[i] = EmptyLine /\ SaysNothing(mid[i])
  BY <1>1, EndedKeeps
<1>4. missing \in Seq(F) /\ FoundSoFar(defaults, P, m, missing)
  BY <1>1, <1>2, WithoutFinds
<1>5. \A i \in 1 .. m : defaults[i] \in F
  BY <1>1, <1>2, ElementOfSeq
<1>6. ASSUME NEW q \in Seq(F), AllDiffer(q)
      PROVE  /\ Listed(q) \in Seq(L) /\ Len(Listed(q)) = Len(q)
             /\ \A i \in 1 .. Len(q) : Listed(q)[i] = Plain(q[i]) /\ SaysPattern(Listed(q)[i], q[i])
             /\ \A i \in 1 .. Len(q) : \A j \in 1 .. i - 1 : Listed(q)[j] # Listed(q)[i]
  <2>1. q \in Seq(E)
    <3>1. F \subseteq E
      BY <1>1 DEF EntriesOf
    <3> QED
      BY <3>1, SeqMonotonic
  <2>2. PICK t, k : t = Listed(q) /\ k = Len(q)
    OBVIOUS
  <2>3. t \in Seq(L) /\ Len(t) = k /\ \A i \in 1 .. k : t[i] = Plain(q[i])
    BY <1>1, <2>1, <2>2, ListedLines
  <2>4. ASSUME NEW i \in 1 .. k PROVE SaysPattern(t[i], q[i])
    <3>1. PICK p : p = q[i]
      OBVIOUS
    <3>2. p \in EntriesOf(E)
      BY <1>1, <2>2, <3>1, ElementOfSeq
    <3>3. t[i] = Plain(p)
      BY <2>3, <3>1
    <3> QED
      BY <3>1, <3>2, <3>3, PatternOfEntry
  <2>5. ASSUME NEW i \in 1 .. k, NEW j \in 1 .. i - 1 PROVE t[j] # t[i]
    <3>1. k \in Nat
      BY <2>2, LenProperties
    <3>2. j \in 1 .. k /\ j # i
      BY <3>1
    <3>3. q[j] # q[i]
      BY <1>6, <2>2, <3>2 DEF AllDiffer
    <3> QED
      BY <2>3, <3>2, <3>3, PlainsDiffer
  <2> QED
    BY <2>2, <2>3, <2>4, <2>5
<1>7. CASE text = NoText
  <2>1. PICK t, e : t = Listed(defaults) /\ e = <<>>
    OBVIOUS
  <2>2. /\ t \in Seq(L) /\ Len(t) = m /\ \A i \in 1 .. m : SaysPattern(t[i], defaults[i])
        /\ \A i \in 1 .. m : \A j \in 1 .. i - 1 : t[j] # t[i]
    BY <1>1, <1>2, <1>6, <2>1
  <2>3. s = e /\ e \in Seq(L) /\ Len(e) = 0 /\ e \o t = t
    BY <1>1, <1>7, <2>1, <2>2, EmptySeq, ConcatEmptySeq DEF NoText
  <2>4. new = [lines |-> t, ends |-> TRUE]
    BY <1>7, <2>1 DEF UpdateMcIgnore
  <2>5. AddsOnly(e, e \o t)
    <3>1. /\ Len(e) <= Len(e) /\ \A i \in 1 .. Len(e) : e[i] = e[i]
          /\ \A i \in Len(e) + 1 .. Len(e) : SaysNothing(e[i])
          /\ \A i \in 1 .. Len(t) : \A j \in 1 .. Len(e) : e[j] # t[i]
      BY <2>3
    <3> QED
      BY <2>2, <2>3, <3>1, AddsBehind
  <2>6. ASSUME NEW i \in 1 .. m PROVE defaults[i] \in PatternsOf(new)
    <3>1. \E j \in 1 .. Len(t) : SaysPattern(t[j], defaults[i])
      BY <2>2
    <3>2. defaults[i] \in PatternsOf([lines |-> e \o t, ends |-> TRUE])
      BY <2>2, <2>3, <3>1, PatternsBehind
    <3> QED
      BY <2>3, <2>4, <3>2
  <2>7. new.lines = t
    BY <2>4
  <2> QED
    BY <1>1, <1>2, <2>3, <2>5, <2>6, <2>7
<1>8. CASE text # NoText /\ missing = <<>>
  <2>1. new = text
    BY <1>1, <1>2, <1>8 DEF UpdateMcIgnore
  <2>2. \A i \in 1 .. m : defaults[i] \in P
    BY <1>1, <1>2, <1>8, NothingMissing
  <2>3. AddsOnly(s, s)
    BY <1>3, AddsNothing
  <2> QED
    BY <1>1, <1>2, <2>1, <2>2, <2>3
<1>9. CASE text # NoText /\ missing # <<>>
  <2>1. PICK t, k : t = Listed(missing) /\ k = Len(missing)
    OBVIOUS
  <2>2. AllDiffer(missing)
    BY <1>4 DEF FoundSoFar, AllDiffer
  <2>3. /\ t \in Seq(L) /\ Len(t) = k
        /\ \A i \in 1 .. k : t[i] = Plain(missing[i]) /\ SaysPattern(t[i], missing[i])
        /\ \A i \in 1 .. k : \A j \in 1 .. i - 1 : t[j] # t[i]
    BY <1>4, <1>6, <2>1, <2>2
  <2>4. new = [lines |-> mid \o t, ends |-> TRUE]
    BY <1>1, <1>2, <1>9, <2>1 DEF UpdateMcIgnore
  <2>5. ASSUME NEW i \in 1 .. k, NEW j \in 1 .. Len(mid) PROVE mid[j] # t[i]
    <3>1. PICK p : p = missing[i]
      OBVIOUS
    <3>2. p \in EntriesOf(E) /\ p \notin PatternsOf(text) /\ t[i] = Plain(p)
      <4>1. p \in F
        BY <1>4, <2>1, <3>1, ElementOfSeq
      <4>2. p \notin P
        BY <1>4, <2>1, <3>1 DEF FoundSoFar
      <4> QED
        BY <1>1, <2>3, <3>1, <4>1, <4>2
    <3>3. (\A l \in DOMAIN s : s[l] # t[i]) /\ EmptyLine # t[i]
      BY <1>1, <3>2, NoPatternNoLine
    <3>4. Len(s) \in Nat /\ Len(mid) \in Nat /\ DOMAIN s = 1 .. Len(s)
      BY <1>3, LenProperties
    <3>5. j \in DOMAIN s \/ j \in Len(s) + 1 .. Len(mid)
      BY <3>4
    <3> QED
      BY <1>3, <3>3, <3>4, <3>5
  <2>6. AddsOnly(s, mid \o t)
    BY <1>3, <2>3, <2>5, AddsBehind
  <2>7. ASSUME NEW i \in 1 .. m PROVE defaults[i] \in PatternsOf(new)
    <3>1. CASE defaults[i] \in P
      <4>1. PICK j \in DOMAIN text.lines : SaysPattern(text.lines[j], defaults[i])
        BY <1>1, <3>1, PatternHasALine
      <4>2. j \in 1 .. Len(s) /\ j \in 1 .. Len(mid) /\ mid[j] = s[j]
        <5>1. Len(s) \in Nat /\ Len(mid) \in Nat /\ DOMAIN s = 1 .. Len(s)
          BY <1>3, LenProperties
        <5> QED
          BY <1>1, <1>3, <4>1, <5>1
      <4>3. SaysPattern(mid[j], defaults[i])
        BY <1>1, <4>1, <4>2
      <4>4. PICK p : p = defaults[i]
        OBVIOUS
      <4>5. \E l \in 1 .. Len(mid) : SaysPattern(mid[l], p)
        BY <4>2, <4>3, <4>4
      <4>6. p \in PatternsOf([lines |-> mid \o t, ends |-> TRUE])
        BY <1>3, <2>3, <4>5, PatternsBehind
      <4> QED
        BY <2>4, <4>4, <4>6
    <3>2. CASE defaults[i] \notin P
      <4>1. PICK j \in 1 .. k : missing[j] = defaults[i]
        BY <1>4, <2>1, <3>2 DEF FoundSoFar
      <4>2. SaysPattern(t[j], defaults[i])
        BY <2>3, <4>1
      <4>3. PICK p : p = defaults[i]
        OBVIOUS
      <4>4. \E l \in 1 .. Len(t) : SaysPattern(t[l], p)
        BY <2>1, <2>3, <4>1, <4>2, <4>3
      <4>5. p \in PatternsOf([lines |-> mid \o t, ends |-> TRUE])
        BY <1>3, <2>3, <4>4, PatternsBehind
      <4> QED
        BY <2>4, <4>3, <4>5
    <3> QED
      BY <3>1, <3>2
  <2>8. new.lines = mid \o t
    BY <2>4
  <2> QED
    BY <1>1, <1>2, <2>6, <2>7, <2>8
<1> QED
  BY <1>7, <1>8, <1>9

\* Done again it changes nothing.
LEMMA IgnoreIsStable ==
    ASSUME NEW A, NEW new, NEW defaults \in Seq(A), AllDiffer(defaults),
           \A i \in 1 .. Len(defaults) : defaults[i] \in PatternsOf(new)
    PROVE  UpdateMcIgnore(new, defaults) = new
<1>1. PICK P, m, missing : /\ P = PatternsOf(new) /\ m = Len(defaults)
                           /\ missing = Without(defaults, P)[m]
  OBVIOUS
<1>2. missing = <<>>
  BY <1>1, NothingMissing
<1>3. CASE new # NoText
  BY <1>1, <1>2, <1>3 DEF UpdateMcIgnore
<1>4. CASE new = NoText
  <2>1. P = {}
    BY <1>1, <1>4 DEF PatternsOf, NoText
  <2>2. m = 0
    <3>1. m \in Nat /\ \A i \in 1 .. m : FALSE
      BY <1>1, <2>1, LenProperties
    <3> QED
      BY <3>1
  <2>3. DOMAIN defaults = {}
    <3>1. DOMAIN defaults = 1 .. Len(defaults)
      BY LenProperties
    <3> QED
      BY <1>1, <2>2, <3>1
  <2>4. Listed(defaults) = <<>>
    BY <2>3 DEF Listed
  <2> QED
    BY <1>4, <2>4 DEF UpdateMcIgnore, NoText
<1> QED
  BY <1>3, <1>4

\* What create_or_update_agents_md leaves, of any file.
LEMMA AgentsMerge ==
    ASSUME NEW E, HasTheTexts(E), NEW text \in TextsOver(E),
           NEW new, new = UpdateAgentsMd(text)
    PROVE  /\ AddsOnly(text.lines, new.lines)
           /\ new # NoText
           /\ \E i \in DOMAIN new.lines : HasHeader(new.lines[i])
<1>1. PICK L, s, mid, x, y : /\ L = LinesOver(E) /\ s = text.lines /\ mid = Ended(text)
                             /\ x = EmptyLine /\ y = Pointer
  OBVIOUS
<1>2. /\ s \in Seq(L) /\ mid \in Seq(L) /\ Len(s) <= Len(mid)
      /\ \A i \in 1 .. Len(s) : mid[i] = s[i]
      /\ \A i \in Len(s) + 1 .. Len(mid) : mid[i] = x /\ SaysNothing(mid[i])
  BY <1>1, EndedKeeps
<1>3. x \in L /\ y \in L /\ SaysNothing(x) /\ x # y /\ HasHeader(y)
  BY <1>1 DEF EmptyLine, HasTheTexts, LinesOver, Plain, Pointer, SaysNothing, HasHeader
<1>4. CASE text = NoText
  <2>1. PICK t, e : t = <<y>> /\ e = <<>>
    OBVIOUS
  <2>2. t \in Seq(L) /\ Len(t) = 1 /\ t[1] = y
    BY <1>3, <2>1
  <2>3. s = e /\ e \in Seq(L) /\ Len(e) = 0 /\ e \o t = t
    BY <1>1, <1>4, <2>1, <2>2, EmptySeq, ConcatEmptySeq DEF NoText
  <2>4. new = [lines |-> t, ends |-> TRUE]
    BY <1>1, <1>4, <2>1 DEF UpdateAgentsMd
  <2>5. AddsOnly(e, e \o t)
    <3>1. /\ Len(e) <= Len(e) /\ \A i \in 1 .. Len(e) : e[i] = e[i]
          /\ \A i \in Len(e) + 1 .. Len(e) : SaysNothing(e[i])
          /\ \A i \in 1 .. Len(t) : \A j \in 1 .. Len(e) : e[j] # t[i]
      BY <2>3
    <3>2. \A i \in 1 .. Len(t) : \A j \in 1 .. i - 1 : t[j] # t[i]
      BY <2>2
    <3> QED
      BY <2>2, <2>3, <3>1, <3>2, AddsBehind
  <2>6. new.lines = t /\ 1 \in DOMAIN t
    BY <2>2, <2>4, LenProperties
  <2>7. new # NoText
    <3>1. t # e
      BY <2>2, <2>3
    <3>2. NoText.lines = e
      BY <2>1 DEF NoText
    <3> QED
      BY <2>6, <3>1, <3>2
  <2>8. \E i \in DOMAIN new.lines : HasHeader(new.lines[i])
    BY <1>3, <2>2, <2>6
  <2>9. AddsOnly(text.lines, new.lines)
    BY <1>1, <2>3, <2>5, <2>6
  <2> QED
    BY <2>7, <2>8, <2>9
<1>5. CASE text # NoText /\ \E i \in DOMAIN text.lines : HasHeader(text.lines[i])
  <2>1. new = text
    BY <1>5 DEF UpdateAgentsMd
  <2>2. AddsOnly(s, s)
    BY <1>2, AddsNothing
  <2> QED
    BY <1>1, <1>5, <2>1, <2>2
<1>6. CASE text # NoText /\ ~ \E i \in DOMAIN text.lines : HasHeader(text.lines[i])
  <2>1. PICK t, b : t = <<x, y>> /\ b = Len(mid)
    OBVIOUS
  <2>2. t \in Seq(L) /\ Len(t) = 2 /\ t[1] = x /\ t[2] = y
    BY <1>3, <2>1
  <2>3. new = [lines |-> mid \o t, ends |-> TRUE]
    BY <1>1, <1>6, <2>1 DEF UpdateAgentsMd, EmptyLine
  <2>4. ASSUME NEW j \in 1 .. b PROVE mid[j] # y
    <3>1. CASE j \in 1 .. Len(s)
      <4>1. mid[j] = s[j] /\ j \in DOMAIN text.lines
        BY <1>1, <1>2, <3>1, LenProperties
      <4> QED
        BY <1>1, <1>3, <1>6, <4>1
    <3>2. CASE j \in Len(s) + 1 .. b
      BY <1>2, <1>3, <2>1, <3>2
    <3>3. Len(s) \in Nat /\ b \in Nat
      BY <1>2, <2>1, LenProperties
    <3> QED
      BY <3>1, <3>2, <3>3
  <2>5. ASSUME NEW i \in 1 .. Len(t)
        PROVE  \/ SaysNothing(t[i])
               \/ /\ \A j \in 1 .. Len(mid) : mid[j] # t[i]
                  /\ \A j \in 1 .. i - 1 : t[j] # t[i]
    <3>1. CASE i = 1
      BY <1>3, <2>2, <3>1
    <3>2. CASE i = 2
      <4>1. \A j \in 1 .. i - 1 : t[j] = x
        BY <2>2, <3>2
      <4> QED
        BY <1>3, <2>1, <2>2, <2>4, <3>2, <4>1
    <3>3. i = 1 \/ i = 2
      BY <2>2
    <3> QED
      BY <3>1, <3>2, <3>3
  <2>6. AddsOnly(s, mid \o t)
    BY <1>2, <2>2, <2>5, AddsBehind
  <2>7. PICK u : u = mid \o t
    OBVIOUS
  <2>8. u \in Seq(L) /\ Len(u) = b + 2 /\ b \in Nat /\ u[b + 2] = y
    <3>1. /\ u \in Seq(L) /\ Len(u) = b + 2
          /\ \A i \in 1 .. b + 2 : u[i] = IF i <= b THEN mid[i] ELSE t[i - b]
      BY <1>2, <2>1, <2>2, <2>7, ConcatProperties
    <3>2. b \in Nat
      BY <1>2, <2>1, LenProperties
    <3>3. PICK i : i = b + 2
      OBVIOUS
    <3>4. i \in 1 .. b + 2 /\ ~(i <= b) /\ i - b = 2
      BY <3>2, <3>3
    <3> QED
      BY <2>2, <3>1, <3>2, <3>3, <3>4
  <2>9. b + 2 \in DOMAIN u /\ u # <<>>
    BY <2>8, LenProperties, EmptySeq
  <2>10. new.lines = u
    BY <2>3, <2>7
  <2>11. new # NoText
    <3>1. NoText.lines = <<>>
      BY DEF NoText
    <3> QED
      BY <2>9, <2>10, <3>1
  <2>12. \E i \in DOMAIN new.lines : HasHeader(new.lines[i])
    BY <1>3, <2>8, <2>9, <2>10
  <2>13. AddsOnly(text.lines, new.lines)
    BY <1>1, <2>6, <2>7, <2>10
  <2> QED
    BY <2>11, <2>12, <2>13
<1> QED
  BY <1>4, <1>5, <1>6

\* Merging keeps the user's lines, doubles none, makes every default a pattern, and
\* done again changes nothing, for any text and any defaults that differ and are not
\* empty (create_or_update_mcignore, create_or_update_agents_md).
THEOREM MergingIsStable ==
    ASSUME NEW E, HasTheTexts(E), NEW text \in TextsOver(E),
           NEW defaults \in Seq(EntriesOf(E)), AllDiffer(defaults)
    PROVE  MergesOnce(text, defaults)
<1>1. PICK ignore, agents : /\ ignore = UpdateMcIgnore(text, defaults)
                            /\ agents = UpdateAgentsMd(text)
  OBVIOUS
<1>2. /\ AddsOnly(text.lines, ignore.lines)
      /\ \A i \in 1 .. Len(defaults) : defaults[i] \in PatternsOf(ignore)
  BY <1>1, IgnoreMerges
<1>3. /\ AddsOnly(text.lines, agents.lines)
      /\ agents # NoText
      /\ \E i \in DOMAIN agents.lines : HasHeader(agents.lines[i])
  BY <1>1, AgentsMerge
<1>4. UpdateMcIgnore(ignore, defaults) = ignore
  BY <1>2, IgnoreIsStable
<1>5. UpdateAgentsMd(agents) = agents
  BY <1>3 DEF UpdateAgentsMd
<1>6. ToSet(defaults) \subseteq PatternsOf(ignore)
  BY <1>2, LenProperties DEF ToSet
<1> QED
  BY <1>1, <1>2, <1>3, <1>4, <1>5, <1>6 DEF MergesOnce, AddsOnly, SaysNothing
-----------------------------------------------------------------------------
(* Search: what is found, and in which order.                              *)

\* An order in which any two of a set come one before the other.
IsOrderOf(order, S) ==
    /\ \A i \in S : <<i, i>> \notin order
    /\ \A i, j \in S : i # j => <<i, j>> \in order \/ <<j, i>> \in order
    /\ \A i, j, k \in S : <<i, j>> \in order /\ <<j, k>> \in order => <<i, k>> \in order

\* In an order the elements of a finite set have the places from 0 on, one each.
LEMMA PlacesAreTaken ==
    ASSUME NEW S, IsFiniteSet(S), NEW order, IsOrderOf(order, S)
    PROVE  /\ \A i \in S : Place(i, S, order) \in 0 .. Cardinality(S) - 1
           /\ \A i, j \in S : <<i, j>> \in order => Place(i, S, order) < Place(j, S, order)
           /\ \A n \in 0 .. Cardinality(S) - 1 : \E i \in S : Place(i, S, order) = n
<1>0. Cardinality(S) \in Nat
  BY FS_CardinalityType
<1>1. PICK before : before = [i \in S |-> {j \in S : <<j, i>> \in order}]
  OBVIOUS
<1>2. \A i \in S : Place(i, S, order) = Cardinality(before[i])
  BY <1>1 DEF Place
<1>3. ASSUME NEW i \in S PROVE IsFiniteSet(before[i]) /\ Cardinality(before[i]) \in Nat
  <2>1. before[i] \in SUBSET S
    BY <1>1
  <2> QED
    BY <2>1, FS_Subset, FS_CardinalityType
<1>4. ASSUME NEW i \in S PROVE Cardinality(before[i]) \in 0 .. Cardinality(S) - 1
  <2>1. before[i] \in SUBSET S /\ i \notin before[i]
    BY <1>1 DEF IsOrderOf
  <2>2. Cardinality(before[i]) <= Cardinality(S) /\ Cardinality(before[i]) # Cardinality(S)
    BY <2>1, FS_Subset
  <2> QED
    BY <1>0, <1>3, <2>2
<1>5. ASSUME NEW i \in S, NEW j \in S, <<i, j>> \in order
      PROVE  Cardinality(before[i]) < Cardinality(before[j])
  <2>1. before[i] \in SUBSET before[j] /\ i \in before[j] /\ i \notin before[i]
    BY <1>1, <1>5 DEF IsOrderOf
  <2>2. /\ Cardinality(before[i]) <= Cardinality(before[j])
        /\ Cardinality(before[i]) # Cardinality(before[j])
    BY <1>3, <2>1, FS_Subset
  <2> QED
    BY <1>3, <2>2
<1>6. PICK place : place = [i \in S |-> Cardinality(before[i])]
  OBVIOUS
<1>7. PICK T : T = 0 .. Cardinality(S) - 1
  OBVIOUS
<1>8. IsFiniteSet(T) /\ Cardinality(T) = Cardinality(S)
  BY <1>0, <1>7, FS_Interval
<1>9. place \in Injection(S, T)
  <2>1. place \in [S -> T]
    BY <1>4, <1>6, <1>7
  <2>2. ASSUME NEW i \in S, NEW j \in S, i # j PROVE place[i] # place[j]
    <3>1. CASE <<i, j>> \in order
      BY <1>3, <1>5, <1>6, <3>1
    <3>2. CASE <<j, i>> \in order
      BY <1>3, <1>5, <1>6, <3>2
    <3> QED
      BY <2>2, <3>1, <3>2 DEF IsOrderOf
  <2> QED
    BY <2>1, <2>2 DEF Injection, IsInjective
<1>10. place \in Surjection(S, T)
  BY <1>8, <1>9, FS_Injection
<1>11. \A n \in T : \E i \in S : place[i] = n
  BY <1>10 DEF Surjection
<1> QED
  BY <1>2, <1>4, <1>5, <1>6, <1>7, <1>11

\* A list in an order has every element once, those before others first.
LEMMA ArrangedIsComplete ==
    ASSUME NEW S, IsFiniteSet(S), NEW order, IsOrderOf(order, S),
           NEW list, list = Arranged(S, order)
    PROVE  /\ Cardinality(S) \in Nat /\ list \in Seq(S) /\ Len(list) = Cardinality(S)
           /\ ToSet(list) = S
           /\ \A n, m \in DOMAIN list : <<list[n], list[m]>> \in order => n < m
<1>0. Cardinality(S) \in Nat
  BY FS_CardinalityType
<1>1. PICK c \in Nat : c = Cardinality(S)
  BY <1>0
<1>2. PICK place : place = [i \in S |-> Place(i, S, order)]
  OBVIOUS
<1>3. /\ \A i \in S : place[i] \in 0 .. c - 1
      /\ \A i, j \in S : <<i, j>> \in order => place[i] < place[j]
      /\ \A n \in 0 .. c - 1 : \E i \in S : place[i] = n
  BY <1>1, <1>2, PlacesAreTaken
<1>4. list = [n \in 1 .. c |-> CHOOSE i \in S : place[i] = n - 1]
  BY <1>1, <1>2 DEF Arranged
<1>5. ASSUME NEW n \in 1 .. c PROVE list[n] \in S /\ place[list[n]] = n - 1
  <2>1. n - 1 \in 0 .. c - 1
    OBVIOUS
  <2>2. \E i \in S : place[i] = n - 1
    BY <1>3, <2>1
  <2> QED
    BY <1>4, <2>2
<1>6. DOMAIN list = 1 .. c
  BY <1>4
<1>7. list \in Seq(S) /\ Len(list) = c
  <2>1. list \in [1 .. c -> S]
    BY <1>4, <1>5
  <2> QED
    BY <2>1
<1>8. ASSUME NEW i \in S PROVE i \in ToSet(list)
  <2>1. PICK n : n = place[i] + 1
    OBVIOUS
  <2>2. n \in 1 .. c /\ place[i] = n - 1
    BY <1>3, <2>1
  <2>3. list[n] \in S /\ place[list[n]] = place[i]
    BY <1>5, <2>2
  <2>4. list[n] = i
    <3>1. SUFFICES ASSUME list[n] # i PROVE FALSE
      OBVIOUS
    <3>2. <<list[n], i>> \in order \/ <<i, list[n]>> \in order
      BY <2>3, <3>1 DEF IsOrderOf
    <3>3. place[i] \in Int
      BY <1>3
    <3>4. place[list[n]] < place[i] \/ place[i] < place[list[n]]
      BY <1>3, <2>3, <3>2
    <3> QED
      BY <2>3, <3>3, <3>4
  <2> QED
    BY <1>6, <2>2, <2>4 DEF ToSet
<1>9. ToSet(list) = S
  BY <1>5, <1>6, <1>8 DEF ToSet
<1>10. ASSUME NEW n \in DOMAIN list, NEW m \in DOMAIN list, <<list[n], list[m]>> \in order
       PROVE  n < m
  <2>1. n \in 1 .. c /\ m \in 1 .. c
    BY <1>6
  <2>2. place[list[n]] < place[list[m]]
    BY <1>3, <1>5, <1>10, <2>1
  <2> QED
    BY <1>5, <2>1, <2>2
<1> QED
  BY <1>0, <1>1, <1>7, <1>9, <1>10

\* A limit that a set does not exceed leaves it as it is.
LEMMA LimitKeepsAll ==
    ASSUME NEW S, IsFiniteSet(S), NEW order, IsOrderOf(order, S),
           NEW limit \in Nat, Cardinality(S) <= limit
    PROVE  UpTo(limit, S, order) = S
<1>1. Cardinality(S) \in Nat
  BY FS_CardinalityType
<1>2. \A i \in S : Place(i, S, order) < limit
  BY <1>1, PlacesAreTaken
<1> QED
  BY <1>2 DEF UpTo


\* The fields that have a weight.
Fields == {"path", "type", "purpose", "summary", "features", "tags", "exported_functions"}

\* What one row has of a term where it has weight, another has as well.
HasAsMuch(more, less, term, weight) ==
    \A f \in Fields : weight[f] > 0 /\ Occurs(less, f, term) => Occurs(more, f, term)

\* It has it in a field of weight where the other has not.
HasMore(more, less, term, weight) ==
    \E f \in Fields : weight[f] > 0 /\ Occurs(more, f, term) /\ ~ Occurs(less, f, term)

\* The weight of a term is a sum over the fields, none of them below zero.
LEMMA WeightGrows ==
    ASSUME NEW weight \in [Fields -> Nat], NEW more, NEW less, NEW term
    PROVE  /\ Weighed(more, term, weight) \in Nat
           /\ HasAsMuch(more, less, term, weight) =>
                  Weighed(less, term, weight) <= Weighed(more, term, weight)
           /\ HasAsMuch(more, less, term, weight) /\ HasMore(more, less, term, weight) =>
                  Weighed(less, term, weight) < Weighed(more, term, weight)
<1>1. PICK one \in [Fields -> Nat] :
          one = [f \in Fields |-> IF Occurs(more, f, term) THEN weight[f] ELSE 0]
  OBVIOUS
<1>2. PICK two \in [Fields -> Nat] :
          two = [f \in Fields |-> IF Occurs(less, f, term) THEN weight[f] ELSE 0]
  OBVIOUS
<1>3. Weighed(more, term, weight) =
          one["path"] + one["type"] + one["purpose"] + one["summary"]
          + one["features"] + one["tags"] + one["exported_functions"]
  BY <1>1 DEF Weighed, Fields
<1>4. Weighed(less, term, weight) =
          two["path"] + two["type"] + two["purpose"] + two["summary"]
          + two["features"] + two["tags"] + two["exported_functions"]
  BY <1>2 DEF Weighed, Fields
<1>5. HasAsMuch(more, less, term, weight) => \A f \in Fields : two[f] <= one[f]
  BY <1>1, <1>2 DEF HasAsMuch
<1>6. HasMore(more, less, term, weight) => \E f \in Fields : two[f] < one[f]
  BY <1>1, <1>2 DEF HasMore
<1>7. /\ one["path"] \in Nat /\ one["type"] \in Nat /\ one["purpose"] \in Nat
      /\ one["summary"] \in Nat /\ one["features"] \in Nat /\ one["tags"] \in Nat
      /\ one["exported_functions"] \in Nat
      /\ two["path"] \in Nat /\ two["type"] \in Nat /\ two["purpose"] \in Nat
      /\ two["summary"] \in Nat /\ two["features"] \in Nat /\ two["tags"] \in Nat
      /\ two["exported_functions"] \in Nat
  BY <1>1, <1>2 DEF Fields
<1>8. (\A f \in Fields : two[f] <= one[f]) =>
          /\ two["path"] <= one["path"] /\ two["type"] <= one["type"]
          /\ two["purpose"] <= one["purpose"] /\ two["summary"] <= one["summary"]
          /\ two["features"] <= one["features"] /\ two["tags"] <= one["tags"]
          /\ two["exported_functions"] <= one["exported_functions"]
  BY DEF Fields
<1>9. (\E f \in Fields : two[f] < one[f]) =>
          \/ two["path"] < one["path"] \/ two["type"] < one["type"]
          \/ two["purpose"] < one["purpose"] \/ two["summary"] < one["summary"]
          \/ two["features"] < one["features"] \/ two["tags"] < one["tags"]
          \/ two["exported_functions"] < one["exported_functions"]
  BY DEF Fields
<1>10. ASSUME NEW a1 \in Nat, NEW a2 \in Nat, NEW a3 \in Nat, NEW a4 \in Nat, NEW a5 \in Nat,
              NEW a6 \in Nat, NEW a7 \in Nat,
              NEW b1 \in Nat, NEW b2 \in Nat, NEW b3 \in Nat, NEW b4 \in Nat, NEW b5 \in Nat,
              NEW b6 \in Nat, NEW b7 \in Nat,
              b1 <= a1 /\ b2 <= a2 /\ b3 <= a3 /\ b4 <= a4 /\ b5 <= a5 /\ b6 <= a6 /\ b7 <= a7
       PROVE  /\ a1 + a2 + a3 + a4 + a5 + a6 + a7 \in Nat
              /\ b1 + b2 + b3 + b4 + b5 + b6 + b7 <= a1 + a2 + a3 + a4 + a5 + a6 + a7
              /\ (b1 < a1 \/ b2 < a2 \/ b3 < a3 \/ b4 < a4 \/ b5 < a5 \/ b6 < a6 \/ b7 < a7) =>
                     b1 + b2 + b3 + b4 + b5 + b6 + b7 < a1 + a2 + a3 + a4 + a5 + a6 + a7
  BY <1>10
<1>11. Weighed(more, term, weight) \in Nat
  BY <1>3, <1>7
<1>12. ASSUME HasAsMuch(more, less, term, weight)
       PROVE  Weighed(less, term, weight) <= Weighed(more, term, weight)
  BY <1>3, <1>4, <1>5, <1>7, <1>8, <1>10, <1>12
<1>13. ASSUME HasAsMuch(more, less, term, weight), HasMore(more, less, term, weight)
       PROVE  Weighed(less, term, weight) < Weighed(more, term, weight)
  BY <1>3, <1>4, <1>5, <1>6, <1>7, <1>8, <1>9, <1>10, <1>13
<1> QED
  BY <1>11, <1>12, <1>13

\* Both weights are numbers for the fields; the whole query has none in the type.
LEMMA Weights ==
    /\ DOMAIN TokenWeight = Fields
    /\ FullWeight \in [Fields -> Nat] /\ TokenWeight \in [Fields -> Nat]
    /\ \A f \in Fields : TokenWeight[f] > 0 /\ (FullWeight[f] > 0 <=> f # "type")
  BY DEF FullWeight, TokenWeight, Fields

\* The score of a row is a sum over the query and its tokens.
LEMMA ScoresSteps ==
    ASSUME NEW T, NEW row, NEW query, query.tokens \in Seq(T)
    PROVE  /\ Scores(row, query)[0] = Weighed(row, query.term, FullWeight)
           /\ \A n \in 1 .. Len(query.tokens) :
                  Scores(row, query)[n] = Scores(row, query)[n - 1]
                                          + Weighed(row, query.tokens[n], TokenWeight)
           /\ \A n \in 0 .. Len(query.tokens) : Scores(row, query)[n] \in Nat
<1>1. PICK tokens \in Seq(T) : tokens = query.tokens
  OBVIOUS
<1>2. PICK k \in Nat : k = Len(tokens)
  OBVIOUS
<1>3. \A t : Weighed(row, t, FullWeight) \in Nat /\ Weighed(row, t, TokenWeight) \in Nat
  BY WeightGrows, Weights
<1>4. PICK a \in Nat : a = Weighed(row, query.term, FullWeight)
  BY <1>3
<1>5. PICK w \in [1 .. k -> Nat] : w = [n \in 1 .. k |-> Weighed(row, tokens[n], TokenWeight)]
  BY <1>3
<1>6. PICK F : F = [x \in Nat \X Nat |-> x[1] + (IF x[2] \in 1 .. k THEN w[x[2]] ELSE 0)]
  OBVIOUS
<1>7. F \in [Nat \X Nat -> Nat]
  <2>1. ASSUME NEW x \in Nat \X Nat PROVE F[x] \in Nat
    <3>1. x[1] \in Nat /\ x[2] \in Nat
      OBVIOUS
    <3>2. x[2] \in 1 .. k => w[x[2]] \in Nat
      OBVIOUS
    <3> QED
      BY <1>6, <3>1, <3>2
  <2> QED
    BY <1>6, <2>1
<1>8. PICK h \in [0 .. k -> Nat] : h[0] = a /\ \A n \in 1 .. k : h[n] = F[<<h[n - 1], n>>]
  <2>1. Iterates(Nat, a, F, k) # {}
    BY <1>7, Iteration
  <2> QED
    BY <2>1 DEF Iterates
<1>9. \A n \in 1 .. k : h[n] = h[n - 1] + w[n]
  <2> SUFFICES ASSUME NEW n \in 1 .. k PROVE h[n] = h[n - 1] + w[n]
    OBVIOUS
  <2>1. h[n - 1] \in Nat /\ n \in Nat
    BY <1>8
  <2>2. F[<<h[n - 1], n>>] = h[n - 1] + w[n]
    BY <1>6, <2>1
  <2> QED
    BY <1>8, <2>2
<1>10. \A n \in 0 .. k :
          h[n] = IF n = 0 THEN Weighed(row, query.term, FullWeight)
                 ELSE h[n - 1] + Weighed(row, query.tokens[n], TokenWeight)
  <2> SUFFICES ASSUME NEW n \in 0 .. k
               PROVE  h[n] = IF n = 0 THEN Weighed(row, query.term, FullWeight)
                             ELSE h[n - 1] + Weighed(row, query.tokens[n], TokenWeight)
    OBVIOUS
  <2>1. CASE n = 0
    BY <1>4, <1>8, <2>1
  <2>2. CASE n # 0
    <3>1. n \in 1 .. k
      BY <2>2
    <3> QED
      BY <1>1, <1>5, <1>9, <2>2, <3>1
  <2> QED
    BY <2>1, <2>2
<1>11. h = [n \in 0 .. Len(query.tokens) |->
              IF n = 0 THEN Weighed(row, query.term, FullWeight)
              ELSE h[n - 1] + Weighed(row, query.tokens[n], TokenWeight)]
  BY <1>1, <1>2, <1>8, <1>10
<1>12. PICK g : g = Scores(row, query)
  OBVIOUS
<1>13. g = [n \in 0 .. Len(query.tokens) |->
              IF n = 0 THEN Weighed(row, query.term, FullWeight)
              ELSE g[n - 1] + Weighed(row, query.tokens[n], TokenWeight)]
  BY <1>11, <1>12, Zenon DEF Scores
<1>14. g[0] = Weighed(row, query.term, FullWeight)
  <2>1. 0 \in 0 .. Len(query.tokens)
    BY <1>1
  <2> QED
    BY <1>13, <2>1, Zenon
<1>15. \A n \in 1 .. Len(query.tokens) :
          g[n] = g[n - 1] + Weighed(row, query.tokens[n], TokenWeight)
  <2> SUFFICES ASSUME NEW n \in 1 .. Len(query.tokens)
               PROVE  g[n] = g[n - 1] + Weighed(row, query.tokens[n], TokenWeight)
    OBVIOUS
  <2>1. n \in 0 .. Len(query.tokens) /\ n # 0
    BY <1>1
  <2> QED
    BY <1>13, <2>1, Zenon
<1>16. PICK S : S = {n \in 0 .. k : g[n] \in Nat}
  OBVIOUS
<1>17. 0 .. k \subseteq S
  <2>1. 0 \in S
    BY <1>3, <1>14, <1>16
  <2>2. ASSUME NEW n \in 0 .. k - 1, n \in S PROVE n + 1 \in S
    <3>1. n + 1 \in 1 .. Len(query.tokens) /\ n + 1 - 1 = n
      BY <1>1, <1>2
    <3>2. g[n + 1] = g[n] + Weighed(row, query.tokens[n + 1], TokenWeight)
      BY <1>15, <3>1
    <3>3. Weighed(row, query.tokens[n + 1], TokenWeight) \in Nat /\ g[n] \in Nat
      BY <1>3, <1>16, <2>2
    <3> QED
      BY <1>16, <3>2, <3>3
  <2> QED
    BY <2>1, <2>2, InductionUpTo
<1> QED
  BY <1>1, <1>2, <1>12, <1>14, <1>15, <1>16, <1>17

\* A row that has as much of the query and of every token as another is not below
\* it, and is above it if it has more of one of them.
LEMMA ScoreGrows ==
    ASSUME NEW T, NEW query, query.tokens \in Seq(T), NEW more, NEW less,
           HasAsMuch(more, less, query.term, FullWeight),
           \A t \in ToSet(query.tokens) : HasAsMuch(more, less, t, TokenWeight)
    PROVE  /\ Score(more, query) \in Nat /\ Score(less, query) \in Nat
           /\ Score(less, query) <= Score(more, query)
           /\ \/ HasMore(more, less, query.term, FullWeight)
              \/ \E t \in ToSet(query.tokens) : HasMore(more, less, t, TokenWeight)
              => Score(less, query) < Score(more, query)
<1>1. PICK k \in Nat : k = Len(query.tokens)
  OBVIOUS
<1>2. PICK f, g : f = Scores(more, query) /\ g = Scores(less, query)
  OBVIOUS
<1>3. PICK u, v : /\ u = [n \in 1 .. k |-> Weighed(more, query.tokens[n], TokenWeight)]
                  /\ v = [n \in 1 .. k |-> Weighed(less, query.tokens[n], TokenWeight)]
  OBVIOUS
<1>4. /\ \A n \in 1 .. k : f[n] = f[n - 1] + u[n] /\ g[n] = g[n - 1] + v[n]
      /\ \A n \in 0 .. k : f[n] \in Nat /\ g[n] \in Nat
  BY <1>1, <1>2, <1>3, ScoresSteps
<1>5. /\ g[0] <= f[0]
      /\ HasMore(more, less, query.term, FullWeight) => g[0] < f[0]
  <2>1. /\ f[0] = Weighed(more, query.term, FullWeight)
        /\ g[0] = Weighed(less, query.term, FullWeight)
    BY <1>2, ScoresSteps
  <2>2. FullWeight \in [Fields -> Nat]
    BY Weights
  <2> QED
    BY <2>1, <2>2, WeightGrows
<1>6. ASSUME NEW n \in 1 .. k
      PROVE  /\ u[n] \in Nat /\ v[n] \in Nat /\ v[n] <= u[n]
             /\ HasMore(more, less, query.tokens[n], TokenWeight) => v[n] < u[n]
  <2>1. query.tokens[n] \in ToSet(query.tokens)
    BY <1>1 DEF ToSet
  <2>2. HasAsMuch(more, less, query.tokens[n], TokenWeight)
    BY <2>1
  <2>3. v[n] \in Nat /\ u[n] \in Nat
    BY <1>3, WeightGrows, Weights
  <2> QED
    BY <1>3, <2>2, <2>3, WeightGrows, Weights
<1>7. PICK S : S = {n \in 0 .. k :
                      /\ g[n] <= f[n]
                      /\ g[0] < f[0] => g[n] < f[n]
                      /\ \A m \in 1 .. n : v[m] < u[m] => g[n] < f[n]}
  OBVIOUS
<1>8. 0 .. k \subseteq S
  <2>1. 0 \in S
    BY <1>5, <1>7
  <2>2. ASSUME NEW n \in 0 .. k - 1, n \in S PROVE n + 1 \in S
    <3>1. n + 1 \in 1 .. k /\ n + 1 - 1 = n /\ n \in 0 .. k
      OBVIOUS
    <3>2. f[n + 1] = f[n] + u[n + 1] /\ g[n + 1] = g[n] + v[n + 1]
      BY <1>4, <3>1
    <3>3. /\ f[n] \in Nat /\ g[n] \in Nat
          /\ u[n + 1] \in Nat /\ v[n + 1] \in Nat /\ v[n + 1] <= u[n + 1]
      BY <1>4, <1>6, <3>1
    <3>4. g[n] <= f[n] /\ (g[0] < f[0] => g[n] < f[n])
      BY <1>7, <2>2
    <3>5. g[n + 1] <= f[n + 1] /\ (g[0] < f[0] => g[n + 1] < f[n + 1])
      BY <3>2, <3>3, <3>4
    <3>6. ASSUME NEW m \in 1 .. n + 1, v[m] < u[m] PROVE g[n + 1] < f[n + 1]
      <4>1. CASE m = n + 1
        BY <3>2, <3>3, <3>4, <3>6, <4>1
      <4>2. CASE m # n + 1
        <5>1. m \in 1 .. n
          BY <4>2
        <5>2. g[n] < f[n]
          BY <1>7, <2>2, <3>6, <5>1
        <5> QED
          BY <3>2, <3>3, <5>2
      <4> QED
        BY <4>1, <4>2
    <3> QED
      BY <1>7, <3>1, <3>5, <3>6
  <2> QED
    BY <2>1, <2>2, InductionUpTo
<1>9. k \in S /\ k \in 0 .. k
  BY <1>8
<1>10. /\ f[k] \in Nat /\ g[k] \in Nat /\ g[k] <= f[k]
       /\ HasMore(more, less, query.term, FullWeight) => g[k] < f[k]
  BY <1>4, <1>5, <1>7, <1>9
<1>11. ASSUME NEW t \in ToSet(query.tokens), HasMore(more, less, t, TokenWeight)
       PROVE  g[k] < f[k]
  <2>1. PICK n \in 1 .. k : t = query.tokens[n]
    BY <1>1 DEF ToSet
  <2> QED
    BY <1>6, <1>7, <1>9, <1>11, <2>1
<1> QED
  BY <1>1, <1>2, <1>10, <1>11 DEF Score


\* What a search may take for granted of a row: names are whole in lists only, a row
\* holds no blank, and where the query is, its tokens are.
IsRowFor(row, query) ==
    /\ \A f \in Texts : \A t : <<f, t, "whole">> \notin row
    /\ \A f : ~ Occurs(row, f, NoTerm)
    /\ \A f \in Fields, t \in ToSet(query.tokens) :
           Occurs(row, f, query.term) => Occurs(row, f, t)

\* What it may take for granted of a query: only a blank one has no tokens, and it asks
\* for one feature at most.
IsQuery(query) ==
    /\ query.limit \in Nat
    /\ query.term = NoTerm <=> query.tokens = <<>>
    /\ \A s, t \in query.features : s = t

\* The SQL selects the rows that have a token in a text or as a whole name.
LEMMA SelectsTheMatches ==
    ASSUME NEW query, NEW row, IsRowFor(row, query)
    PROVE  SqlSelects(row, query) <=>
               /\ query.tokens = <<>> \/ \E t \in ToSet(query.tokens) : IsMatched(row, t)
               /\ query.path # NoTerm => <<"path", query.path>> \in row
               /\ query.purpose # NoTerm => <<"purpose", query.purpose>> \in row
<1>1. "path" \in Texts /\ "purpose" \in Texts
  BY DEF Texts
<1>2. \A f \in Texts : \A t : Occurs(row, f, t) <=> <<f, t>> \in row
  BY DEF IsRowFor, Occurs
<1>3. (\E t \in ToSet(query.tokens) : IsMatched(row, t)) <=>
          \E i \in DOMAIN query.tokens :
              \/ \E f \in Texts : <<f, query.tokens[i]>> \in row
              \/ \E f \in Lists : <<f, query.tokens[i], "whole">> \in row
  BY DEF ToSet, IsMatched
<1> QED
  BY <1>1, <1>2, <1>3 DEF SqlSelects

\* What is visible of a row are the places of a token in a field of weight, and of the
\* whole query but in the type.
LEMMA VisibleMarks ==
    ASSUME NEW query, NEW row
    PROVE  /\ \A f \in Fields, t \in ToSet(query.tokens) :
                  <<f, t>> \in Visible(row, query) <=> Occurs(row, f, t)
           /\ \A f \in Fields : f # "type" =>
                  (<<f, query.term>> \in Visible(row, query) <=> Occurs(row, f, query.term))
           /\ \A mark \in Visible(row, query) :
                  \E f \in Fields :
                      \/ \E t \in ToSet(query.tokens) : mark = <<f, t>> /\ Occurs(row, f, t)
                      \/ mark = <<f, query.term>> /\ f # "type" /\ Occurs(row, f, query.term)
<1>1. Fields = (Texts \cup Lists) \ {"content"}
  BY DEF Fields, Texts, Lists
<1>2. PICK F, S, type : F = Fields /\ S = ToSet(query.tokens) /\ type = "type"
  OBVIOUS
<1>3. Visible(row, query) = {mark \in F \X (S \cup {query.term}) :
                                /\ Occurs(row, mark[1], mark[2])
                                /\ mark[1] = type => mark[2] \in S}
  BY <1>1, <1>2 DEF Visible
<1>4. ASSUME NEW mark \in Visible(row, query)
      PROVE  \E f \in F : \/ \E t \in S : mark = <<f, t>> /\ Occurs(row, f, t)
                          \/ mark = <<f, query.term>> /\ f # type /\ Occurs(row, f, query.term)
  <2>1. PICK f \in F, t \in S \cup {query.term} : mark = <<f, t>>
    BY <1>3
  <2>2. Occurs(row, f, t) /\ (f = type => t \in S)
    BY <1>3, <2>1
  <2> QED
    BY <2>1, <2>2
<1>5. \A f \in F, t \in S : <<f, t>> \in Visible(row, query) <=> Occurs(row, f, t)
  BY <1>3
<1>6. \A f \in F : f # type =>
          (<<f, query.term>> \in Visible(row, query) <=> Occurs(row, f, query.term))
  BY <1>3
<1> QED
  BY <1>2, <1>4, <1>5, <1>6

\* What is retained is visible, and has the feature asked for.
LEMMA RetainsTheVisible ==
    ASSUME NEW T, NEW query, query.tokens \in Seq(T), IsQuery(query),
           NEW row, IsRowFor(row, query)
    PROVE  Retains(row, query) <=>
               /\ query.tokens = <<>> \/ Visible(row, query) # {}
               /\ \A t \in query.features : Occurs(row, "features", t)
<1>1. (query.features = {} \/ \E t \in query.features : Occurs(row, "features", t)) <=>
          \A t \in query.features : Occurs(row, "features", t)
  BY DEF IsQuery
<1>2. (\E i \in DOMAIN query.tokens, f \in DOMAIN TokenWeight :
           Occurs(row, f, query.tokens[i])) <=>
          \E t \in ToSet(query.tokens), f \in Fields : Occurs(row, f, t)
  BY Weights DEF ToSet
<1>3. (\E t \in ToSet(query.tokens), f \in Fields : Occurs(row, f, t)) =>
          Visible(row, query) # {}
  BY VisibleMarks
<1>4. ASSUME query.tokens # <<>>, Visible(row, query) # {}
      PROVE  \E t \in ToSet(query.tokens), f \in Fields : Occurs(row, f, t)
  <2>1. PICK f \in Fields :
            (\E t \in ToSet(query.tokens) : Occurs(row, f, t)) \/ Occurs(row, f, query.term)
    BY <1>4, VisibleMarks
  <2>2. PICK t : t \in ToSet(query.tokens)
    <3>1. query.tokens[1] \in ToSet(query.tokens)
      BY <1>4, EmptySeq, LenProperties DEF ToSet
    <3> QED
      BY <3>1
  <2>3. Occurs(row, f, query.term) => Occurs(row, f, t)
    BY <2>2 DEF IsRowFor
  <2> QED
    BY <2>1, <2>2, <2>3
<1> QED
  BY <1>1, <1>2, <1>3, <1>4 DEF Retains


\* Both orders of the rows are orders of any of them.
LEMMA RowsAreOrdered ==
    ASSUME NEW T, NEW query, query.tokens \in Seq(T), NEW R, NEW rows \in Seq(R),
           NEW S \in SUBSET (DOMAIN rows)
    PROVE  IsOrderOf(Returned(rows), S) /\ IsOrderOf(Ranked(rows, query), S)
<1>1. PICK D \in SUBSET Nat : D = DOMAIN rows
  BY LenProperties
<1>2. PICK score : score = [i \in D |-> Score(rows[i], query)]
  OBVIOUS
<1>3. \A i \in D : score[i] \in Nat
  BY <1>2, ScoreGrows DEF HasAsMuch
<1>4. Returned(rows) = {p \in D \X D : p[1] < p[2]}
  BY <1>1 DEF Returned
<1>5. IsOrderOf(Returned(rows), S)
  <2>1. \A i, j \in S : <<i, j>> \in Returned(rows) <=> i < j
    BY <1>1, <1>4
  <2> QED
    BY <1>1, <2>1 DEF IsOrderOf
<1>6. ASSUME query.term # NoTerm PROVE IsOrderOf(Ranked(rows, query), S)
  <2>1. Ranked(rows, query) =
            {p \in D \X D : score[p[1]] > score[p[2]]
                            \/ (score[p[1]] = score[p[2]] /\ p[1] < p[2])}
    BY <1>1, <1>2, <1>6 DEF Ranked
  <2>2. \A i, j \in S : <<i, j>> \in Ranked(rows, query) <=>
                            score[i] > score[j] \/ (score[i] = score[j] /\ i < j)
    BY <1>1, <2>1
  <2>3. \A i \in S : score[i] \in Nat /\ i \in Nat
    BY <1>1, <1>3
  <2> QED
    BY <2>2, <2>3 DEF IsOrderOf
<1> QED
  BY <1>5, <1>6 DEF Ranked

\* A row in which the query is wherever it is in another row is ranked before it, or
\* is not seen to differ from it and keeps its place.
LEMMA RankedByWhatIsSeen ==
    ASSUME NEW T, NEW query, query.tokens \in Seq(T), IsQuery(query),
           NEW R, NEW rows \in Seq(R), \A i \in DOMAIN rows : IsRowFor(rows[i], query),
           NEW i \in DOMAIN rows, NEW j \in DOMAIN rows,
           Visible(rows[j], query) \subseteq Visible(rows[i], query),
           Visible(rows[j], query) = Visible(rows[i], query) => i < j
    PROVE  <<i, j>> \in Ranked(rows, query)
<1>1. i \in Nat /\ j \in Nat
  BY LenProperties
<1>2. PICK more, less : more = rows[i] /\ less = rows[j]
  OBVIOUS
<1>3. ASSUME query.term = NoTerm PROVE <<i, j>> \in Ranked(rows, query)
  <2>1. \A row : IsRowFor(row, query) => Visible(row, query) = {}
    <3>1. ToSet(query.tokens) = {}
      BY <1>3 DEF IsQuery, ToSet
    <3> QED
      BY <1>3, <3>1, VisibleMarks DEF IsRowFor
  <2>2. i < j
    BY <2>1
  <2> QED
    BY <1>3, <2>2 DEF Ranked, Returned
<1>4. ASSUME query.term # NoTerm PROVE <<i, j>> \in Ranked(rows, query)
  <2>1. \A one, two \in {more, less} :
            Visible(two, query) \subseteq Visible(one, query) =>
                /\ HasAsMuch(one, two, query.term, FullWeight)
                /\ \A t \in ToSet(query.tokens) : HasAsMuch(one, two, t, TokenWeight)
    BY VisibleMarks, Weights DEF HasAsMuch
  <2>2. /\ Score(more, query) \in Nat /\ Score(less, query) \in Nat
        /\ Score(less, query) <= Score(more, query)
    BY <1>2, <2>1, ScoreGrows
  <2>3. CASE Visible(less, query) = Visible(more, query)
    <3>1. Score(more, query) <= Score(less, query)
      BY <2>1, <2>3, ScoreGrows
    <3>2. Score(more, query) = Score(less, query) /\ i < j
      BY <1>2, <2>2, <2>3, <3>1
    <3> QED
      BY <1>2, <1>4, <3>2 DEF Ranked
  <2>4. CASE Visible(less, query) # Visible(more, query)
    <3>1. PICK mark \in Visible(more, query) : mark \notin Visible(less, query)
      BY <1>2, <2>4
    <3>2. \/ HasMore(more, less, query.term, FullWeight)
          \/ \E t \in ToSet(query.tokens) : HasMore(more, less, t, TokenWeight)
      BY <3>1, VisibleMarks, Weights DEF HasMore
    <3>3. Score(less, query) < Score(more, query)
      BY <1>2, <2>1, <3>2, ScoreGrows
    <3> QED
      BY <1>2, <1>4, <2>2, <3>3 DEF Ranked
  <2> QED
    BY <2>3, <2>4
<1> QED
  BY <1>3, <1>4

\* Whatever the rows, the query and its tokens: a search whose matches are within the
\* limit finds what matches and is visible, and ranks by what is seen of it.
THEOREM SearchesAreExact ==
    ASSUME NEW T, NEW query, query.tokens \in Seq(T), IsQuery(query),
           NEW R, NEW rows \in Seq(R), \A i \in DOMAIN rows : IsRowFor(rows[i], query)
    PROVE  IsExactSearch(rows, query)
<1>1. PICK D : D = DOMAIN rows
  OBVIOUS
<1>2. IsFiniteSet(D)
  <2>1. PICK n \in Nat : n = Len(rows)
    BY LenProperties
  <2>2. D = 1 .. n
    BY <1>1, <2>1, LenProperties
  <2> QED
    BY <2>2, FS_Interval
<1>3. PICK matches : matches = {i \in D :
            /\ query.tokens = <<>> \/ \E t \in ToSet(query.tokens) : IsMatched(rows[i], t)
            /\ query.path # NoTerm => <<"path", query.path>> \in rows[i]
            /\ query.purpose # NoTerm => <<"purpose", query.purpose>> \in rows[i]}
  OBVIOUS
<1>4. PICK shown : shown = {i \in matches :
            /\ query.tokens = <<>> \/ Visible(rows[i], query) # {}
            /\ \A t \in query.features : Occurs(rows[i], "features", t)}
  OBVIOUS
<1>5. PICK found : found = Search(rows, query)
  OBVIOUS
<1>6. PICK ranked : ranked = Ranked(rows, query)
  OBVIOUS
<1>7. SUFFICES ASSUME Cardinality(matches) <= query.limit
               PROVE  /\ Len(found) = Cardinality(shown)
                      /\ ToSet(found) = shown
                      /\ \A n, m \in DOMAIN found :
                            LET a == Visible(rows[found[n]], query)
                                b == Visible(rows[found[m]], query)
                            IN  IF a = b THEN found[n] < found[m] => n < m
                                ELSE b \subseteq a => n < m
  BY <1>1, <1>3, <1>4, <1>5 DEF IsExactSearch
<1>8. {i \in D : SqlSelects(rows[i], query)} = matches
  BY <1>1, <1>3, SelectsTheMatches
<1>9. /\ matches \in SUBSET D /\ IsFiniteSet(matches)
      /\ shown \in SUBSET D /\ IsFiniteSet(shown)
      /\ Cardinality(shown) <= query.limit
  <2>1. matches \in SUBSET D /\ shown \in SUBSET matches
    BY <1>3, <1>4
  <2>2. IsFiniteSet(matches) /\ IsFiniteSet(shown) /\ Cardinality(shown) <= Cardinality(matches)
    BY <1>2, <2>1, FS_Subset
  <2>3. Cardinality(shown) \in Nat /\ Cardinality(matches) \in Nat /\ query.limit \in Nat
    BY <2>2, FS_CardinalityType DEF IsQuery
  <2> QED
    BY <1>7, <2>1, <2>2, <2>3
<1>10. UpTo(query.limit, matches, Returned(rows)) = matches
  BY <1>1, <1>7, <1>9, RowsAreOrdered, LimitKeepsAll DEF IsQuery
<1>11. {i \in matches : Retains(rows[i], query)} = shown
  BY <1>1, <1>4, <1>9, RetainsTheVisible
<1>12. IsOrderOf(ranked, shown)
  BY <1>1, <1>6, <1>9, RowsAreOrdered
<1>13. UpTo(query.limit, shown, ranked) = shown
  BY <1>9, <1>12, LimitKeepsAll DEF IsQuery
<1>14. found = Arranged(shown, ranked)
  BY <1>1, <1>5, <1>6, <1>8, <1>10, <1>11, <1>13 DEF Search
<1>15. /\ found \in Seq(shown) /\ Len(found) = Cardinality(shown) /\ ToSet(found) = shown
       /\ \A n, m \in DOMAIN found : <<found[n], found[m]>> \in ranked => n < m
  BY <1>9, <1>12, <1>14, ArrangedIsComplete
<1>16. ASSUME NEW n \in DOMAIN found, NEW m \in DOMAIN found,
              Visible(rows[found[m]], query) \subseteq Visible(rows[found[n]], query),
              Visible(rows[found[m]], query) = Visible(rows[found[n]], query) =>
                  found[n] < found[m]
       PROVE  n < m
  <2>1. PICK i, j : i = found[n] /\ j = found[m]
    OBVIOUS
  <2>2. i \in D /\ j \in D
    BY <1>9, <1>15, <2>1 DEF ToSet
  <2>3. <<i, j>> \in ranked
    BY <1>1, <1>6, <1>16, <2>1, <2>2, RankedByWhatIsSeen
  <2> QED
    BY <1>15, <2>1, <2>3
<1> QED
  BY <1>15, <1>16
-----------------------------------------------------------------------------
(* The behaviours of Algorithms, for any bounds and any capacity.          *)

\* Rows in which the query occurs only where its tokens do.
SearchRows ==
    {row \in SUBSET (UNION Marks) :
        \A f \in Texts \cup Lists :
            <<f, QueryTerm>> \in row => <<f, "t">> \in row /\ <<f, "u">> \in row}

\* What the inputs of a behaviour are made of.
InputsOK ==
    /\ subject = "wildcard" => left \in Seq(Chars) /\ right \in Seq(Chars \cup {"*", "?"})
    /\ subject = "glob" => left \in Seq(Segments) /\ right \in Seq(PatternSegments)
    /\ subject = "root" => left \in Seq(Chars \cup {".", ".."})
    /\ subject = "cache" => left \in Seq(UsesOf(Keys))
    /\ subject = "search" => left \in Seq(SearchRows)
    /\ subject = "text" => left \in Seq(Lines)
    /\ subject = "slug" => left \in Seq(NameChars)

\* Every step adds an element of its alphabet to an input.
LEMMA InputGrows ==
    ASSUME NEW A, NEW B, NEW l \in Seq(A), NEW r \in Seq(B), NEW l2, NEW r2,
           \/ (\E x \in A : l2 = Append(l, x)) /\ r2 = r
           \/ (\E x \in B : r2 = Append(r, x)) /\ l2 = l
    PROVE  l2 \in Seq(A) /\ r2 \in Seq(B)
<1>1. CASE (\E x \in A : l2 = Append(l, x)) /\ r2 = r
  BY <1>1
<1>2. CASE (\E x \in B : r2 = Append(r, x)) /\ l2 = l
  BY <1>2
<1> QED
  BY <1>1, <1>2

\* An occurrence is a term in a field, or a whole name in a list.
LEMMA MarkKinds ==
    /\ \A mark \in UNION Marks :
           \/ \E f \in Texts \cup Lists, t \in {"t", "u", QueryTerm} : mark = <<f, t>>
           \/ \E f \in Lists : mark = <<f, "t", "whole">>
    /\ \A f, t, g, s, w : <<f, t>> # <<g, s, w>>
<1>1. \A mark \in UNION Marks :
          \/ \E f \in Texts \cup Lists, t \in {"t", "u", QueryTerm} : mark = <<f, t>>
          \/ \E f \in Lists : mark = <<f, "t", "whole">>
  <2> SUFFICES ASSUME NEW marks \in Marks, NEW mark \in marks
               PROVE  \/ \E f \in Texts \cup Lists, t \in {"t", "u", QueryTerm} : mark = <<f, t>>
                      \/ \E f \in Lists : mark = <<f, "t", "whole">>
    OBVIOUS
  <2>1. PICK F, L : F = Texts \cup Lists /\ L = Lists
    OBVIOUS
  <2>2. PICK one, two, both, whole :
            one = "t" /\ two = "u" /\ both = QueryTerm /\ whole = "whole"
    OBVIOUS
  <2>3. \/ marks \in {{<<f, t>>} : f \in F, t \in {one, two}}
        \/ marks \in {{<<f, one, whole>>} : f \in L}
        \/ marks \in {{<<f, t>> : t \in {one, two, both}} : f \in F}
    BY <2>1, <2>2 DEF Marks
  <2>4. CASE marks \in {{<<f, t>>} : f \in F, t \in {one, two}}
    BY <2>1, <2>2, <2>4
  <2>5. CASE marks \in {{<<f, one, whole>>} : f \in L}
    BY <2>1, <2>2, <2>5
  <2>6. CASE marks \in {{<<f, t>> : t \in {one, two, both}} : f \in F}
    <3>1. PICK f \in F : marks = {<<f, t>> : t \in {one, two, both}}
      BY <2>6
    <3> QED
      BY <2>1, <2>2, <3>1
  <2> QED
    BY <2>3, <2>4, <2>5, <2>6
<1>2. ASSUME NEW f, NEW t, NEW g, NEW s, NEW w PROVE <<f, t>> # <<g, s, w>>
  OBVIOUS
<1> QED
  BY <1>1, <1>2

\* Such a row stays one when something occurs in it.
LEMMA RowsGrow ==
    /\ {} \in SearchRows
    /\ \A row \in SearchRows, marks \in Marks : row \cup marks \in SearchRows
<1>1. {} \in SearchRows
  BY DEF SearchRows
<1>2. ASSUME NEW row \in SearchRows, NEW marks \in Marks
      PROVE  row \cup marks \in SearchRows
  <2>1. PICK F, one, two, both, whole :
            /\ F = Texts \cup Lists
            /\ one = "t" /\ two = "u" /\ both = QueryTerm /\ whole = "whole"
    OBVIOUS
  <2>2. both # one /\ both # two
    BY <2>1 DEF QueryTerm
  <2>3. \/ \E f \in F, t \in {one, two} : marks = {<<f, t>>}
        \/ \E f \in F : marks = {<<f, one, whole>>}
        \/ \E f \in F : marks = {<<f, t>> : t \in {one, two, both}}
    BY <2>1 DEF Marks
  <2>4. ASSUME NEW f \in F, <<f, both>> \in marks
        PROVE  <<f, one>> \in marks /\ <<f, two>> \in marks
    <3>1. ~ (\E g \in F, t \in {one, two} : marks = {<<g, t>>})
      BY <2>2, <2>4
    <3>2. ~ (\E g \in F : marks = {<<g, one, whole>>})
      BY <2>4, MarkKinds
    <3>3. PICK g \in F : marks = {<<g, t>> : t \in {one, two, both}}
      BY <2>3, <3>1, <3>2
    <3> QED
      BY <2>4, <3>3
  <2>5. row \cup marks \subseteq UNION Marks
    BY DEF SearchRows
  <2>6. \A f \in F : <<f, both>> \in row => <<f, one>> \in row /\ <<f, two>> \in row
    BY <2>1 DEF SearchRows
  <2>7. \A f \in F : <<f, both>> \in row \cup marks =>
                         <<f, one>> \in row \cup marks /\ <<f, two>> \in row \cup marks
    BY <2>4, <2>6
  <2> QED
    BY <2>1, <2>5, <2>7 DEF SearchRows
<1> QED
  BY <1>1, <1>2

\* So a step of GrowSearch keeps the rows.
LEMMA SearchGrows ==
    ASSUME left \in Seq(SearchRows), GrowSearch
    PROVE  left' \in Seq(SearchRows)
<1>1. PICK R : R = SearchRows
  OBVIOUS
<1>2. CASE left' = Append(left, {})
  <2>1. {} \in R
    BY <1>1, RowsGrow
  <2> QED
    BY <1>1, <1>2, <2>1
<1>3. ASSUME left # <<>>, NEW marks \in Marks,
             left' = [left EXCEPT ![Len(left)] = @ \cup marks]
      PROVE  left' \in Seq(SearchRows)
  <2>1. PICK n \in Nat : n = Len(left)
    OBVIOUS
  <2>2. left \in [1 .. n -> R] /\ n \in 1 .. n
    BY <1>1, <1>3, <2>1, EmptySeq, LenProperties
  <2>3. PICK row : row = left[n] \cup marks
    OBVIOUS
  <2>4. row \in R
    BY <1>1, <2>2, <2>3, RowsGrow
  <2>5. left' = [left EXCEPT ![n] = row]
    BY <1>3, <2>1, <2>3
  <2>6. left' \in [1 .. n -> R]
    BY <2>2, <2>4, <2>5
  <2> QED
    BY <1>1, <2>6
<1> QED
  BY <1>2, <1>3 DEF GrowSearch

\* The rows and the queries are what a search may take them for.
LEMMA SearchInputs ==
    ASSUME NEW query \in Queries
    PROVE  /\ query.tokens \in Seq({"t", "u"}) /\ IsQuery(query)
           /\ \A row \in SearchRows : IsRowFor(row, query)
<1>1. query.limit \in Nat /\ (query.features = {} \/ query.features = {"t"})
  BY DEF Queries
<1>2. \/ query.term = NoTerm /\ query.tokens = <<>>
      \/ query.term = "t" /\ query.tokens = <<"t">>
      \/ query.term = QueryTerm /\ query.tokens = <<"t", "u">>
  BY DEF Queries
<1>3. query.tokens \in Seq({"t", "u"}) /\ ToSet(query.tokens) \subseteq {"t", "u"}
  <2>1. PICK a, b, A, tokens :
            a = "t" /\ b = "u" /\ A = {"t", "u"} /\ tokens = query.tokens
    OBVIOUS
  <2>2. a \in A /\ b \in A /\ (tokens = <<>> \/ tokens = <<a>> \/ tokens = <<a, b>>)
    BY <1>2, <2>1
  <2>3. CASE tokens = <<>>
    BY <2>1, <2>3 DEF ToSet
  <2>4. CASE tokens = <<a>>
    <3>1. tokens \in Seq(A) /\ DOMAIN tokens = {1} /\ tokens[1] = a
      BY <2>2, <2>4
    <3> QED
      BY <2>1, <2>2, <3>1 DEF ToSet
  <2>5. CASE tokens = <<a, b>>
    <3>1. tokens \in Seq(A) /\ DOMAIN tokens = {1, 2} /\ tokens[1] = a /\ tokens[2] = b
      BY <2>2, <2>5
    <3> QED
      BY <2>1, <2>2, <3>1 DEF ToSet
  <2> QED
    BY <2>2, <2>3, <2>4, <2>5
<1>4. IsQuery(query)
  <2>1. query.term = NoTerm <=> query.tokens = <<>>
    <3>1. "t" # NoTerm /\ QueryTerm # NoTerm
      BY DEF NoTerm, QueryTerm
    <3>2. ASSUME NEW a, NEW b PROVE <<a>> # <<>> /\ <<a, b>> # <<>>
      OBVIOUS
    <3>3. CASE query.term = "t" /\ query.tokens = <<"t">>
      BY <3>1, <3>2, <3>3, Zenon
    <3>4. CASE query.term = QueryTerm /\ query.tokens = <<"t", "u">>
      BY <3>1, <3>2, <3>4, Zenon
    <3>5. CASE query.term = NoTerm /\ query.tokens = <<>>
      BY <3>5, Zenon
    <3> QED
      BY <1>2, <3>3, <3>4, <3>5, Zenon
  <2> QED
    BY <1>1, <2>1 DEF IsQuery
<1>5. ASSUME NEW row \in SearchRows PROVE IsRowFor(row, query)
  <2>1. row \subseteq UNION Marks
    BY DEF SearchRows
  <2>2. \A f, t : <<f, t, "whole">> \in row => f \in Lists /\ t = "t"
    <3> SUFFICES ASSUME NEW f, NEW t, <<f, t, "whole">> \in row PROVE f \in Lists /\ t = "t"
      OBVIOUS
    <3>1. <<f, t, "whole">> \in UNION Marks
      BY <2>1
    <3>2. ~ (\E g, s : <<f, t, "whole">> = <<g, s>>)
      BY MarkKinds
    <3>3. \E g \in Lists : <<f, t, "whole">> = <<g, "t", "whole">>
      BY <3>1, <3>2, MarkKinds
    <3> QED
      BY <3>3
  <2>3. \A f, t : <<f, t>> \in row => f \in Texts \cup Lists /\ t \in {"t", "u", QueryTerm}
    <3> SUFFICES ASSUME NEW f, NEW t, <<f, t>> \in row
                 PROVE  f \in Texts \cup Lists /\ t \in {"t", "u", QueryTerm}
      OBVIOUS
    <3>1. <<f, t>> \in UNION Marks
      BY <2>1
    <3>2. ~ (\E g, s, w : <<f, t>> = <<g, s, w>>)
      BY MarkKinds
    <3>3. \E g \in Texts \cup Lists, s \in {"t", "u", QueryTerm} : <<f, t>> = <<g, s>>
      BY <3>1, <3>2, MarkKinds
    <3> QED
      BY <3>3
  <2>4. \A f \in Texts : \A t : <<f, t, "whole">> \notin row
    BY <2>2 DEF Texts, Lists
  <2>5. \A f : ~ Occurs(row, f, NoTerm)
    <3>1. NoTerm # "t" /\ NoTerm # "u" /\ NoTerm # QueryTerm
      BY DEF NoTerm, QueryTerm
    <3> QED
      BY <2>2, <2>3, <3>1 DEF Occurs
  <2>6. ASSUME NEW f \in Fields, NEW t \in ToSet(query.tokens), Occurs(row, f, query.term)
        PROVE  Occurs(row, f, t)
    <3>1. query.term # NoTerm
      BY <2>5, <2>6
    <3>2. CASE query.term = "t" /\ query.tokens = <<"t">>
      <4>1. t = "t"
        BY <3>2 DEF ToSet
      <4> QED
        BY <2>6, <3>2, <4>1
    <3>3. CASE query.term = QueryTerm /\ query.tokens = <<"t", "u">>
      <4>1. <<f, QueryTerm>> \in row
        <5>1. QueryTerm # "t"
          BY DEF QueryTerm
        <5> QED
          BY <2>2, <2>6, <3>3, <5>1 DEF Occurs
      <4>2. <<f, "t">> \in row /\ <<f, "u">> \in row
        BY <2>3, <4>1 DEF SearchRows
      <4> QED
        BY <1>3, <4>2 DEF Occurs
    <3> QED
      BY <1>2, <3>1, <3>2, <3>3
  <2> QED
    BY <2>4, <2>5, <2>6 DEF IsRowFor
<1> QED
  BY <1>3, <1>4, <1>5

\* So the inputs of a behaviour are sequences over the alphabets.
LEMMA InputsGrow == AlgorithmsSpec => []InputsOK
<1>1. AlgorithmsInit => InputsOK
  BY DEF AlgorithmsInit, InputsOK
<1>2. InputsOK /\ [AlgorithmsNext]_inputs => InputsOK'
  <2> SUFFICES ASSUME InputsOK, [AlgorithmsNext]_inputs PROVE InputsOK'
    OBVIOUS
  <2>1. CASE UNCHANGED inputs
    BY <2>1 DEF InputsOK, inputs
  <2>2. CASE AlgorithmsNext
    <3> USE DEF InputsOK
    <3>0. subject' = subject
      BY <2>2 DEF AlgorithmsNext
    <3>1. CASE GrowWildcard
      <4>1. left' \in Seq(Chars) /\ right' \in Seq(Chars \cup {"*", "?"})
        <5>1. PICK A, B : A = Chars /\ B = Chars \cup {"*", "?"}
          OBVIOUS
        <5>2. left \in Seq(A) /\ right \in Seq(B)
          BY <3>1, <5>1 DEF GrowWildcard
        <5>3. \/ (\E ch \in A : left' = Append(left, ch)) /\ UNCHANGED right
              \/ (\E ch \in B : right' = Append(right, ch)) /\ UNCHANGED left
          BY <3>1, <5>1 DEF GrowWildcard
        <5>4. left' \in Seq(A) /\ right' \in Seq(B)
          BY <5>2, <5>3, InputGrows
        <5> QED
          BY <5>1, <5>4
      <4> QED
        BY <3>0, <3>1, <4>1 DEF GrowWildcard
    <3>2. CASE GrowGlob
      <4>1. left' \in Seq(Segments) /\ right' \in Seq(PatternSegments)
        <5>1. PICK A, B : A = Segments /\ B = PatternSegments
          OBVIOUS
        <5>2. left \in Seq(A) /\ right \in Seq(B)
          BY <3>2, <5>1 DEF GrowGlob
        <5>3. \/ (\E seg \in A : left' = Append(left, seg)) /\ UNCHANGED right
              \/ (\E seg \in B : right' = Append(right, seg)) /\ UNCHANGED left
          BY <3>2, <5>1 DEF GrowGlob
        <5>4. left' \in Seq(A) /\ right' \in Seq(B)
          BY <5>2, <5>3, InputGrows
        <5> QED
          BY <5>1, <5>4
      <4> QED
        BY <3>0, <3>2, <4>1 DEF GrowGlob
    <3>3. CASE GrowRoot
      <4>1. left' \in Seq(Chars \cup {".", ".."})
        BY <3>3 DEF GrowRoot
      <4> QED
        BY <3>0, <3>3, <4>1 DEF GrowRoot
    <3>4. CASE GrowCache
      <4>1. left' \in Seq(UsesOf(Keys))
        BY <3>4 DEF GrowCache, Uses, UsesOf
      <4> QED
        BY <3>0, <3>4, <4>1 DEF GrowCache
    <3>5. CASE GrowText
      <4>1. left' \in Seq(Lines)
        <5>1. PICK A : A = Lines
          OBVIOUS
        <5>2. left \in Seq(A) /\ (left' = left \/ \E line \in A : left' = Append(left, line))
          BY <3>5, <5>1 DEF GrowText
        <5>3. left' \in Seq(A)
          BY <5>2
        <5> QED
          BY <5>1, <5>3
      <4> QED
        BY <3>0, <3>5, <4>1 DEF GrowText
    <3>6. CASE GrowSlug
      <4>1. left' \in Seq(NameChars)
        <5>1. PICK A : A = NameChars
          OBVIOUS
        <5>2. left \in Seq(A) /\ \E ch \in A : left' = Append(left, ch)
          BY <3>6, <5>1 DEF GrowSlug
        <5>3. left' \in Seq(A)
          BY <5>2
        <5> QED
          BY <5>1, <5>3
      <4> QED
        BY <3>0, <3>6, <4>1 DEF GrowSlug
    <3>7. CASE GrowSearch
      <4>1. subject = "search"
        BY <3>7 DEF GrowSearch
      <4>2. left' \in Seq(SearchRows)
        BY <3>7, <4>1, SearchGrows
      <4> QED
        BY <3>0, <4>1, <4>2
    <3> QED
      BY <2>2, <3>1, <3>2, <3>3, <3>4, <3>5, <3>6, <3>7 DEF AlgorithmsNext
  <2> QED
    BY <2>1, <2>2
<1> QED
  BY <1>1, <1>2, PTL DEF AlgorithmsSpec

\* A root keeps exactly the names that no later ".." leaves, whatever the path.
THEOREM SpecRootIsExact == AlgorithmsSpec => []RootIsExact
<1>1. InputsOK => RootIsExact
  <2> SUFFICES ASSUME InputsOK, subject = "root", NEW absolute \in BOOLEAN
               PROVE  KeepsTheNames([absolute |-> absolute, comps |-> left])
    BY DEF RootIsExact
  <2>1. PICK path, C : /\ C = Chars \cup {".", ".."}
                       /\ path = [absolute |-> absolute, comps |-> left]
    OBVIOUS
  <2>2. path \in [absolute : BOOLEAN, comps : Seq(C)]
    BY <2>1 DEF InputsOK
  <2> QED
    BY <2>1, <2>2, RootsKeepTheNames
<1> QED
  BY <1>1, InputsGrow, PTL

\* After any uses the cache has exactly the keys most recently used, in that
\* order, and their last values, whatever its capacity.
THEOREM SpecCacheKeepsTheMostRecent == AlgorithmsSpec => []CacheKeepsTheMostRecent
<1>1. InputsOK => CacheKeepsTheMostRecent
  BY CachesKeepTheMostRecent DEF InputsOK, CacheKeepsTheMostRecent
<1> QED
  BY <1>1, InputsGrow, PTL

\* The scan of a segment finds a match whenever there is one, and only then, and
\* so does the matching of a whole path, whatever their lengths.
THEOREM SpecPatternsAreExact == AlgorithmsSpec => []PatternsAreExact
<1>1. ASSUME InputsOK, subject = "wildcard"
      PROVE  WildcardMatch(left, right) <=> FallsInto(left, right, "*", FitsChar)
  <2>1. left \in Seq(Chars) /\ right \in Seq(Chars \cup {"*", "?"})
    BY <1>1 DEF InputsOK
  <2> QED
    BY <2>1, WildcardIsExact
<1>2. ASSUME InputsOK, subject = "glob", \E i \in DOMAIN right : HasStar(right[i])
      PROVE  Matches(left, right) <=> FallsInto(left, right, DoubleStar, FitsSegment)
  <2>1. left \in Seq(Segments) /\ right \in Seq(PatternSegments)
    BY <1>2 DEF InputsOK
  <2>2. PICK C : C = {"a", "b", "*"}
    OBVIOUS
  <2>3. Segments \subseteq Seq(C) /\ PatternSegments \subseteq Seq(C)
    BY <2>2 DEF Segments, PatternSegments, Star, DoubleStar
  <2>4. PICK A, B : A = Segments /\ B = PatternSegments
    OBVIOUS
  <2>5. left \in Seq(Seq(C)) /\ right \in Seq(Seq(C))
    BY <2>1, <2>3, <2>4
  <2>6. MatchSegments(left, right)[<<0, 0>>]
           <=> FallsInto(left, right, DoubleStar, FitsSegment)
    BY <2>5, SegmentsAreExact
  <2> QED
    BY <1>2, <2>6 DEF Matches
<1>3. InputsOK => PatternsAreExact
  BY <1>1, <1>2 DEF PatternsAreExact
<1> QED
  BY <1>3, InputsGrow, PTL

\* Registering a project again changes neither the texts nor the slug, and the
\* first time loses and doubles nothing, whatever the text and the name.
THEOREM SpecScaffoldIsStable == AlgorithmsSpec => []ScaffoldIsStable
<1>1. ASSUME InputsOK, subject = "text"
      PROVE  MergesOnce([lines |-> left, ends |-> right # <<>>], Defaults)
  <2>1. PICK E, A, D : /\ E = {"target", "build", "src", "", Pointer.says, Deeper}
                       /\ A = Lines /\ D = EntriesOf(E)
    OBVIOUS
  <2>2. HasTheTexts(E)
    BY <2>1 DEF HasTheTexts
  <2>3. A \subseteq LinesOver(E)
    <3>1. ASSUME NEW p \in E, NEW b \in BOOLEAN
          PROVE  [says |-> p, comment |-> b] \in LinesOver(E)
      BY DEF LinesOver
    <3>2. \A p \in E : Plain(p) \in LinesOver(E)
      BY <3>1 DEF Plain
    <3>3. Pointer \in LinesOver(E)
      <4>1. PICK p : p = Pointer.says
        OBVIOUS
      <4>2. p \in E /\ Pointer = Plain(p)
        BY <2>1, <4>1 DEF Pointer, Plain
      <4> QED
        BY <3>2, <4>2
    <3>4. "target" \in E /\ "build" \in E /\ "src" \in E /\ "" \in E
      BY <2>1
    <3>5. [says |-> "target", comment |-> TRUE] \in LinesOver(E)
      BY <3>1, <3>4
    <3>6. Plain(Deeper) \in LinesOver(E)
      BY <2>1, <3>2
    <3>7. /\ Plain("target") \in LinesOver(E) /\ Plain("build") \in LinesOver(E)
          /\ Plain("src") \in LinesOver(E) /\ Plain("") \in LinesOver(E)
      BY <3>2, <3>4
    <3> QED
      BY <2>1, <3>3, <3>5, <3>6, <3>7, Zenon DEF Lines
  <2>4. left \in Seq(A)
    BY <1>1, <2>1 DEF InputsOK
  <2>5. left \in Seq(LinesOver(E))
    BY <2>3, <2>4, SeqMonotonic
  <2>6. PICK b \in BOOLEAN : b = (right # <<>>)
    OBVIOUS
  <2>7. PICK text : text = [lines |-> left, ends |-> b]
    OBVIOUS
  <2>8. text \in TextsOver(E)
    BY <2>5, <2>7 DEF TextsOver
  <2>9. Defaults \in Seq(D) /\ AllDiffer(Defaults)
    <3>1. "target" \in D /\ "build" \in D
      BY <2>1 DEF EntriesOf
    <3>2. Defaults \in Seq(D)
      BY <3>1 DEF Defaults
    <3>3. AllDiffer(Defaults)
      BY DEF Defaults, AllDiffer
    <3> QED
      BY <3>2, <3>3
  <2>10. MergesOnce(text, Defaults)
    BY <2>1, <2>2, <2>8, <2>9, MergingIsStable
  <2> QED
    BY <2>6, <2>7, <2>10
<1>2. ASSUME InputsOK, subject = "slug"
      PROVE  SlugIsStable(left, LowerCase)
  <2>1. PICK A : A = NameChars
    OBVIOUS
  <2>2. left \in Seq(A)
    BY <1>2, <2>1 DEF InputsOK
  <2>3. /\ Dash \in A /\ LowerCase \in [A -> A] /\ LowerCase[Dash] = Dash
        /\ \A a \in A : LowerCase[LowerCase[a]] = LowerCase[a]
    BY <2>1 DEF NameChars, LowerCase, Dash
  <2> QED
    BY <2>2, <2>3, SlugsAreStable
<1>3. InputsOK => ScaffoldIsStable
  BY <1>1, <1>2 DEF ScaffoldIsStable
<1> QED
  BY <1>3, InputsGrow, PTL

\* A search whose matches are within the limit finds what matches and is visible, and
\* ranks it by what is seen of it, whatever the rows.
THEOREM SpecSearchIsExact == AlgorithmsSpec => []SearchIsExactUnderTheLimit
<1>1. ASSUME InputsOK, subject = "search", NEW query \in Queries
      PROVE  IsExactSearch(left, query)
  <2>1. PICK R : R = SearchRows
    OBVIOUS
  <2>2. left \in Seq(R) /\ \A i \in DOMAIN left : left[i] \in R
    BY <1>1, <2>1 DEF InputsOK
  <2>3. \A i \in DOMAIN left : IsRowFor(left[i], query)
    BY <2>1, <2>2, SearchInputs
  <2> QED
    BY <2>2, <2>3, SearchInputs, SearchesAreExact
<1>2. InputsOK => SearchIsExactUnderTheLimit
  BY <1>1 DEF SearchIsExactUnderTheLimit
<1> QED
  BY <1>2, InputsGrow, PTL
=============================================================================
