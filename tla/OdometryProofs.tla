--------------------------- MODULE OdometryProofs ---------------------------
(***************************************************************************)
(* The replies add up to the pose of the message they are stamped with,    *)
(* whatever the base reports: differences of absolute poses, for one       *)
(* calling thread, and sums of increments, for any number of them.         *)
(***************************************************************************)
EXTENDS Odometry, SequenceTheorems, WellFoundedInduction, TLAPS

-----------------------------------------------------------------------------
(* Composition in the plane.                                               *)

\* The four headings and what they make of a movement.
LEMMA TrigCases ==
  ASSUME NEW h \in Headings
  PROVE  \/ h = 0 /\ Cos(h) = 1  /\ Sin(h) = 0
         \/ h = 1 /\ Cos(h) = 0  /\ Sin(h) = 1
         \/ h = 2 /\ Cos(h) = -1 /\ Sin(h) = 0
         \/ h = 3 /\ Cos(h) = 0  /\ Sin(h) = -1
  BY DEF Headings, Cos, Sin

(* The movement between two poses is a movement, and leads from the one to *)
(* the other: inverseTimes is undone by composition, headings included.    *)
LEMMA MovedInverse ==
  ASSUME NEW a \in Pose, NEW b \in Pose
  PROVE  /\ InverseTimes(a, b) \in Movement
         /\ Moved(a, InverseTimes(a, b)) = b
  <1> DEFINE dx == b.x - a.x
             dy == b.y - a.y
             dh == ConstraitRadNegativePiToPi(b.h - a.h)
  <1>1. a.x \in Int /\ a.y \in Int /\ b.x \in Int /\ b.y \in Int
        /\ a.h \in Headings /\ b.h \in Headings
    BY DEF Pose
  <1>2. dh \in -2..1 /\ (a.h + dh) % 4 = b.h
    BY <1>1 DEF ConstraitRadNegativePiToPi, Headings
  <1>3. /\ Cos(a.h) \in Int /\ Sin(a.h) \in Int
        /\ dx * Cos(a.h) + dy * Sin(a.h) \in Int
        /\ dy * Cos(a.h) - dx * Sin(a.h) \in Int
    BY <1>1, TrigCases
  <1>4. InverseTimes(a, b) =
          [x |-> dx * Cos(a.h) + dy * Sin(a.h),
           y |-> dy * Cos(a.h) - dx * Sin(a.h),
           h |-> dh]
    BY DEF InverseTimes
  <1> DEFINE m == InverseTimes(a, b)
  <1>5. m \in Movement
    BY <1>2, <1>3, <1>4 DEF Movement
  <1>6. /\ a.x + m.x * Cos(a.h) - m.y * Sin(a.h) = b.x
        /\ a.y + m.x * Sin(a.h) + m.y * Cos(a.h) = b.y
    BY <1>1, <1>4, TrigCases
  <1>7. (a.h + m.h) % 4 = b.h
    BY <1>2, <1>4
  <1>8. Moved(a, m) = [x |-> b.x, y |-> b.y, h |-> b.h]
    BY <1>6, <1>7 DEF Moved
  <1> QED
    BY <1>5, <1>8 DEF Pose

\* What is added up by composition in the plane: any heading will do for a step.
Displacement == Pose \cup Movement

LEMMA MovedIsPose ==
  ASSUME NEW a \in Pose, NEW d \in Displacement
  PROVE  Moved(a, d) \in Pose
<1>1. /\ a.x \in Int /\ a.y \in Int /\ a.h \in Headings
      /\ d.x \in Int /\ d.y \in Int /\ d.h \in Int
  BY DEF Displacement, Pose, Movement, Headings
<1>2. /\ a.x + d.x * Cos(a.h) - d.y * Sin(a.h) \in Int
      /\ a.y + d.x * Sin(a.h) + d.y * Cos(a.h) \in Int
  BY <1>1, TrigCases
<1>3. (a.h + d.h) % 4 \in Headings
  BY <1>1 DEF Headings
<1> QED
  BY <1>2, <1>3 DEF Moved, Pose

\* The headings add up, and so do their cosines and sines.
LEMMA TurnedTwice ==
  ASSUME NEW g \in Headings, NEW h \in Headings
  PROVE  /\ Cos((g + h) % 4) = Cos(g) * Cos(h) - Sin(g) * Sin(h)
         /\ Sin((g + h) % 4) = Sin(g) * Cos(h) + Cos(g) * Sin(h)
<1>1. (g + h) % 4 \in Headings /\ (g + h) % 4 = IF g + h < 4 THEN g + h ELSE g + h - 4
  BY DEF Headings
<1> QED
  BY <1>1, TrigCases

\* The sines and cosines of headings.
Units == {-1, 0, 1}

\* A sum multiplied by a sine or cosine.
LEMMA Distributed ==
  ASSUME NEW p \in Int, NEW q \in Int, NEW r \in Int,
         NEW u \in Units, NEW v \in Units, NEW w \in Units
  PROVE  /\ (p + q * v - r * w) * u = p * u + q * (u * v) - r * (u * w)
         /\ (p + q * v + r * w) * u = p * u + q * (u * v) + r * (u * w)
<1> USE DEF Units
<1>1. \A z \in Int : z * 0 = 0 /\ z * 1 = z /\ z * (-1) = -z
  OBVIOUS
<1>2. CASE u = 0
  BY <1>1, <1>2
<1>3. CASE u = 1
  BY <1>1, <1>3
<1>4. CASE u = -1
  <2>1. v = 0 \/ v = 1 \/ v = -1
    OBVIOUS
  <2>2. w = 0 \/ w = 1 \/ w = -1
    OBVIOUS
  <2>3. q * (u * v) = -(q * v) /\ r * (u * w) = -(r * w)
    BY <1>1, <1>4, <2>1, <2>2
  <2> QED
    BY <1>1, <1>4, <2>1, <2>2
<1> QED
  BY <1>2, <1>3, <1>4

\* Composition is associative: b and then d, seen from a.
LEMMA MovedAssociative ==
  ASSUME NEW a \in Pose, NEW b \in Pose, NEW d \in Displacement
  PROVE  Moved(a, Moved(b, d)) = Moved(Moved(a, b), d)
<1>1. /\ a.x \in Int /\ a.y \in Int /\ a.h \in Headings
      /\ b.x \in Int /\ b.y \in Int /\ b.h \in Headings
      /\ d.x \in Int /\ d.y \in Int /\ d.h \in Int
  BY DEF Displacement, Pose, Movement, Headings
<1> DEFINE bd == Moved(b, d)
           ab == Moved(a, b)
<1>2. /\ bd.x = b.x + d.x * Cos(b.h) - d.y * Sin(b.h)
      /\ bd.y = b.y + d.x * Sin(b.h) + d.y * Cos(b.h)
      /\ bd.h = (b.h + d.h) % 4
      /\ ab.x = a.x + b.x * Cos(a.h) - b.y * Sin(a.h)
      /\ ab.y = a.y + b.x * Sin(a.h) + b.y * Cos(a.h)
      /\ ab.h = (a.h + b.h) % 4
  BY DEF Moved
<1>3. /\ Cos(ab.h) = Cos(a.h) * Cos(b.h) - Sin(a.h) * Sin(b.h)
      /\ Sin(ab.h) = Sin(a.h) * Cos(b.h) + Cos(a.h) * Sin(b.h)
  BY <1>1, <1>2, TurnedTwice
<1> HIDE DEF bd, ab
<1>4. (a.h + bd.h) % 4 = (ab.h + d.h) % 4
  BY <1>1, <1>2 DEF Headings
<1>5. /\ a.x + bd.x * Cos(a.h) - bd.y * Sin(a.h) = ab.x + d.x * Cos(ab.h) - d.y * Sin(ab.h)
      /\ a.y + bd.x * Sin(a.h) + bd.y * Cos(a.h) = ab.y + d.x * Sin(ab.h) + d.y * Cos(ab.h)
  <2> DEFINE CA == Cos(a.h)
             SA == Sin(a.h)
             CB == Cos(b.h)
             SB == Sin(b.h)
  <2>1. CA \in Units /\ SA \in Units /\ CB \in Units /\ SB \in Units
    BY <1>1, TrigCases DEF Units
  <2> HIDE DEF CA, SA, CB, SB
  <2>2. b.x \in Int /\ b.y \in Int /\ d.x \in Int /\ d.y \in Int
    BY <1>1
  <2>3. (b.x + d.x * CB - d.y * SB) * CA = b.x * CA + d.x * (CA * CB) - d.y * (CA * SB)
    BY <2>1, <2>2, Distributed
  <2>4. (b.y + d.x * SB + d.y * CB) * SA = b.y * SA + d.x * (SA * SB) + d.y * (SA * CB)
    BY <2>1, <2>2, Distributed
  <2>5. (b.x + d.x * CB - d.y * SB) * SA = b.x * SA + d.x * (SA * CB) - d.y * (SA * SB)
    BY <2>1, <2>2, Distributed
  <2>6. (b.y + d.x * SB + d.y * CB) * CA = b.y * CA + d.x * (CA * SB) + d.y * (CA * CB)
    BY <2>1, <2>2, Distributed
  <2> QED
    BY <1>1, <1>2, <1>3, <2>1, <2>3, <2>4, <2>5, <2>6 DEF Units, CA, SA, CB, SB
<1>6. /\ Moved(a, bd) = [x |-> a.x + bd.x * Cos(a.h) - bd.y * Sin(a.h),
                         y |-> a.y + bd.x * Sin(a.h) + bd.y * Cos(a.h),
                         h |-> (a.h + bd.h) % 4]
      /\ Moved(ab, d) = [x |-> ab.x + d.x * Cos(ab.h) - d.y * Sin(ab.h),
                         y |-> ab.y + d.x * Sin(ab.h) + d.y * Cos(ab.h),
                         h |-> (ab.h + d.h) % 4]
  BY DEF Moved
<1>7. Moved(a, bd) = Moved(ab, d)
  BY <1>4, <1>5, <1>6
<1> QED
  BY <1>7 DEF bd, ab

-----------------------------------------------------------------------------
(* Sums of increments.                                                     *)

\* Induction: what fails for some natural number fails for a least one.
LEMMA LeastNat ==
  ASSUME NEW T \in SUBSET Nat, T # {}
  PROVE  \E n \in T : \A m \in T : n <= m
<1>1. \E n \in T : \A m \in T : ~(<<m, n>> \in OpToRel(<, Nat))
  BY NatLessThanWellFounded, WFMin
<1>2. \A m, n \in Nat : <<m, n>> \in OpToRel(<, Nat) <=> m < n
  BY DEF OpToRel
<1>3. \E R : /\ \E n \in T : \A m \in T : ~(<<m, n>> \in R)
             /\ \A m, n \in Nat : <<m, n>> \in R <=> m < n
  BY <1>1, <1>2, Zenon
<1>4. PICK n \in T : \A m \in T : ~(m < n)
  BY <1>3, Zenon
<1>5. \A m \in T : m \in Nat
  OBVIOUS
<1>6. \A m \in T : n <= m
  BY <1>4, <1>5
<1> QED
  BY <1>6

\* What Sums is meant to be for the first n of the steps.
SumsUp(f, steps, n) ==
  f[0] = Zero /\ \A k \in 1..n : f[k] = Moved(f[k - 1], steps[k])

\* There is one such function, by the least argument at which two differ.
LEMMA SumsAgree ==
  ASSUME NEW n \in Nat, NEW steps, NEW f, NEW g, SumsUp(f, steps, n), SumsUp(g, steps, n)
  PROVE  \A k \in 0..n : f[k] = g[k]
<1> DEFINE T == {k \in 0..n : f[k] # g[k]}
<1> SUFFICES ASSUME T # {} PROVE FALSE
  OBVIOUS
<1>1. PICK k \in T : \A m \in T : k <= m
  <2>1. T \in SUBSET Nat
    OBVIOUS
  <2> HIDE DEF T
  <2> QED
    BY <2>1, LeastNat
<1>2. k \in 1..n /\ k - 1 \in 0..n /\ f[k - 1] = g[k - 1]
  BY <1>1 DEF SumsUp
<1> QED
  BY <1>1, <1>2 DEF SumsUp

\* And there is one, by the least length that has none.
LEMMA SumsExist ==
  ASSUME NEW steps \in Seq(Movement), NEW n \in 0..Len(steps)
  PROVE  \E f \in [0..n -> Pose] : SumsUp(f, steps, n)
<1> DEFINE Has(m) == \E f \in [0..m -> Pose] : SumsUp(f, steps, m)
           T == {m \in 0..Len(steps) : ~Has(m)}
<1>1. Len(steps) \in Nat /\ \A k \in 1..Len(steps) : steps[k] \in Movement
  BY LenProperties, ElementOfSeq
<1>2. Zero \in Pose
  BY DEF Zero, Pose, Headings
<1> SUFFICES ASSUME T # {} PROVE FALSE
  OBVIOUS
<1> HIDE DEF Has
<1>3. PICK m \in T : \A l \in T : m <= l
  <2>1. T \in SUBSET Nat
    BY <1>1
  <2> HIDE DEF T
  <2> QED
    BY <2>1, LeastNat
<1>4. m # 0
  <2>1. SumsUp([i \in 0..0 |-> Zero], steps, 0)
    BY DEF SumsUp
  <2>2. [i \in 0..0 |-> Zero] \in [0..0 -> Pose]
    BY <1>2
  <2>3. Has(0)
    BY <2>1, <2>2 DEF Has
  <2> QED
    BY <1>3, <2>3
<1>5. m - 1 \in 0..Len(steps) /\ m \in 1..Len(steps) /\ Has(m - 1)
  BY <1>1, <1>3, <1>4
<1>6. PICK f \in [0..(m - 1) -> Pose] : SumsUp(f, steps, m - 1)
  BY <1>5 DEF Has
<1> DEFINE v == Moved(f[m - 1], steps[m])
           g == [i \in 0..m |-> IF i < m THEN f[i] ELSE v]
<1>7. v \in Pose
  <2>1. f[m - 1] \in Pose /\ steps[m] \in Displacement
    BY <1>1, <1>5 DEF Displacement
  <2> QED
    BY <2>1, MovedIsPose
<1>8. g \in [0..m -> Pose]
  BY <1>5, <1>7
<1>9. SumsUp(g, steps, m)
  <2>1. g[0] = Zero
    BY <1>5, <1>6 DEF SumsUp
  <2>2. ASSUME NEW k \in 1..m PROVE g[k] = Moved(g[k - 1], steps[k])
    <3>1. g[k - 1] = f[k - 1]
      BY <1>5
    <3>2. CASE k = m
      BY <1>5, <3>1, <3>2
    <3>3. CASE k # m
      <4>1. k \in 1..(m - 1) /\ g[k] = f[k]
        BY <1>5, <3>3
      <4> QED
        BY <1>6, <3>1, <4>1 DEF SumsUp
    <3> QED
      BY <3>2, <3>3
  <2> QED
    BY <2>1, <2>2 DEF SumsUp
<1> HIDE DEF g
<1>10. Has(m)
  BY <1>8, <1>9 DEF Has
<1> QED
  BY <1>3, <1>10

LEMMA SumsOf ==
  ASSUME NEW steps \in Seq(Movement)
  PROVE  /\ SumsUp(Sums(steps), steps, Len(steps))
         /\ \A k \in 0..Len(steps) : Sums(steps)[k] \in Pose
<1> DEFINE n == Len(steps)
           Follows(f) ==
             f = [k \in 0..n |-> IF k = 0 THEN Zero ELSE Moved(f[k - 1], steps[k])]
           s == Sums(steps)
<1>1. n \in Nat
  BY LenProperties
<1>2. PICK f \in [0..n -> Pose] : SumsUp(f, steps, n)
  <2>1. n \in 0..n
    BY <1>1
  <2> QED
    BY <2>1, SumsExist
<1>3. Follows(f)
  <2>1. \A k \in 0..n : k = 0 \/ k \in 1..n
    BY <1>1
  <2> QED
    BY <1>2, <2>1 DEF SumsUp
<1>4. Follows(s)
  <2>1. s = CHOOSE g : Follows(g)
    BY DEF Sums
  <2> HIDE DEF s, Follows
  <2> QED
    BY <1>3, <2>1, Zenon
<1> HIDE DEF s
<1>5. SumsUp(s, steps, n)
  <2>1. \A k \in 0..n : s[k] = IF k = 0 THEN Zero ELSE Moved(s[k - 1], steps[k])
    BY <1>4
  <2>2. 0 \in 0..n /\ \A k \in 1..n : k \in 0..n /\ k # 0
    BY <1>1
  <2> QED
    BY <2>1, <2>2 DEF SumsUp
<1>6. \A k \in 0..n : s[k] = f[k]
  BY <1>1, <1>2, <1>5, SumsAgree
<1>7. \A k \in 0..n : s[k] \in Pose
  BY <1>2, <1>6
<1> QED
  BY <1>5, <1>7 DEF s

\* One increment more is one movement more.
LEMMA SumsAppend ==
  ASSUME NEW steps \in Seq(Movement), NEW d \in Movement
  PROVE  LET more == Append(steps, d)
         IN  Sums(more)[Len(more)] = Moved(Sums(steps)[Len(steps)], d)
<1> DEFINE n == Len(steps)
           more == Append(steps, d)
<1>1. /\ n \in Nat /\ more \in Seq(Movement) /\ Len(more) = n + 1
      /\ more[n + 1] = d /\ \A k \in 1..n : more[k] = steps[k]
  BY AppendProperties, LenProperties
<1> HIDE DEF more
<1>2. SumsUp(Sums(more), more, n + 1) /\ SumsUp(Sums(steps), steps, n)
  BY <1>1, SumsOf
<1>3. SumsUp(Sums(more), steps, n)
  <2>1. \A k \in 1..n : k \in 1..(n + 1)
    BY <1>1
  <2> QED
    BY <1>1, <1>2, <2>1 DEF SumsUp
<1>4. Sums(more)[n] = Sums(steps)[n]
  <2>1. n \in 0..n
    BY <1>1
  <2>2. \A k \in 0..n : Sums(more)[k] = Sums(steps)[k]
    BY <1>1, <1>2, <1>3, SumsAgree
  <2> QED
    BY <2>1, <2>2
<1>5. Sums(more)[n + 1] = Moved(Sums(more)[n], d)
  <2>1. n + 1 \in 1..(n + 1) /\ (n + 1) - 1 = n
    BY <1>1
  <2> QED
    BY <1>1, <1>2, <2>1 DEF SumsUp
<1>6. Sums(more)[Len(more)] = Moved(Sums(steps)[n], d)
  BY <1>1, <1>4, <1>5
<1> QED
  BY <1>6 DEF more

\* A reply differs from the sum in its heading, which is the same turn.
LEMMA AccumulateMoves ==
  ASSUME NEW steps \in Seq(Movement), NEW a \in Pose
  PROVE  /\ Accumulate(steps) \in Movement
         /\ Moved(a, Accumulate(steps)) = Moved(a, Sums(steps)[Len(steps)])
<1> DEFINE s == Sums(steps)[Len(steps)]
           m == Accumulate(steps)
<1>1. s \in Pose
  <2>1. Len(steps) \in 0..Len(steps)
    BY LenProperties
  <2> QED
    BY <2>1, SumsOf
<1>2. m = [s EXCEPT !.h = ConstraitRadNegativePiToPi(@)]
  BY DEF Accumulate
<1> HIDE DEF s, m
<1>3. /\ s.x \in Int /\ s.y \in Int /\ s.h \in Headings /\ a.h \in Headings
      /\ m = [x |-> s.x, y |-> s.y, h |-> ConstraitRadNegativePiToPi(s.h)]
  BY <1>1, <1>2 DEF Pose
<1>4. /\ ConstraitRadNegativePiToPi(s.h) \in -2..1
      /\ (a.h + ConstraitRadNegativePiToPi(s.h)) % 4 = (a.h + s.h) % 4
  BY <1>3 DEF ConstraitRadNegativePiToPi, Headings
<1>5. m \in Movement
  BY <1>3, <1>4 DEF Movement
<1>6. m.x = s.x /\ m.y = s.y /\ (a.h + m.h) % 4 = (a.h + s.h) % 4
  BY <1>3, <1>4
<1>7. Moved(a, m) = Moved(a, s)
  BY <1>6 DEF Moved
<1> QED
  BY <1>5, <1>7 DEF s, m

LEMMA AccumulateAppend ==
  ASSUME NEW steps \in Seq(Movement), NEW d \in Movement, NEW a \in Pose
  PROVE  Moved(a, Accumulate(Append(steps, d))) = Moved(Moved(a, Accumulate(steps)), d)
<1> DEFINE more == Append(steps, d)
           s == Sums(steps)[Len(steps)]
           t == Sums(more)[Len(more)]
<1>1. more \in Seq(Movement) /\ d \in Displacement /\ s \in Pose
  <2>1. more \in Seq(Movement)
    BY AppendProperties
  <2>2. Len(steps) \in 0..Len(steps)
    BY LenProperties
  <2> QED
    BY <2>1, <2>2, SumsOf DEF Displacement
<1>2. t = Moved(s, d)
  BY SumsAppend
<1>3. Moved(a, Accumulate(more)) = Moved(a, t) /\ Moved(a, Accumulate(steps)) = Moved(a, s)
  BY <1>1, AccumulateMoves
<1> HIDE DEF more, s, t
<1>4. Moved(a, Moved(s, d)) = Moved(Moved(a, s), d)
  BY <1>1, MovedAssociative
<1>5. Moved(a, Accumulate(more)) = Moved(Moved(a, Accumulate(steps)), d)
  BY <1>2, <1>3, <1>4
<1> QED
  BY <1>5 DEF more

LEMMA AccumulateNothing ==
  ASSUME NEW a \in Pose
  PROVE  Moved(a, Accumulate(<<>>)) = a
<1>1. <<>> \in Seq(Movement) /\ Len(<<>>) = 0
  OBVIOUS
<1>2. Sums(<<>>)[0] = Zero
  BY <1>1, SumsOf DEF SumsUp
<1>3. Moved(a, Accumulate(<<>>)) = Moved(a, Zero)
  BY <1>1, <1>2, AccumulateMoves
<1>4. a.x \in Int /\ a.y \in Int /\ a.h \in Headings /\ a = [x |-> a.x, y |-> a.y, h |-> a.h]
  BY DEF Pose
<1>5. /\ a.x + 0 * Cos(a.h) - 0 * Sin(a.h) = a.x
      /\ a.y + 0 * Sin(a.h) + 0 * Cos(a.h) = a.y
      /\ (a.h + 0) % 4 = a.h
  BY <1>4, TrigCases DEF Headings
<1>6. Moved(a, Zero) = [x |-> a.x, y |-> a.y, h |-> a.h]
  BY <1>5 DEF Moved, Zero
<1> QED
  BY <1>3, <1>4, <1>6

-----------------------------------------------------------------------------
(* Differences of absolute poses.                                          *)

\* No movement and the origin are the same record.
LEMMA ZeroIsBoth == Zero \in Pose /\ Zero \in Movement
  BY DEF Zero, Pose, Movement, Headings

\* Before the first message nothing is tracked.
LEMMA InitIInv == OdometryInit => OdometryIInv
  <1> SUFFICES ASSUME OdometryInit PROVE OdometryIInv
    OBVIOUS
  <1> USE OdometryAssumption DEF OdometryInit
  <1>1. pose \in Pose /\ prePose \in Pose /\ odomTimestamp \in Nat
    OBVIOUS
  <1>2. path \in Seq(Pose) /\ deadreckon \in Seq(Movement)
    OBVIOUS
  <1>3. reply \in [moved : Movement, stamp : Nat]
    BY ZeroIsBoth
  <1>4. OdometryTypeOK
    BY <1>1, <1>2, <1>3, ZeroIsBoth DEF OdometryTypeOK
  <1>5. PoseIsLast /\ TrackIsPrePose
    BY DEF PoseIsLast, TrackIsPrePose, Received
  <1>6. BranchFits
    BY DEF BranchFits
  <1>7. ~Received
    BY DEF Received
  <1>8. TrackLagsByIncrements
    BY <1>7, ZeroIsBoth, AccumulateNothing DEF TrackLagsByIncrements, Base
  <1>9. IncrementsInv
    BY <1>7, <1>8 DEF IncrementsInv
  <1> QED
    BY <1>4, <1>5, <1>6, <1>9 DEF OdometryIInv, AbsoluteInv

\* A message moves the base; what the client was told stays true of an earlier one.
LEMMA CallbackIInv ==
  ASSUME OdometryIInv, NEW p \in Poses, OdometryCallback(p)
  PROVE  OdometryIInv'
  <1> USE DEF OdometryCallback, OdometryIInv, AbsoluteInv
  <1>1. p \in Pose /\ path \in Seq(Pose)
    BY OdometryAssumption DEF OdometryTypeOK
  <1>2. path' = Append(path, p) /\ path' \in Seq(Pose) /\ Len(path') = Len(path) + 1
    BY <1>1
  <1>3. OdometryTypeOK'
    BY <1>1, <1>2 DEF OdometryTypeOK
  <1>4. PoseIsLast'
    BY <1>1, <1>2 DEF PoseIsLast, Last
  <1>5. TrackIsPrePose'
    BY <1>1, <1>2 DEF TrackIsPrePose
  <1>6. BranchFits'
    BY DEF BranchFits
  <1> QED
    BY <1>3, <1>4, <1>5, <1>6

\* The branch that is chosen outside the lock is the one that suits the flag.
LEMMA GetIInv ==
  ASSUME OdometryIInv, accumulated, NEW c \in Callers, GetDeadReckon(c)
  PROVE  OdometryIInv'
  <1> USE DEF GetDeadReckon, OdometryIInv, AbsoluteInv
  <1>1. OdometryTypeOK'
    BY DEF OdometryTypeOK
  <1>2. PoseIsLast' /\ TrackIsPrePose'
    BY DEF PoseIsLast, TrackIsPrePose, Received
  <1>3. BranchFits'
    BY DEF BranchFits, OdometryTypeOK
  <1> QED
    BY <1>1, <1>2, <1>3

\* The first reply reports no movement and starts the track where the base is.
LEMMA FirstIInv ==
  ASSUME OdometryIInv, accumulated, OneCaller, NEW c \in Callers, First(c)
  PROVE  OdometryIInv'
  <1> USE DEF First, Return, OdometryIInv, AbsoluteInv
  <1>1. ~tracking
    BY DEF TrackIsPrePose, BranchFits
  <1>2. reply' \in [moved : Movement, stamp : Nat]
    BY ZeroIsBoth DEF OdometryTypeOK
  <1>3. track' = IF Received THEN pose ELSE track
    BY <1>1
  <1>4. OdometryTypeOK'
    BY <1>2, <1>3 DEF OdometryTypeOK
  <1>5. PoseIsLast'
    BY DEF PoseIsLast, Received
  <1>6. Received => Len(path) \in Nat \ {0} /\ Last(path) = path[Len(path)]
    BY DEF Received, OdometryTypeOK, Last
  <1>7. TrackIsPrePose'
    <2>1. CASE Received
      <3>1. reply'.stamp = Len(path) /\ track' = path[Len(path)]
        BY <1>3, <1>6, <2>1 DEF PoseIsLast
      <3> QED
        BY <1>6, <2>1, <3>1 DEF TrackIsPrePose, PoseIsLast
    <2>2. CASE ~Received
      BY <1>1, <2>2 DEF TrackIsPrePose
    <2> QED
      BY <2>1, <2>2
  <1>8. BranchFits'
    BY DEF BranchFits, OneCaller, OdometryTypeOK
  <1> QED
    BY <1>4, <1>5, <1>7, <1>8

\* A difference leads from the pose of the last reply to that of the last message.
LEMMA DifferenceIInv ==
  ASSUME OdometryIInv, accumulated, NEW c \in Callers, Difference(c)
  PROVE  OdometryIInv'
  <1> USE DEF Difference, Return, OdometryIInv, AbsoluteInv
  <1>1. /\ InverseTimes(prePose, pose) \in Movement
        /\ Moved(prePose, InverseTimes(prePose, pose)) = pose
    BY MovedInverse DEF OdometryTypeOK
  <1>2. track' = IF tracking \/ Received THEN pose ELSE track
    BY <1>1 DEF TrackIsPrePose
  <1>3. OdometryTypeOK'
    BY <1>1, <1>2 DEF OdometryTypeOK
  <1>4. PoseIsLast'
    BY DEF PoseIsLast, Received
  <1>5. tracking => Received
    BY DEF TrackIsPrePose, Received, OdometryTypeOK
  <1>6. Received => Len(path) \in Nat \ {0} /\ Last(path) = path[Len(path)]
    BY DEF Received, OdometryTypeOK, Last
  <1>7. ~initFlag
    BY DEF BranchFits
  <1>8. TrackIsPrePose'
    <2>1. CASE Received
      <3>1. reply'.stamp = Len(path) /\ track' = path[Len(path)] /\ prePose' = pose
        BY <1>2, <1>6, <2>1 DEF PoseIsLast
      <3> QED
        BY <1>6, <1>7, <2>1, <3>1 DEF TrackIsPrePose, PoseIsLast
    <2>2. CASE ~Received
      BY <1>5, <2>2 DEF TrackIsPrePose
    <2> QED
      BY <2>1, <2>2
  <1>9. BranchFits'
    BY DEF BranchFits, OdometryTypeOK
  <1> QED
    BY <1>3, <1>4, <1>8, <1>9

-----------------------------------------------------------------------------
(* Increments.                                                             *)

\* Where the base is, is a pose, also before the first message.
LEMMA BaseIsPose == OdometryTypeOK => Base \in Pose
  <1> SUFFICES ASSUME OdometryTypeOK PROVE Base \in Pose
    OBVIOUS
  <1>1. CASE Received
    <2>1. Len(path) \in 1..Len(path) /\ \A k \in 1..Len(path) : path[k] \in Pose
      BY <1>1 DEF Received, OdometryTypeOK
    <2> QED
      BY <1>1, <2>1 DEF Base, Last
  <1>2. CASE ~Received
    BY <1>2, ZeroIsBoth DEF Base
  <1> QED
    BY <1>1, <1>2

\* A message moves the base by the increment that now waits to be reported.
LEMMA DeadReckonIInv ==
  ASSUME OdometryIInv, NEW d \in Steps, DeadReckonCallback(d)
  PROVE  OdometryIInv'
  <1> USE DEF DeadReckonCallback, OdometryIInv
  <1>1. d \in Movement /\ d \in Displacement /\ ~accumulated /\ ~accumulated'
    BY OdometryAssumption DEF Displacement
  <1>2. Base \in Pose /\ Moved(Base, d) \in Pose /\ path' = Append(path, Moved(Base, d))
    BY <1>1, BaseIsPose, MovedIsPose DEF Base
  <1>3. /\ path' \in Seq(Pose) /\ Len(path) \in Nat /\ Len(path') = Len(path) + 1
        /\ path'[Len(path')] = Moved(Base, d)
        /\ \A k \in 1..Len(path) : path'[k] = path[k]
    BY <1>2, AppendProperties DEF OdometryTypeOK
  <1>4. deadreckon' \in Seq(Movement)
    BY <1>1, AppendProperties DEF OdometryTypeOK
  <1>5. OdometryTypeOK'
    BY <1>3, <1>4 DEF OdometryTypeOK
  <1>6. Received' /\ Base' = Moved(Base, d)
    BY <1>3 DEF Received, Base, Last
  <1>7. TrackLagsByIncrements'
    <2>1. Moved(track, Accumulate(Append(deadreckon, d)))
            = Moved(Moved(track, Accumulate(deadreckon)), d)
      BY <1>1, AccumulateAppend DEF OdometryTypeOK
    <2>2. Moved(track, Accumulate(deadreckon)) = Base
      BY <1>1 DEF IncrementsInv, TrackLagsByIncrements
    <2> QED
      BY <1>6, <2>1, <2>2 DEF TrackLagsByIncrements
  <1>8. tracking' => reply'.stamp \in 1..Len(path') /\ track' = path'[reply'.stamp]
    BY <1>1, <1>3 DEF IncrementsInv
  <1>9. \A c \in Callers : pc'[c] \in {"idle", "increments"}
    BY <1>1 DEF IncrementsInv
  <1>10. odomTimestamp' = Len(path')
    BY <1>3
  <1>11. IncrementsInv'
    BY <1>6, <1>7, <1>8, <1>9, <1>10 DEF IncrementsInv
  <1> QED
    BY <1>1, <1>5, <1>11

\* With increments there is one branch to choose.
LEMMA GetIncrementsIInv ==
  ASSUME OdometryIInv, ~accumulated, NEW c \in Callers, GetDeadReckon(c)
  PROVE  OdometryIInv'
  <1> USE DEF GetDeadReckon, OdometryIInv
  <1>1. OdometryTypeOK'
    BY DEF OdometryTypeOK
  <1>2. TrackLagsByIncrements'
    BY DEF IncrementsInv, TrackLagsByIncrements, Base, Received
  <1>3. \A e \in Callers : pc'[e] \in {"idle", "increments"}
    BY DEF IncrementsInv, OdometryTypeOK
  <1>4. IncrementsInv'
    BY <1>2, <1>3 DEF IncrementsInv, Received
  <1> QED
    BY <1>1, <1>4

(* A reply takes every increment that waits, so that the client is where   *)
(* the base is, and starts the next sum from nothing.                      *)
LEMMA IncrementsIInv ==
  ASSUME OdometryIInv, ~accumulated, NEW c \in Callers, Increments(c)
  PROVE  OdometryIInv'
  <1> USE DEF Increments, Return, OdometryIInv
  <1>1. Accumulate(deadreckon) \in Movement /\ track \in Pose
    BY AccumulateMoves DEF OdometryTypeOK
  <1>2. track' = Base /\ Base \in Pose /\ Base' = Base
    BY BaseIsPose DEF IncrementsInv, TrackLagsByIncrements, Base, Received
  <1>3. reply' \in [moved : Movement, stamp : Nat]
    BY <1>1 DEF OdometryTypeOK
  <1>4. pc' \in [Callers -> {"idle", "first", "difference", "increments"}]
    BY DEF OdometryTypeOK
  <1>5. deadreckon' \in Seq(Movement)
    OBVIOUS
  <1>6. OdometryTypeOK'
    BY <1>2, <1>3, <1>4, <1>5 DEF OdometryTypeOK
  <1>7. TrackLagsByIncrements'
    BY <1>2, AccumulateNothing DEF TrackLagsByIncrements
  <1>8. tracking' => Received
    BY DEF IncrementsInv, Received, OdometryTypeOK
  <1>9. Received => Len(path) \in Nat \ {0} /\ Last(path) = path[Len(path)]
    BY DEF Received, OdometryTypeOK, Last
  <1>10. tracking' => reply'.stamp \in 1..Len(path') /\ track' = path'[reply'.stamp]
    <2>1. Received => reply'.stamp = Len(path)
      BY DEF IncrementsInv
    <2> QED
      BY <1>2, <1>8, <1>9, <2>1 DEF Base
  <1>11. \A e \in Callers : pc'[e] \in {"idle", "increments"}
    BY DEF IncrementsInv, OdometryTypeOK
  <1>12. (Received => odomTimestamp = Len(path))' /\ (~Received => deadreckon = <<>>)'
    BY DEF IncrementsInv, Received
  <1>13. IncrementsInv'
    BY <1>7, <1>10, <1>11, <1>12 DEF IncrementsInv
  <1> QED
    BY <1>6, <1>13

\* A step that changes nothing keeps it.
LEMMA StutterIInv == OdometryIInv /\ UNCHANGED odometryVars => OdometryIInv'
  BY DEF odometryVars, OdometryIInv, AbsoluteInv, OdometryTypeOK, PoseIsLast,
      TrackIsPrePose, BranchFits, Received,
         IncrementsInv, TrackLagsByIncrements, Base

-----------------------------------------------------------------------------
(* Every step keeps the invariant; absolute odometry needs the one caller. *)

LEMMA NextIInv ==
  ASSUME accumulated => OneCaller, OdometryIInv, [OdometryNext]_odometryVars
  PROVE  OdometryIInv' /\ accumulated' = accumulated
  <1>1. CASE \E p \in Poses : OdometryCallback(p)
    BY <1>1, CallbackIInv DEF OdometryCallback
  <1>2. CASE \E d \in Steps : DeadReckonCallback(d)
    BY <1>2, DeadReckonIInv DEF DeadReckonCallback
  <1>3. ASSUME NEW c \in Callers,
               GetDeadReckon(c) \/ First(c) \/ Difference(c) \/ Increments(c)
        PROVE  OdometryIInv' /\ accumulated' = accumulated
    <2>1. accumulated' = accumulated
      BY <1>3 DEF GetDeadReckon, First, Difference, Increments, Return
    <2>2. CASE accumulated
      <3>1. ~Increments(c)
        BY <2>2 DEF Increments, OdometryIInv, AbsoluteInv, BranchFits
      <3> QED
        BY <1>3, <2>1, <2>2, <3>1, GetIInv, FirstIInv, DifferenceIInv
    <2>3. CASE ~accumulated
      <3>1. pc[c] \in {"idle", "increments"}
        BY <2>3 DEF OdometryIInv, IncrementsInv
      <3>2. ~First(c) /\ ~Difference(c)
        BY <3>1 DEF First, Difference
      <3> QED
        BY <1>3, <2>1, <2>3, <3>2, GetIncrementsIInv, IncrementsIInv
    <2> QED
      BY <2>2, <2>3
  <1>4. CASE UNCHANGED odometryVars
    BY <1>4, StutterIInv DEF odometryVars
  <1> QED
    BY <1>1, <1>2, <1>3, <1>4 DEF OdometryNext

\* Either way the track ends at the pose of the message the last reply names.
LEMMA IInvTrack == OdometryIInv => TrackIsReal
  BY DEF OdometryIInv, OdometryTypeOK, AbsoluteInv, TrackIsPrePose, IncrementsInv, TrackIsReal

(***************************************************************************)
(* With one caller, absolute odometry: the replies so far add up to the    *)
(* pose that the next difference starts from, and a caller inside one of   *)
(* the branches has good reason to be there.  Increments: those not yet    *)
(* reported lead from where the client is to where the base is.            *)
(***************************************************************************)
THEOREM AccountsAgree ==
  ASSUME OneCaller
  PROVE  OdometrySpec => []OdometryIInv
  <1>1. OdometryIInv /\ [OdometryNext]_odometryVars => OdometryIInv'
    BY NextIInv
  <1> QED
    BY InitIInv, <1>1, PTL DEF OdometrySpec

(***************************************************************************)
(* So no movement is lost or invented between any two replies, whatever    *)
(* poses or increments the base reports.                                   *)
(***************************************************************************)
THEOREM TrackFollowsBase ==
  ASSUME OneCaller
  PROVE  OdometrySpec => []TrackIsReal
  BY AccountsAgree, IInvTrack, PTL

(***************************************************************************)
(* A base that reports increments may be asked by any number of threads at *)
(* once: each increment is reported to one of them, once and in order, and *)
(* the replies together lead to where the base is.                         *)
(***************************************************************************)
THEOREM IncrementsAddUp == OdometrySpec => [](~accumulated => TrackIsReal)
  <1> DEFINE Inv == accumulated \/ OdometryIInv
  <1>1. OdometryInit => Inv
    BY InitIInv
  <1>2. Inv /\ [OdometryNext]_odometryVars => Inv'
    <2>1. [OdometryNext]_odometryVars => accumulated' = accumulated
      BY DEF OdometryNext, odometryVars, OdometryCallback, DeadReckonCallback,
         GetDeadReckon, First, Difference,
             Increments, Return
    <2> QED
      BY <2>1, NextIInv
  <1>3. Inv => (~accumulated => TrackIsReal)
    BY IInvTrack
  <1> HIDE DEF Inv
  <1> QED
    BY <1>1, <1>2, <1>3, PTL DEF OdometrySpec
=============================================================================
