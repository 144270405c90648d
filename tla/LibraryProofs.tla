------------------------- MODULE LibraryProofs -------------------------
(***************************************************************************)
(* Proofs about Kcp, and about the hash tables of aoi.c and lua-crab.c,    *)
(* which rest on the same induction: NatInd is the induction principle     *)
(* for a set of numbers, from the well-foundedness of < by WFMin.  It is   *)
(* needed for every loop of the three modules.                             *)
(***************************************************************************)
EXTENDS Kcp, HashTables, WellFoundedInduction, SequenceTheorems, FiniteSetTheorems, TLAPS

-----------------------------------------------------------------------------
(* Induction and recursion over sets.                                      *)

LEMMA LessWF == IsWellFoundedOn({ss \in Nat \X Nat : ss[1] < ss[2]}, Nat)
BY NatLessThanWellFounded DEF OpToRel

\* Every non-empty set of natural numbers has a least element.
LEMMA LeastNat ==
    ASSUME NEW T, T \subseteq Nat, T # {}
    PROVE  \E m \in T : \A n \in T : m <= n
<1> DEFINE R == {ss \in Nat \X Nat : ss[1] < ss[2]}
<1>1. PICK m \in T : \A n \in T : <<n, m>> \notin R
  <2> HIDE DEF R
  <2>1. IsWellFoundedOn(R, Nat)  BY LessWF DEF R
  <2> QED  BY <2>1, WFMin
<1>2. \A n \in T : ~ (n < m)  BY <1>1
<1> QED  BY <1>2

\* Induction: a set with 0 that is closed under the successor has all numbers.
LEMMA NatInd ==
    ASSUME NEW S, 0 \in S, \A n \in Nat : n \in S => n + 1 \in S
    PROVE  Nat \subseteq S
<1> DEFINE T == {n \in Nat : n \notin S}
<1>1. SUFFICES ASSUME T # {} PROVE FALSE
  OBVIOUS
<1>2. PICK m \in T : \A n \in T : m <= n
  <2>1. T \subseteq Nat  OBVIOUS
  <2> HIDE DEF T
  <2> QED  BY <1>1, <2>1, LeastNat
<1>3. m \in Nat /\ m # 0  BY <1>2
<1>4. m - 1 \in Nat /\ m - 1 \notin T  BY <1>2, <1>3
<1>5. (m - 1) + 1 \in S  BY <1>4
<1> QED  BY <1>3, <1>5

\* The bounded form: what holds at 0 and is kept by every step up to n.
LEMMA BoundedInd ==
    ASSUME NEW n \in Nat, NEW S, 0 \in S,
           \A i \in 1 .. n : i - 1 \in S => i \in S
    PROVE  0 .. n \subseteq S
<1> DEFINE T == {i \in Nat : i <= n => i \in S}
<1>1. 0 \in T  OBVIOUS
<1>2. \A i \in Nat : i \in T => i + 1 \in T
  <2> SUFFICES ASSUME NEW i \in Nat, i \in T, i + 1 <= n PROVE i + 1 \in S
    OBVIOUS
  <2>1. i + 1 \in 1 .. n /\ (i + 1) - 1 = i /\ i \in S  OBVIOUS
  <2> QED  BY <2>1
<1>3. Nat \subseteq T
  <2> HIDE DEF T
  <2> QED  BY <1>1, <1>2, NatInd
<1> QED  BY <1>3

Iterates(f, n, S, base, step) ==
    /\ f \in [0 .. n -> S]
    /\ f[0] = base
    /\ \A i \in 1 .. n : f[i] = step[<<i, f[i - 1]>>]

\* Recursion: a step from a set into itself can be iterated.
LEMMA Iteration ==
    ASSUME NEW n \in Nat, NEW S, NEW base \in S, NEW step \in [(1 .. n) \X S -> S]
    PROVE  \E f : Iterates(f, n, S, base, step)
<1> DEFINE T == {m \in 0 .. n : \E f \in [0 .. m -> S] :
                    f[0] = base /\ \A i \in 1 .. m : f[i] = step[<<i, f[i - 1]>>]}
<1>1. 0 \in T
  <2> DEFINE f == [i \in 0 .. 0 |-> base]
  <2>1. f \in [0 .. 0 -> S] /\ f[0] = base /\ 0 \in 0 .. n  OBVIOUS
  <2>2. \A i \in 1 .. 0 : f[i] = step[<<i, f[i - 1]>>]  OBVIOUS
  <2> HIDE DEF f
  <2> QED  BY <2>1, <2>2
<1>2. \A m \in 1 .. n : m - 1 \in T => m \in T
  <2> SUFFICES ASSUME NEW m \in 1 .. n, m - 1 \in T PROVE m \in T
    OBVIOUS
  <2>1. PICK f \in [0 .. m - 1 -> S] :
           f[0] = base /\ \A i \in 1 .. m - 1 : f[i] = step[<<i, f[i - 1]>>]
    OBVIOUS
  <2> DEFINE g == [i \in 0 .. m |-> IF i = m THEN step[<<m, f[m - 1]>>] ELSE f[i]]
  <2>2. step[<<m, f[m - 1]>>] \in S  OBVIOUS
  <2>3. g \in [0 .. m -> S]  BY <2>2
  <2>4. g[0] = base  BY <2>1
  <2>5. \A i \in 1 .. m : g[i] = step[<<i, g[i - 1]>>]
    <3> SUFFICES ASSUME NEW i \in 1 .. m PROVE g[i] = step[<<i, g[i - 1]>>]
      OBVIOUS
    <3>1. i - 1 \in 0 .. m /\ i - 1 # m /\ i \in 0 .. m  OBVIOUS
    <3>2. g[i - 1] = f[i - 1]  BY <3>1
    <3>3. CASE i = m  BY <3>1, <3>2, <3>3
    <3>4. CASE i # m
      <4>1. i \in 1 .. m - 1 /\ g[i] = f[i]  BY <3>1, <3>4
      <4> QED  BY <2>1, <3>2, <4>1
    <3> QED  BY <3>3, <3>4
  <2>6. m \in 0 .. n  OBVIOUS
  <2> HIDE DEF g
  <2> QED  BY <2>3, <2>4, <2>5, <2>6
<1>3. 0 .. n \subseteq T
  <2> HIDE DEF T
  <2> QED  BY <1>1, <1>2, BoundedInd
<1> QED  BY <1>3 DEF Iterates

Forever(f, S, base, step) ==
    /\ f \in [Nat -> S]
    /\ f[0] = base
    /\ \A n \in Nat : f[n + 1] = step[f[n]]

\* ... for ever: a function on all numbers.
LEMMA NatIteration ==
    ASSUME NEW S, NEW base \in S, NEW step \in [S -> S]
    PROVE  \E f : Forever(f, S, base, step)
<1> DEFINE up(n) == [z \in (1 .. n) \X S |-> step[z[2]]]
           part(n) == CHOOSE f : Iterates(f, n, S, base, up(n))
           whole == [n \in Nat |-> part(n)[n]]
<1>1. \A n \in Nat : Iterates(part(n), n, S, base, up(n))
  <2> SUFFICES ASSUME NEW n \in Nat PROVE Iterates(part(n), n, S, base, up(n))
    OBVIOUS
  <2>1. up(n) \in [(1 .. n) \X S -> S]
    <3>1. \A z \in (1 .. n) \X S : z[2] \in S  OBVIOUS
    <3> QED  BY <3>1
  <2> HIDE DEF up
  <2> QED  BY <2>1, Iteration
<1>2. \A n \in Nat : part(n) \in [0 .. n -> S] /\ part(n)[0] = base
  BY <1>1 DEF Iterates
<1>3. \A n \in Nat : \A i \in 1 .. n : part(n)[i] = step[part(n)[i - 1]]
  <2> SUFFICES ASSUME NEW n \in Nat, NEW i \in 1 .. n
               PROVE  part(n)[i] = step[part(n)[i - 1]]
    OBVIOUS
  <2>1. part(n)[i] = up(n)[<<i, part(n)[i - 1]>>]  BY <1>1 DEF Iterates
  <2> HIDE DEF part
  <2>2. <<i, part(n)[i - 1]>> \in (1 .. n) \X S  BY <1>2
  <2> QED  BY <2>1, <2>2
<1> HIDE DEF part
<1>4. \A n \in Nat : part(n + 1)[n] = part(n)[n]
  <2> SUFFICES ASSUME NEW n \in Nat PROVE part(n + 1)[n] = part(n)[n]
    OBVIOUS
  <2> DEFINE T == {i \in 0 .. n : part(n + 1)[i] = part(n)[i]}
  <2>1. 0 \in T  BY <1>2
  <2>2. \A i \in 1 .. n : i - 1 \in T => i \in T
    <3> SUFFICES ASSUME NEW i \in 1 .. n, i - 1 \in T PROVE i \in T
      OBVIOUS
    <3>1. part(n)[i] = step[part(n)[i - 1]]  BY <1>3
    <3>2. i \in 1 .. n + 1 /\ n + 1 \in Nat  OBVIOUS
    <3>3. part(n + 1)[i] = step[part(n + 1)[i - 1]]  BY <1>3, <3>2
    <3> QED  BY <3>1, <3>3
  <2>3. 0 .. n \subseteq T
    <3> HIDE DEF T
    <3> QED  BY <2>1, <2>2, BoundedInd
  <2> QED  BY <2>3
<1>5. whole \in [Nat -> S]  BY <1>2
<1>6. whole[0] = base  BY <1>2
<1>7. \A n \in Nat : whole[n + 1] = step[whole[n]]
  <2> SUFFICES ASSUME NEW n \in Nat PROVE whole[n + 1] = step[whole[n]]
    OBVIOUS
  <2>1. n + 1 \in Nat /\ n + 1 \in 1 .. n + 1 /\ (n + 1) - 1 = n  OBVIOUS
  <2>2. part(n + 1)[n + 1] = step[part(n + 1)[n]]  BY <1>3, <2>1
  <2> QED  BY <1>4, <2>1, <2>2
<1> HIDE DEF whole
<1> QED  BY <1>5, <1>6, <1>7 DEF Forever

\* A datagram is read segment by segment: what every segment keeps, it keeps.
LEMMA InputSegmentsStay ==
    ASSUME NEW S, NEW k \in S, NEW segs, Len(segs) \in Nat,
           \A x \in S, i \in 1 .. Len(segs) : InputSegment(x, segs[i]) \in S
    PROVE  InputSegments(k, segs) \in S
<1> DEFINE n == Len(segs)
           rhs(f) == [i \in 0 .. n |-> IF i = 0 THEN k ELSE InputSegment(f[i - 1], segs[i])]
           after == CHOOSE f : f = rhs(f)
           step == [z \in (1 .. n) \X S |-> InputSegment(z[2], segs[z[1]])]
<1>1. step \in [(1 .. n) \X S -> S]
  <2>1. \A z \in (1 .. n) \X S : z[1] \in 1 .. n /\ z[2] \in S  OBVIOUS
  <2>2. \A z \in (1 .. n) \X S : InputSegment(z[2], segs[z[1]]) \in S  BY <2>1
  <2> QED  BY <2>2
<1>2. PICK g : Iterates(g, n, S, k, step)
  <2>1. n \in Nat  OBVIOUS
  <2> HIDE DEF step, n, rhs, after
  <2> QED  BY <1>1, <2>1, Iteration
<1>3. \A i \in 1 .. n : g[i] = InputSegment(g[i - 1], segs[i])
  <2> SUFFICES ASSUME NEW i \in 1 .. n PROVE g[i] = InputSegment(g[i - 1], segs[i])
    OBVIOUS
  <2>1. <<i, g[i - 1]>> \in (1 .. n) \X S  BY <1>2 DEF Iterates
  <2> QED  BY <1>2, <2>1 DEF Iterates
<1>4. g = rhs(g)
  <2>1. \A i \in 0 .. n : g[i] = rhs(g)[i]  BY <1>2, <1>3 DEF Iterates
  <2>2. rhs(g) = [i \in 0 .. n |-> rhs(g)[i]] /\ g = [i \in 0 .. n |-> g[i]]  BY <1>2 DEF Iterates
  <2> HIDE DEF rhs
  <2> QED  BY <2>1, <2>2
<1>5. after = rhs(after)
  <2> HIDE DEF rhs
  <2> QED  BY <1>4
<1>6. \A i \in 1 .. n : after[i] = InputSegment(after[i - 1], segs[i])
  <2> HIDE DEF after
  <2> QED  BY <1>5
<1>7. after[0] = k
  <2> HIDE DEF after
  <2> QED  BY <1>5
<1> DEFINE T == {i \in 0 .. n : after[i] \in S}
<1>8. 0 .. n \subseteq T
  <2> HIDE DEF after
  <2>1. 0 \in T  BY <1>7
  <2>2. \A i \in 1 .. n : i - 1 \in T => i \in T  BY <1>6
  <2> HIDE DEF T
  <2> QED  BY <2>1, <2>2, BoundedInd
<1>9. after[n] \in S
  <2> HIDE DEF after
  <2> QED  BY <1>8
<1>10. InputSegments(k, segs) = after[n]  BY DEF InputSegments
<1> QED  BY <1>9, <1>10

PackStep(segs, before, i) ==
    LET need == Overhead + segs[i].len
    IN  IF need <= before.room
        THEN [out |-> before.out, datagram |-> Append(before.datagram, segs[i]),
              room |-> before.room - need]
        ELSE [out |-> Append(before.out, before.datagram),
              datagram |-> <<segs[i]>>, room |-> Mtu - need]

\* The datagrams of a flush consist of the segments that were to be packed.
LEMMA PackOnlyPacks ==
    ASSUME NEW F, \A s \in F : s.len \in Int, NEW segs \in Seq(F)
    PROVE  Pack(segs) \in Seq(Seq(F))
<1> DEFINE n == Len(segs)
           S == [out : Seq(Seq(F)), datagram : Seq(F), room : Int]
           base == [out |-> <<>>, datagram |-> <<>>, room |-> Mtu]
           rhs(f) == [i \in 0 .. n |-> IF i = 0 THEN base ELSE PackStep(segs, f[i - 1], i)]
           after == CHOOSE f : f = rhs(f)
           step == [z \in (1 .. n) \X S |-> PackStep(segs, z[2], z[1])]
<1>0. n \in Nat /\ base \in S  BY SizesFit
<1>1. \A i \in 1 .. n, x \in S : PackStep(segs, x, i) \in S
  <2> SUFFICES ASSUME NEW i \in 1 .. n, NEW x \in S PROVE PackStep(segs, x, i) \in S
    OBVIOUS
  <2>1. segs[i] \in F /\ segs[i].len \in Int  OBVIOUS
  <2>2. x.out \in Seq(Seq(F)) /\ x.datagram \in Seq(F) /\ x.room \in Int  OBVIOUS
  <2>3. Append(x.datagram, segs[i]) \in Seq(F) /\ Append(x.out, x.datagram) \in Seq(Seq(F))
        /\ <<segs[i]>> \in Seq(F)
    BY <2>1, <2>2
  <2> QED  BY <2>1, <2>2, <2>3, SizesFit DEF PackStep
<1>2. step \in [(1 .. n) \X S -> S]
  <2>1. \A z \in (1 .. n) \X S : z[1] \in 1 .. n /\ z[2] \in S  OBVIOUS
  <2>2. \A z \in (1 .. n) \X S : PackStep(segs, z[2], z[1]) \in S  BY <1>1, <2>1
  <2> QED  BY <2>2
<1>3. PICK g : Iterates(g, n, S, base, step)
  <2> HIDE DEF step, n, rhs, after, S, base
  <2> QED  BY <1>0, <1>2, Iteration
<1> HIDE DEF base, S
<1>4. \A i \in 1 .. n : g[i] = PackStep(segs, g[i - 1], i)
  <2> SUFFICES ASSUME NEW i \in 1 .. n PROVE g[i] = PackStep(segs, g[i - 1], i)
    OBVIOUS
  <2>1. <<i, g[i - 1]>> \in (1 .. n) \X S  BY <1>3 DEF Iterates
  <2> QED  BY <1>3, <2>1 DEF Iterates
<1>5. g = rhs(g)
  <2>1. \A i \in 0 .. n : g[i] = rhs(g)[i]  BY <1>3, <1>4 DEF Iterates
  <2>2. rhs(g) = [i \in 0 .. n |-> rhs(g)[i]] /\ g = [i \in 0 .. n |-> g[i]]  BY <1>3 DEF Iterates
  <2> HIDE DEF rhs
  <2> QED  BY <2>1, <2>2
<1>6. after = rhs(after)
  <2> HIDE DEF rhs
  <2> QED  BY <1>5
<1>7. \A i \in 1 .. n : after[i] = PackStep(segs, after[i - 1], i)
  <2> HIDE DEF after
  <2> QED  BY <1>6
<1>8. after[0] = base
  <2> HIDE DEF after
  <2> QED  BY <1>0, <1>6
<1> DEFINE T == {i \in 0 .. n : after[i] \in S}
<1>9. 0 .. n \subseteq T
  <2> HIDE DEF after
  <2>1. 0 \in T  BY <1>0, <1>8
  <2>2. \A i \in 1 .. n : i - 1 \in T => i \in T  BY <1>1, <1>7
  <2> HIDE DEF T, n
  <2> QED  BY <1>0, <2>1, <2>2, BoundedInd
<1>10. after[n] \in S
  <2> HIDE DEF after
  <2> QED  BY <1>0, <1>9
<1>11. Pack(segs) = IF after[n].datagram = <<>> THEN after[n].out
                    ELSE Append(after[n].out, after[n].datagram)
  BY DEF Pack, PackStep, base
<1> HIDE DEF after
<1> QED  BY <1>10, <1>11 DEF S

-----------------------------------------------------------------------------
(* The stream of an end: all the fragments of its messages in order.       *)

Count(e, m) == IF m \in DOMAIN Script[e] THEN Len(Fragments(m, Script[e][m])) ELSE 1

Following(e, d) == IF d[2] < Count(e, d[1]) THEN <<d[1], d[2] + 1>> ELSE <<d[1] + 1, 1>>

Datum(e) == {d \in (Nat \ {0}) \X (Nat \ {0}) : d[2] <= Count(e, d[1])}

Stream(e) ==
    LET f[n \in Nat] == IF n = 0 THEN <<1, 1>> ELSE Following(e, f[n - 1])
    IN  f

LEMMA Quotient ==
    ASSUME NEW a \in Nat, NEW b \in Nat \ {0}, a >= b
    PROVE  a \div b \in Nat \ {0}
OBVIOUS

LEMMA FragmentsLen ==
    ASSUME NEW m, NEW len \in Nat
    PROVE  /\ Len(Fragments(m, len)) \in Nat \ {0}
           /\ DOMAIN Fragments(m, len) = 1 .. Len(Fragments(m, len))
           /\ \A i \in 1 .. Len(Fragments(m, len)) :
                 /\ Fragments(m, len)[i].frg = Len(Fragments(m, len)) - i
                 /\ Fragments(m, len)[i].data = <<m, i>>
                 /\ Fragments(m, len)[i].len \in Int
                 /\ Fragments(m, len)[i] = [frg |-> Fragments(m, len)[i].frg,
                                            data |-> Fragments(m, len)[i].data,
                                            len |-> Fragments(m, len)[i].len]
<1> DEFINE count == IF len <= Mss THEN 1 ELSE (len + Mss - 1) \div Mss
           F == [i \in 1 .. count |-> [frg |-> count - i, data |-> <<m, i>>,
                                       len |-> Least(Mss, len - (i - 1) * Mss)]]
<1>1. Mss \in Nat \ {0}  BY SizesFit DEF Mss
<1>2. count \in Nat \ {0}
  <2>1. CASE len <= Mss  BY <2>1
  <2>2. CASE ~ (len <= Mss)
    <3>1. len + Mss - 1 \in Nat /\ len + Mss - 1 >= Mss  BY <1>1, <2>2
    <3>2. (len + Mss - 1) \div Mss \in Nat \ {0}
      <4> DEFINE a == len + Mss - 1
      <4>1. a \in Nat /\ a >= Mss BY <3>1
      <4> HIDE DEF a
      <4>2. a \div Mss \in Nat \ {0} BY <1>1, <4>1, Quotient
      <4> QED  BY <4>2 DEF a
    <3> QED  BY <2>2, <3>2
  <2> QED  BY <2>1, <2>2
<1>3. Fragments(m, len) = F  BY DEF Fragments
<1> HIDE DEF count
<1>4. Len(F) = count /\ DOMAIN F = 1 .. count
  BY <1>2
<1>5. \A i \in 1 .. count : Least(Mss, len - (i - 1) * Mss) \in Int
  <2> SUFFICES ASSUME NEW i \in 1 .. count PROVE Least(Mss, len - (i - 1) * Mss) \in Int
    OBVIOUS
  <2>1. (i - 1) * Mss \in Int  BY <1>1, <1>2
  <2> QED  BY <1>1, <2>1 DEF Least
<1> QED  BY <1>2, <1>3, <1>4, <1>5

LEMMA CountType ==
    ASSUME NEW e \in End, NEW m \in Nat
    PROVE  Count(e, m) \in Nat \ {0}
<1>1. CASE m \in DOMAIN Script[e]
  <2>1. Script[e][m] \in Nat  BY <1>1, ScriptIsSizes
  <2> QED  BY <1>1, <2>1, FragmentsLen DEF Count
<1>2. CASE m \notin DOMAIN Script[e]  BY <1>2 DEF Count
<1> QED  BY <1>1, <1>2

LEMMA StreamNumbers ==
    ASSUME NEW e \in End
    PROVE  /\ Stream(e) \in [Nat -> Datum(e)]
           /\ Stream(e)[0] = <<1, 1>>
           /\ \A n \in Nat : Stream(e)[n + 1] = Following(e, Stream(e)[n])
<1> DEFINE S == Datum(e)
           step == [d \in S |-> Following(e, d)]
           rhs(f) == [n \in Nat |-> IF n = 0 THEN <<1, 1>> ELSE Following(e, f[n - 1])]
           str == CHOOSE f : f = rhs(f)
<1>1. <<1, 1>> \in S  BY CountType DEF Datum
<1>2. \A d \in S : Following(e, d) \in S
  <2> SUFFICES ASSUME NEW d \in S PROVE Following(e, d) \in S
    OBVIOUS
  <2>1. PICK a \in Nat \ {0}, b \in Nat \ {0} : d = <<a, b>> /\ b <= Count(e, a)  BY DEF Datum
  <2>2. Count(e, a) \in Nat \ {0} /\ Count(e, a + 1) \in Nat \ {0}  BY <2>1, CountType
  <2> QED  BY <2>1, <2>2 DEF Datum, Following
<1>3. step \in [S -> S]  BY <1>2
<1>4. PICK g : Forever(g, S, <<1, 1>>, step)
  <2> HIDE DEF S, step
  <2> QED  BY <1>1, <1>3, NatIteration
<1>5. \A n \in Nat : n # 0 => g[n] = Following(e, g[n - 1])
  <2> SUFFICES ASSUME NEW n \in Nat, n # 0 PROVE g[n] = Following(e, g[n - 1])
    OBVIOUS
  <2>1. n - 1 \in Nat /\ (n - 1) + 1 = n  OBVIOUS
  <2> HIDE DEF S
  <2>2. g[n] = step[g[n - 1]] /\ g[n - 1] \in S BY <1>4, <2>1 DEF Forever
  <2> QED  BY <2>2
<1>6. g = rhs(g)
  <2>1. \A n \in Nat : g[n] = rhs(g)[n]  BY <1>4, <1>5 DEF Forever
  <2>2. rhs(g) = [n \in Nat |-> rhs(g)[n]] /\ g = [n \in Nat |-> g[n]]  BY <1>4 DEF Forever
  <2> HIDE DEF rhs
  <2> QED  BY <2>1, <2>2
<1>7. str = rhs(str)
  <2> HIDE DEF rhs
  <2> QED  BY <1>6
<1>8. Stream(e) = str  BY DEF Stream
<1> HIDE DEF str
<1>9. str[0] = <<1, 1>>  BY <1>7
<1>10. \A n \in Nat : str[n + 1] = Following(e, str[n])  BY <1>7
<1> DEFINE T == {n \in Nat : str[n] \in S}
<1>11. Nat \subseteq T
  <2>1. 0 \in T  BY <1>1, <1>9
  <2>2. \A n \in Nat : n \in T => n + 1 \in T  BY <1>2, <1>10
  <2> HIDE DEF T
  <2> QED  BY <2>1, <2>2, NatInd
<1>12. str \in [Nat -> S]
  <2>1. str = [n \in Nat |-> str[n]]  BY <1>7
  <2> QED  BY <1>11, <2>1
<1> QED  BY <1>8, <1>9, <1>10, <1>12

\* A message that starts at a number fills the numbers behind it.
LEMMA StreamRun ==
    ASSUME NEW e \in End, NEW at \in Nat, NEW m \in Nat \ {0}, Stream(e)[at] = <<m, 1>>
    PROVE  /\ \A i \in 1 .. Count(e, m) : Stream(e)[at + i - 1] = <<m, i>>
           /\ Stream(e)[at + Count(e, m)] = <<m + 1, 1>>
<1> DEFINE c == Count(e, m)
           T == {i \in Nat : i < c => Stream(e)[at + i] = <<m, i + 1>>}
<1>0. c \in Nat \ {0}  BY CountType
<1> HIDE DEF c
<1>1. \A n \in Nat : Stream(e)[n + 1] = Following(e, Stream(e)[n])  BY StreamNumbers
<1>2. \A i \in Nat : i \in T => i + 1 \in T
  <2> SUFFICES ASSUME NEW i \in Nat, i \in T, i + 1 < c
               PROVE  Stream(e)[at + (i + 1)] = <<m, (i + 1) + 1>>
    OBVIOUS
  <2>1. Stream(e)[at + i] = <<m, i + 1>>  BY <1>0
  <2>2. at + i \in Nat /\ at + (i + 1) = (at + i) + 1  OBVIOUS
  <2>3. Stream(e)[at + (i + 1)] = Following(e, <<m, i + 1>>)  BY <1>1, <2>1, <2>2
  <2> QED  BY <1>0, <2>3 DEF Following, c
<1>3. Nat \subseteq T
  <2>1. 0 \in T  OBVIOUS
  <2> HIDE DEF T
  <2> QED  BY <1>2, <2>1, NatInd
<1>4. \A i \in 1 .. c : Stream(e)[at + i - 1] = <<m, i>>
  <2> SUFFICES ASSUME NEW i \in 1 .. c PROVE Stream(e)[at + i - 1] = <<m, i>>
    OBVIOUS
  <2>1. i - 1 \in Nat /\ i - 1 < c /\ at + (i - 1) = at + i - 1 /\ (i - 1) + 1 = i  BY <1>0
  <2>2. Stream(e)[at + (i - 1)] = <<m, (i - 1) + 1>>  BY <1>3, <2>1
  <2> QED  BY <2>1, <2>2
<1>5. Stream(e)[at + c] = <<m + 1, 1>>
  <2>1. c \in 1 .. c /\ at + c - 1 \in Nat /\ (at + c - 1) + 1 = at + c  BY <1>0
  <2>2. Stream(e)[at + c - 1] = <<m, c>>  BY <1>4, <2>1
  <2>3. Stream(e)[at + c] = Following(e, <<m, c>>)  BY <1>1, <2>1, <2>2
  <2> QED  BY <1>0, <2>3 DEF Following, c
<1> QED  BY <1>4, <1>5 DEF c

\* Later numbers belong to later messages.
LEMMA StreamMonotone ==
    ASSUME NEW e \in End, NEW a \in Nat, NEW b \in Nat, a <= b
    PROVE  Stream(e)[a][1] <= Stream(e)[b][1]
<1> DEFINE T == {i \in Nat : Stream(e)[a][1] <= Stream(e)[a + i][1]}
<1>1. \A n \in Nat : Stream(e)[n] \in Datum(e)  BY StreamNumbers
<1>2. \A n \in Nat : Stream(e)[n][1] \in Nat  BY <1>1 DEF Datum
<1>3. \A i \in Nat : i \in T => i + 1 \in T
  <2> SUFFICES ASSUME NEW i \in Nat, i \in T
               PROVE  Stream(e)[a][1] <= Stream(e)[a + (i + 1)][1]
    OBVIOUS
  <2>1. a + i \in Nat /\ a + (i + 1) = (a + i) + 1  OBVIOUS
  <2>2. Stream(e)[a + (i + 1)] = Following(e, Stream(e)[a + i])  BY <2>1, StreamNumbers
  <2>3. Stream(e)[a + i][1] <= Stream(e)[a + (i + 1)][1]  BY <1>2, <2>1, <2>2 DEF Following
  <2>4. Stream(e)[a][1] \in Nat /\ Stream(e)[a + i][1] \in Nat /\ Stream(e)[a + (i + 1)][1] \in Nat
    BY <1>2, <2>1
  <2> QED  BY <2>3, <2>4
<1>4. Nat \subseteq T
  <2>1. 0 \in T  BY <1>2
  <2> HIDE DEF T
  <2> QED  BY <1>3, <2>1, NatInd
<1>5. b - a \in Nat /\ a + (b - a) = b  OBVIOUS
<1>6. b - a \in T  BY <1>4, <1>5
<1> QED  BY <1>5, <1>6

-----------------------------------------------------------------------------
(* The inductive invariant.  Every segment that either end holds, and every *)
(* one under way, carries the fragment its number has in the stream of the  *)
(* end that sends it.                                                       *)

Data == (Nat \X Nat) \cup {<<>>}
QueueSeg == [frg : Nat, data : Data, len : Int]
SndSeg == [frg : Nat, len : Int, data : Data, sn : Nat, fastack : Nat, sent : BOOLEAN]
RcvSeg == [sn : Nat, frg : Nat, data : Data]
Frame == [cmd : {"ACK", "PUSH", "WASK", "WINS"}, sn : Nat, frg : Nat, len : Int,
          data : Data, wnd : Nat, una : Nat]
Block ==
    [snd_una : Nat, snd_nxt : Nat, rcv_nxt : Nat, rmt_wnd : Nat, cwnd : Nat,
     incr : Nat, ssthresh : Nat, probe : SUBSET {"SEND", "TELL"}, probe_wait : BOOLEAN,
     snd_queue : Seq(QueueSeg), snd_buf : SUBSET SndSeg, rcv_buf : SUBSET RcvSeg,
     rcv_queue : Seq(RcvSeg), acklist : Seq(Nat), fastresend : Nat, nocwnd : BOOLEAN]

\* s is the segment with number n of the stream of e.
Carries(e, n, s) ==
    /\ s.data = Stream(e)[n]
    /\ s.frg = Count(e, Stream(e)[n][1]) - Stream(e)[n][2]

\* Segment n has reached the end whose block is r.
Received(r, n) == n < r.rcv_nxt \/ n \in Sns(r.rcv_buf)

Unique(buf) == \A s, t \in buf : s.sn = t.sn => s = t

\* The sending half of e's block k, r being the block of the other end.
SendOK(e, k, r) ==
    /\ Unique(k.snd_buf)
    /\ \A s \in k.snd_buf : s.sn < k.snd_nxt /\ Carries(e, s.sn, s)
    /\ \A i \in 1 .. Len(k.snd_queue) : Carries(e, k.snd_nxt + i - 1, k.snd_queue[i])
    /\ \A n \in Nat : n < k.snd_nxt => n \in Sns(k.snd_buf) \/ Received(r, n)

\* The receiving half of a block k that receives the stream of p, of which the
\* numbers below limit have been given out.
RecvOK(p, k, limit) ==
    /\ Len(k.rcv_queue) <= k.rcv_nxt
    /\ k.rcv_nxt <= limit
    /\ Unique(k.rcv_buf)
    /\ \A s \in k.rcv_buf : k.rcv_nxt <= s.sn /\ s.sn < limit /\ Carries(p, s.sn, s)
    /\ \A i \in 1 .. Len(k.rcv_queue) :
          Carries(p, k.rcv_nxt - Len(k.rcv_queue) + i - 1, k.rcv_queue[i])
    /\ \A i \in 1 .. Len(k.acklist) : Received(k, k.acklist[i])

\* The frames that p, whose block is r, may have sent.
Frames(p, r) == {f \in Frame :
    /\ f.una <= r.rcv_nxt
    /\ f.cmd = "ACK" => Received(r, f.sn)
    /\ f.cmd = "PUSH" => f.sn < r.snd_nxt /\ Carries(p, f.sn, f)}

BlockOK(e, k, r) == k \in Block /\ SendOK(e, k, r) /\ RecvOK(Peer(e), k, r.snd_nxt)

\* The messages s passed to e's block k and the messages g taken from it, against
\* the two streams.
At(e, k, s, g) ==
    /\ Len(s) <= Len(Script[e])
    /\ \A m \in 1 .. Len(s) : s[m] = Payload(Fragments(m, Script[e][m]))
    /\ Stream(e)[k.snd_nxt + Len(k.snd_queue)] = <<Len(s) + 1, 1>>
    /\ Stream(Peer(e))[k.rcv_nxt - Len(k.rcv_queue)] = <<Len(g) + 1, 1>>

Blocks ==
    /\ DOMAIN kcp = End
    /\ \A e \in End : BlockOK(e, kcp[e], kcp[Peer(e)])

Links ==
    /\ DOMAIN link = End
    /\ \A e \in End : link[e] \in Seq(Seq(Frames(Peer(e), kcp[Peer(e)])))

Programs ==
    /\ sent \in [End -> Seq(Seq(Data))]
    /\ got \in [End -> Seq(Seq(Data))]
    /\ \A e \in End : At(e, kcp[e], sent[e], got[e])

IInv == Blocks /\ Links /\ Programs

-----------------------------------------------------------------------------
(* A datagram arrives.                                                      *)

LEMMA PeerOfPeer ==
    ASSUME NEW e \in End
    PROVE  /\ Peer(e) \in End /\ Peer(e) # e /\ Peer(Peer(e)) = e
           /\ \A d \in End : d = e \/ d = Peer(e)
<1>1. PICK a \in End, b \in End : a # b /\ End = {a, b}  BY TwoEnds
<1>2. Peer(a) = b /\ Peer(b) = a  BY <1>1 DEF Peer
<1> QED  BY <1>1, <1>2

\* The block x after reading part of a datagram that found the block k.
Since(k, x) ==
    /\ x.snd_nxt = k.snd_nxt
    /\ x.snd_queue = k.snd_queue
    /\ k.rcv_nxt <= x.rcv_nxt
    /\ x.rcv_nxt - Len(x.rcv_queue) = k.rcv_nxt - Len(k.rcv_queue)
    /\ \A n \in Nat : Received(k, n) => Received(x, n)

Good(e, k, r) == {x \in Block : BlockOK(e, x, r) /\ Since(k, x)}

\* The fields that the invariant is about.
Alike(x, y) ==
    /\ y.snd_nxt = x.snd_nxt /\ y.snd_buf = x.snd_buf /\ y.snd_queue = x.snd_queue
    /\ y.rcv_nxt = x.rcv_nxt /\ y.rcv_buf = x.rcv_buf /\ y.rcv_queue = x.rcv_queue
    /\ y.acklist = x.acklist

LEMMA AlikeGood ==
    ASSUME NEW e \in End, NEW k, NEW r, NEW x \in Good(e, k, r), NEW y \in Block, Alike(x, y)
    PROVE  y \in Good(e, k, r)
BY DEF Good, BlockOK, SendOK, RecvOK, Since, Received, Alike

LEMMA SinceSelf == ASSUME NEW k \in Block PROVE Since(k, k)
BY DEF Since, Block

LEMMA ShrinkBufUna ==
    ASSUME NEW x \in Block
    PROVE  ShrinkBuf(x) \in Block /\ Alike(x, ShrinkBuf(x))
<1>1. x.snd_nxt \in Nat /\ x.snd_buf \subseteq SndSeg  BY DEF Block
<1>2. ASSUME x.snd_buf # {} PROVE Min(Sns(x.snd_buf)) \in Nat
  <2>1. Sns(x.snd_buf) \subseteq Nat /\ Sns(x.snd_buf) # {}  BY <1>1, <1>2 DEF Sns, SndSeg
  <2> DEFINE T == Sns(x.snd_buf)
  <2> HIDE DEF T
  <2>2. \E m \in T : \A n \in T : m <= n  BY <2>1, LeastNat DEF T
  <2>3. Min(T) \in T  BY <2>2 DEF Min
  <2> QED  BY <2>1, <2>3 DEF T
<1> DEFINE una == IF x.snd_buf = {} THEN x.snd_nxt ELSE Min(Sns(x.snd_buf))
<1>3. una \in Nat  BY <1>1, <1>2
<1>4. ShrinkBuf(x) = [x EXCEPT !.snd_una = una]  BY DEF ShrinkBuf
<1> HIDE DEF una
<1> QED  BY <1>3, <1>4 DEF Block, Alike

LEMMA ParseUnaGood ==
    ASSUME NEW e \in End, NEW k, NEW r \in Block, NEW x \in Good(e, k, r),
           NEW una \in Nat, una <= r.rcv_nxt
    PROVE  ParseUna(x, una) \in Good(e, k, r)
<1> DEFINE buf == {s \in x.snd_buf : s.sn >= una}
           y == [x EXCEPT !.snd_buf = buf]
<1>1. x \in Block /\ BlockOK(e, x, r) /\ Since(k, x)  BY DEF Good
<1>2. y \in Block  BY <1>1 DEF Block
<1>3. /\ y.snd_nxt = x.snd_nxt /\ y.snd_buf = buf /\ y.snd_queue = x.snd_queue
      /\ y.rcv_nxt = x.rcv_nxt /\ y.rcv_buf = x.rcv_buf /\ y.rcv_queue = x.rcv_queue
      /\ y.acklist = x.acklist
  BY <1>1 DEF Block
<1>4. ParseUna(x, una) = y  BY DEF ParseUna
<1> HIDE DEF y
<1>5. \A n \in Nat : n < y.snd_nxt => n \in Sns(y.snd_buf) \/ Received(r, n)
  <2> SUFFICES ASSUME NEW n \in Nat, n < x.snd_nxt
               PROVE  n \in Sns(buf) \/ Received(r, n)
    BY <1>3
  <2>1. CASE Received(r, n)  BY <2>1
  <2>2. CASE n \in Sns(x.snd_buf) /\ n >= una  BY <2>2 DEF Sns
  <2>3. CASE n < una  BY <2>3 DEF Received, Block
  <2> QED  BY <1>1, <2>1, <2>2, <2>3 DEF BlockOK, SendOK
<1>6. SendOK(e, y, r)
  BY <1>1, <1>3, <1>5 DEF BlockOK, SendOK, Unique
<1>7. RecvOK(Peer(e), y, r.snd_nxt) /\ Since(k, y)
  BY <1>1, <1>3 DEF BlockOK, RecvOK, Since, Received
<1> QED  BY <1>2, <1>4, <1>6, <1>7 DEF Good, BlockOK

LEMMA ParseAckGood ==
    ASSUME NEW e \in End, NEW k, NEW r \in Block, NEW x \in Good(e, k, r),
           NEW sn \in Nat, Received(r, sn)
    PROVE  ParseAck(x, sn) \in Good(e, k, r)
<1> DEFINE overtaken(s) == s.sn < sn \/ sn \notin Sns(x.snd_buf)
           count(s) == IF overtaken(s)
                       THEN [s EXCEPT !.fastack = Least(@ + 1, x.fastresend)]
                       ELSE s
           buf == {count(s) : s \in {t \in x.snd_buf : t.sn # sn}}
           y == [x EXCEPT !.snd_buf = buf]
<1>1. x \in Block /\ BlockOK(e, x, r) /\ Since(k, x)  BY DEF Good
<1>2. \A s \in x.snd_buf : /\ count(s) \in SndSeg /\ count(s).sn = s.sn
                           /\ count(s).data = s.data /\ count(s).frg = s.frg
  <2> SUFFICES ASSUME NEW s \in x.snd_buf
               PROVE  /\ count(s) \in SndSeg /\ count(s).sn = s.sn
                      /\ count(s).data = s.data /\ count(s).frg = s.frg
    OBVIOUS
  <2>1. s \in SndSeg /\ x.fastresend \in Nat  BY <1>1 DEF Block
  <2>2. Least(s.fastack + 1, x.fastresend) \in Nat  BY <2>1 DEF Least, SndSeg
  <2> QED  BY <2>1, <2>2 DEF SndSeg
<1>3. /\ buf \subseteq SndSeg
      /\ \A b \in buf : \E s \in x.snd_buf : /\ b = count(s) /\ b.sn = s.sn
                                             /\ b.data = s.data /\ b.frg = s.frg
      /\ \A s \in x.snd_buf : s.sn # sn => \E b \in buf : b.sn = s.sn
  BY <1>2
<1>4. ParseAck(x, sn) = IF sn < x.snd_una \/ sn >= x.snd_nxt THEN x ELSE y
  BY DEF ParseAck
<1>5. y \in Block /\ y.snd_buf = buf
      /\ y.snd_nxt = x.snd_nxt /\ y.snd_queue = x.snd_queue
      /\ y.rcv_nxt = x.rcv_nxt /\ y.rcv_buf = x.rcv_buf /\ y.rcv_queue = x.rcv_queue
      /\ y.acklist = x.acklist
  <2> HIDE DEF buf
  <2> QED  BY <1>1, <1>3 DEF Block
<1> HIDE DEF y, buf, count
<1>6. \A n \in Nat : n < y.snd_nxt => n \in Sns(y.snd_buf) \/ Received(r, n)
  <2> SUFFICES ASSUME NEW n \in Nat, n < x.snd_nxt, ~ Received(r, n)
               PROVE  n \in Sns(buf)
    BY <1>5
  <2>1. PICK s \in x.snd_buf : s.sn = n  BY <1>1 DEF BlockOK, SendOK, Sns
  <2>2. n # sn  OBVIOUS
  <2> QED  BY <1>3, <2>1, <2>2 DEF Sns
<1>7. Unique(buf)
  <2> SUFFICES ASSUME NEW b \in buf, NEW c \in buf, b.sn = c.sn PROVE b = c
    BY DEF Unique
  <2> QED  BY <1>1, <1>3 DEF BlockOK, SendOK, Unique
<1>8. \A b \in buf : b.sn < x.snd_nxt /\ Carries(e, b.sn, b)
  BY <1>1, <1>3 DEF BlockOK, SendOK, Carries
<1>9. SendOK(e, y, r)
  BY <1>1, <1>5, <1>6, <1>7, <1>8 DEF BlockOK, SendOK
<1>10. RecvOK(Peer(e), y, r.snd_nxt) /\ Since(k, y)
  BY <1>1, <1>5 DEF BlockOK, RecvOK, Since, Received
<1> QED  BY <1>4, <1>5, <1>9, <1>10 DEF Good, BlockOK

\* The loop ends, and everything it went over is there.
LEMMA ReadyRunIs ==
    ASSUME NEW x \in Block
    PROVE  /\ ReadyRun(x) \in Nat
           /\ \A j \in 0 .. ReadyRun(x) - 1 : x.rcv_nxt + j \in Sns(x.rcv_buf)
<1> DEFINE room == Most(0, RcvWnd - Len(x.rcv_queue))
           T == {n \in 0 .. room : n = room \/ x.rcv_nxt + n \notin Sns(x.rcv_buf)}
           Ends(n) == /\ \A j \in 0 .. n - 1 : x.rcv_nxt + j \in Sns(x.rcv_buf)
                      /\ n = room \/ x.rcv_nxt + n \notin Sns(x.rcv_buf)
<1>1. room \in Nat  BY SizesFit DEF Most, Block
<1> HIDE DEF room
<1>2. PICK n \in T : \A m \in T : n <= m
  <2>1. T \subseteq Nat /\ room \in T  BY <1>1
  <2> HIDE DEF T
  <2> QED  BY <2>1, LeastNat
<1>3. \A j \in 0 .. n - 1 : x.rcv_nxt + j \in Sns(x.rcv_buf)
  <2> SUFFICES ASSUME NEW j \in 0 .. n - 1, x.rcv_nxt + j \notin Sns(x.rcv_buf) PROVE FALSE
    OBVIOUS
  <2>1. j \in T /\ ~ (n <= j)  BY <1>1
  <2> QED  BY <1>2, <2>1
<1>4. n \in 0 .. room /\ Ends(n)  BY <1>3
<1>5. ReadyRun(x) = CHOOSE m \in 0 .. room : Ends(m)  BY DEF ReadyRun, room
<1> HIDE DEF Ends
<1>6. ReadyRun(x) \in 0 .. room /\ Ends(ReadyRun(x))  BY <1>4, <1>5
<1> QED  BY <1>1, <1>6 DEF Ends

\* The receiving half of a block, without its acknowledgements.
Queued(p, k, limit) ==
    /\ Len(k.rcv_queue) <= k.rcv_nxt
    /\ k.rcv_nxt <= limit
    /\ Unique(k.rcv_buf)
    /\ \A s \in k.rcv_buf : k.rcv_nxt <= s.sn /\ s.sn < limit /\ Carries(p, s.sn, s)
    /\ \A i \in 1 .. Len(k.rcv_queue) :
          Carries(p, k.rcv_nxt - Len(k.rcv_queue) + i - 1, k.rcv_queue[i])

Moved(p, limit, x, y) ==
    /\ y \in Block /\ Queued(p, y, limit)
    /\ y.snd_nxt = x.snd_nxt /\ y.snd_buf = x.snd_buf
    /\ y.snd_queue = x.snd_queue /\ y.acklist = x.acklist
    /\ x.rcv_nxt <= y.rcv_nxt
    /\ y.rcv_nxt - Len(y.rcv_queue) = x.rcv_nxt - Len(x.rcv_queue)
    /\ \A n \in Nat : Received(x, n) => Received(y, n)

\* Moving segments to rcv_queue keeps the stream in order and loses nothing.
LEMMA MoveReadyQueued ==
    ASSUME NEW p, NEW limit \in Nat, NEW x \in Block, Queued(p, x, limit)
    PROVE  Moved(p, limit, x, MoveReady(x))
<1> DEFINE n == ReadyRun(x)
           next(i) == CHOOSE s \in x.rcv_buf : s.sn = x.rcv_nxt + i - 1
           moved == [i \in 1 .. n |-> next(i)]
           buf == {s \in x.rcv_buf : s.sn \notin x.rcv_nxt .. x.rcv_nxt + n - 1}
           queue == x.rcv_queue \o moved
           y == [x EXCEPT !.rcv_buf = buf, !.rcv_queue = queue, !.rcv_nxt = @ + n]
           len == Len(x.rcv_queue)
<1>1. MoveReady(x) = y  BY DEF MoveReady
<1>2. x.rcv_nxt \in Nat /\ x.rcv_buf \subseteq RcvSeg /\ x.rcv_queue \in Seq(RcvSeg)
      /\ len \in Nat
  BY DEF Block
<1>3. n \in Nat /\ \A j \in 0 .. n - 1 : x.rcv_nxt + j \in Sns(x.rcv_buf)  BY ReadyRunIs
<1> HIDE DEF n
<1>4. \A i \in 1 .. n : next(i) \in x.rcv_buf /\ next(i).sn = x.rcv_nxt + i - 1
  <2> SUFFICES ASSUME NEW i \in 1 .. n
               PROVE  next(i) \in x.rcv_buf /\ next(i).sn = x.rcv_nxt + i - 1
    OBVIOUS
  <2>1. i - 1 \in 0 .. n - 1 /\ x.rcv_nxt + (i - 1) = x.rcv_nxt + i - 1  BY <1>2, <1>3
  <2>2. \E s \in x.rcv_buf : s.sn = x.rcv_nxt + i - 1  BY <1>3, <2>1 DEF Sns
  <2> QED  BY <2>2
<1> HIDE DEF next
<1>5. moved \in Seq(RcvSeg) /\ Len(moved) = n /\ \A i \in 1 .. n : moved[i] = next(i)
  BY <1>2, <1>3, <1>4
<1> HIDE DEF moved
<1>6. /\ queue \in Seq(RcvSeg) /\ Len(queue) = len + n
      /\ \A i \in 1 .. len : queue[i] = x.rcv_queue[i]
      /\ \A i \in len + 1 .. len + n : queue[i] = next(i - len)
  <2>1. queue \in Seq(RcvSeg) /\ Len(queue) = len + n  BY <1>2, <1>5
  <2>2. \A i \in 1 .. len + n :
           queue[i] = IF i <= len THEN x.rcv_queue[i] ELSE moved[i - len]
    BY <1>2, <1>5
  <2>3. \A i \in 1 .. len : i \in 1 .. len + n /\ i <= len  BY <1>2, <1>3
  <2>4. \A i \in len + 1 .. len + n : i \in 1 .. len + n /\ ~ (i <= len) /\ i - len \in 1 .. n
    BY <1>2, <1>3
  <2> QED  BY <1>5, <2>1, <2>2, <2>3, <2>4
<1> HIDE DEF queue, buf, len
<1>7. buf \subseteq RcvSeg  BY <1>2 DEF buf
<1>8. /\ y \in Block /\ y.rcv_buf = buf /\ y.rcv_queue = queue /\ y.rcv_nxt = x.rcv_nxt + n
      /\ y.snd_nxt = x.snd_nxt /\ y.snd_buf = x.snd_buf
      /\ y.snd_queue = x.snd_queue /\ y.acklist = x.acklist
  <2>1. queue \in Seq(RcvSeg) /\ x.rcv_nxt + n \in Nat  BY <1>2, <1>3, <1>6
  <2>2. y \in Block  BY <1>7, <2>1 DEF Block
  <2>3. /\ y.rcv_buf = buf /\ y.rcv_queue = queue /\ y.rcv_nxt = x.rcv_nxt + n
        /\ y.snd_nxt = x.snd_nxt /\ y.snd_buf = x.snd_buf
        /\ y.snd_queue = x.snd_queue /\ y.acklist = x.acklist
    BY DEF Block
  <2> QED  BY <2>2, <2>3
<1> HIDE DEF y
<1>9. x.rcv_nxt + n <= limit
  <2>1. CASE n = 0  BY <1>2, <2>1 DEF Queued
  <2>2. CASE n # 0
    <3>1. n \in 1 .. n  BY <1>3, <2>2
    <3>2. next(n) \in x.rcv_buf /\ next(n).sn = x.rcv_nxt + n - 1  BY <1>4, <3>1
    <3>3. next(n).sn < limit  BY <3>2 DEF Queued
    <3> QED  BY <1>2, <1>3, <3>2, <3>3
  <2> QED  BY <2>1, <2>2
<1>10. \A s \in buf : x.rcv_nxt + n <= s.sn /\ s.sn < limit /\ Carries(p, s.sn, s)
  <2> SUFFICES ASSUME NEW s \in buf
               PROVE  x.rcv_nxt + n <= s.sn /\ s.sn < limit /\ Carries(p, s.sn, s)
    OBVIOUS
  <2>1. s \in x.rcv_buf /\ s.sn \notin x.rcv_nxt .. x.rcv_nxt + n - 1  BY DEF buf
  <2>2. s.sn \in Nat /\ x.rcv_nxt <= s.sn  BY <1>2, <2>1 DEF Queued, RcvSeg
  <2> QED  BY <1>2, <1>3, <2>1, <2>2 DEF Queued
<1>11. \A i \in 1 .. len + n :
          Carries(p, (x.rcv_nxt + n) - (len + n) + i - 1, queue[i])
  <2> SUFFICES ASSUME NEW i \in 1 .. len + n
               PROVE  Carries(p, (x.rcv_nxt + n) - (len + n) + i - 1, queue[i])
    OBVIOUS
  <2>0. (x.rcv_nxt + n) - (len + n) + i - 1 = x.rcv_nxt - len + i - 1  BY <1>2, <1>3
  <2>1. CASE i <= len
    <3>1. i \in 1 .. len  BY <1>2, <1>3, <2>1
    <3> QED  BY <1>6, <2>0, <3>1 DEF Queued, len
  <2>2. CASE ~ (i <= len)
    <3>1. i \in len + 1 .. len + n /\ i - len \in 1 .. n  BY <1>2, <1>3, <2>2
    <3>2. x.rcv_nxt + (i - len) - 1 = x.rcv_nxt - len + i - 1  BY <1>2
    <3>3. Carries(p, next(i - len).sn, next(i - len))  BY <1>4, <3>1 DEF Queued
    <3> QED  BY <1>4, <1>6, <2>0, <3>1, <3>2, <3>3
  <2> QED  BY <2>1, <2>2
<1>12. Queued(p, y, limit)
  <2>1. Unique(buf)  BY DEF Queued, Unique, buf
  <2>2. len + n <= x.rcv_nxt + n  BY <1>2, <1>3 DEF Queued, len
  <2> QED  BY <1>6, <1>8, <1>9, <1>10, <1>11, <2>1, <2>2 DEF Queued
<1>13. \A m \in Nat : Received(x, m) => Received(y, m)
  <2> SUFFICES ASSUME NEW m \in Nat, Received(x, m), ~ (m < x.rcv_nxt + n)
               PROVE  m \in Sns(buf)
    BY <1>8 DEF Received
  <2>1. ~ (m < x.rcv_nxt) /\ m \notin x.rcv_nxt .. x.rcv_nxt + n - 1  BY <1>2, <1>3
  <2> QED  BY <2>1 DEF Received, Sns, buf
<1>14. y.rcv_nxt - Len(y.rcv_queue) = x.rcv_nxt - Len(x.rcv_queue) /\ x.rcv_nxt <= y.rcv_nxt
  <2>1. Len(y.rcv_queue) = len + n /\ y.rcv_nxt = x.rcv_nxt + n  BY <1>6, <1>8
  <2> QED  BY <1>2, <1>3, <2>1 DEF len
<1> QED  BY <1>1, <1>8, <1>12, <1>13, <1>14 DEF Moved

LEMMA ParseDataGood ==
    ASSUME NEW e \in End, NEW k \in Block, NEW r \in Block, NEW x \in Good(e, k, r),
           NEW seg \in RcvSeg, seg.sn < x.rcv_nxt + RcvWnd,
           seg.sn < r.snd_nxt, Carries(Peer(e), seg.sn, seg)
    PROVE  ParseData(AckPush(x, seg.sn), seg) \in Good(e, k, r)
<1> DEFINE noted == AckPush(x, seg.sn)
           buf == IF seg.sn \in Sns(x.rcv_buf) THEN x.rcv_buf ELSE x.rcv_buf \cup {seg}
           held == IF seg.sn \in Sns(x.rcv_buf) THEN noted
                   ELSE [noted EXCEPT !.rcv_buf = @ \cup {seg}]
           y == ParseData(noted, seg)
<1>1. x \in Block /\ BlockOK(e, x, r) /\ Since(k, x)  BY DEF Good
<1>2. seg.sn \in Nat /\ x.acklist \in Seq(Nat) /\ x.rcv_nxt \in Nat /\ r.snd_nxt \in Nat
  BY <1>1 DEF Block, RcvSeg
<1>3. /\ noted \in Block /\ noted.acklist = Append(x.acklist, seg.sn)
      /\ noted.snd_nxt = x.snd_nxt /\ noted.snd_buf = x.snd_buf
      /\ noted.snd_queue = x.snd_queue /\ noted.rcv_nxt = x.rcv_nxt
      /\ noted.rcv_buf = x.rcv_buf /\ noted.rcv_queue = x.rcv_queue
  <2> DEFINE acks == Append(x.acklist, seg.sn)
             z == [x EXCEPT !.acklist = acks]
  <2>1. acks \in Seq(Nat)  BY <1>2
  <2> HIDE DEF acks
  <2>2. z \in Block  BY <1>1, <2>1 DEF Block
  <2>3. /\ z.acklist = acks /\ z.snd_nxt = x.snd_nxt /\ z.snd_buf = x.snd_buf
        /\ z.snd_queue = x.snd_queue /\ z.rcv_nxt = x.rcv_nxt
        /\ z.rcv_buf = x.rcv_buf /\ z.rcv_queue = x.rcv_queue
    BY <1>1 DEF Block
  <2>4. noted = z  BY DEF AckPush, acks
  <2> QED  BY <2>2, <2>3, <2>4 DEF acks
<1>4. Queued(Peer(e), noted, r.snd_nxt)  BY <1>1, <1>3 DEF Queued, BlockOK, RecvOK
<1> HIDE DEF noted
<1>5. /\ held \in Block /\ held.acklist = noted.acklist
      /\ held.snd_nxt = x.snd_nxt /\ held.snd_buf = x.snd_buf
      /\ held.snd_queue = x.snd_queue /\ held.rcv_nxt = x.rcv_nxt
      /\ held.rcv_buf = buf /\ held.rcv_queue = x.rcv_queue
  <2>1. CASE seg.sn \in Sns(x.rcv_buf)  BY <1>3, <2>1
  <2>2. CASE seg.sn \notin Sns(x.rcv_buf)
    <3> DEFINE z == [noted EXCEPT !.rcv_buf = @ \cup {seg}]
    <3>1. z \in Block  BY <1>3 DEF Block
    <3>2. /\ z.acklist = noted.acklist /\ z.snd_nxt = noted.snd_nxt /\ z.snd_buf = noted.snd_buf
          /\ z.snd_queue = noted.snd_queue /\ z.rcv_nxt = noted.rcv_nxt
          /\ z.rcv_buf = noted.rcv_buf \cup {seg} /\ z.rcv_queue = noted.rcv_queue
      BY <1>3 DEF Block
    <3>3. held = z /\ buf = noted.rcv_buf \cup {seg}  BY <1>3, <2>2
    <3> QED  BY <1>3, <3>1, <3>2, <3>3
  <2> QED  BY <2>1, <2>2
<1>6. y = IF seg.sn < x.rcv_nxt THEN noted ELSE MoveReady(held)
  BY <1>1, <1>2, <1>3, SizesFit DEF ParseData
<1> HIDE DEF held, y
<1>7. /\ y \in Block /\ Queued(Peer(e), y, r.snd_nxt)
      /\ y.snd_nxt = x.snd_nxt /\ y.snd_buf = x.snd_buf
      /\ y.snd_queue = x.snd_queue /\ y.acklist = noted.acklist
      /\ x.rcv_nxt <= y.rcv_nxt
      /\ y.rcv_nxt - Len(y.rcv_queue) = x.rcv_nxt - Len(x.rcv_queue)
      /\ \A n \in Nat : Received(x, n) => Received(y, n)
      /\ Received(y, seg.sn)
  <2>1. CASE seg.sn < x.rcv_nxt
    <3>1. y = noted  BY <1>6, <2>1
    <3> QED  BY <1>2, <1>3, <1>4, <2>1, <3>1 DEF Received
  <2>2. CASE ~ (seg.sn < x.rcv_nxt)
    <3>1. Queued(Peer(e), held, r.snd_nxt)
      <4>1. \A s \in buf : x.rcv_nxt <= s.sn /\ s.sn < r.snd_nxt /\ Carries(Peer(e), s.sn, s)
        BY <1>1, <1>2, <2>2 DEF BlockOK, RecvOK
      <4>2. Unique(buf)  BY <1>1 DEF BlockOK, RecvOK, Unique, Sns
      <4> HIDE DEF buf
      <4> QED  BY <1>3, <1>4, <1>5, <4>1, <4>2 DEF Queued
    <3>2. \A n \in Nat : Received(x, n) => Received(held, n)
      BY <1>5 DEF Received, Sns
    <3>3. Received(held, seg.sn)
      BY <1>5 DEF Received, Sns
    <3>4. y = MoveReady(held)  BY <1>6, <2>2
    <3> HIDE DEF buf
    <3>5. r.snd_nxt \in Nat /\ held \in Block  BY <1>2, <1>5
    <3>6. Moved(Peer(e), r.snd_nxt, held, y)  BY <3>1, <3>4, <3>5, MoveReadyQueued
    <3> QED  BY <1>2, <1>5, <3>2, <3>3, <3>6 DEF Moved
  <2> QED  BY <2>1, <2>2
<1>8. \A i \in 1 .. Len(y.acklist) : Received(y, y.acklist[i])
  <2> SUFFICES ASSUME NEW i \in 1 .. Len(noted.acklist)
               PROVE  Received(y, noted.acklist[i])
    BY <1>7
  <2>1. Len(noted.acklist) = Len(x.acklist) + 1  BY <1>2, <1>3
  <2>2. CASE i = Len(x.acklist) + 1
    <3>1. noted.acklist[i] = seg.sn  BY <1>2, <1>3, <2>2
    <3> QED  BY <1>7, <3>1
  <2>3. CASE i # Len(x.acklist) + 1
    <3>1. i \in 1 .. Len(x.acklist) /\ noted.acklist[i] = x.acklist[i]  BY <1>2, <1>3, <2>1, <2>3
    <3>2. Received(x, x.acklist[i]) /\ x.acklist[i] \in Nat
      BY <1>1, <1>2, <3>1 DEF BlockOK, RecvOK
    <3> QED  BY <1>7, <3>1, <3>2
  <2> QED  BY <2>2, <2>3
<1>9. RecvOK(Peer(e), y, r.snd_nxt)  BY <1>7, <1>8 DEF RecvOK, Queued
<1>10. SendOK(e, y, r)  BY <1>1, <1>7 DEF BlockOK, SendOK
<1>11. Since(k, y)
  <2>1. k.rcv_nxt <= y.rcv_nxt
    <3>1. k.rcv_nxt \in Nat /\ x.rcv_nxt \in Nat /\ y.rcv_nxt \in Nat  BY <1>1, <1>7 DEF Block
    <3>2. k.rcv_nxt <= x.rcv_nxt /\ x.rcv_nxt <= y.rcv_nxt  BY <1>1, <1>7 DEF Since
    <3> QED  BY <3>1, <3>2
  <2> QED  BY <1>1, <1>7, <2>1 DEF Since
<1> QED  BY <1>7, <1>9, <1>10, <1>11 DEF Good, BlockOK, y, noted

LEMMA InputSegmentGood ==
    ASSUME NEW e \in End, NEW k \in Block, NEW r \in Block, NEW x \in Good(e, k, r),
           NEW seg \in Frames(Peer(e), r)
    PROVE  InputSegment(x, seg) \in Good(e, k, r)
<1> DEFINE told == [x EXCEPT !.rmt_wnd = seg.wnd]
           una == ParseUna(told, seg.una)
           heard == ShrinkBuf(una)
<1>0. seg \in Frame /\ seg.una <= r.rcv_nxt  BY DEF Frames
<1>1. seg.una \in Nat /\ seg.wnd \in Nat /\ seg.sn \in Nat /\ seg.frg \in Nat /\ seg.data \in Data
  BY <1>0 DEF Frame
<1>2. told \in Good(e, k, r)
  <2>1. x \in Block  BY DEF Good
  <2>2. told \in Block /\ Alike(x, told)  BY <1>1, <2>1 DEF Block, Alike
  <2> HIDE DEF told
  <2> QED  BY <2>2, AlikeGood
<1> HIDE DEF told
<1>3. una \in Good(e, k, r)  BY <1>0, <1>1, <1>2, ParseUnaGood
<1>4. una.rcv_nxt = x.rcv_nxt
  <2>1. x \in Block /\ told \in Block  BY <1>2 DEF Good
  <2> QED  BY <2>1 DEF ParseUna, told, Block
<1> HIDE DEF una
<1>5. heard \in Good(e, k, r) /\ heard.rcv_nxt = x.rcv_nxt
  <2>1. una \in Block  BY <1>3 DEF Good
  <2>2. heard \in Block /\ Alike(una, heard)  BY <2>1, ShrinkBufUna
  <2> HIDE DEF heard
  <2> QED  BY <1>3, <1>4, <2>2, AlikeGood DEF Alike
<1> HIDE DEF heard
<1>6. InputSegment(x, seg) =
        CASE seg.cmd = "ACK"  -> ShrinkBuf(ParseAck(heard, seg.sn))
          [] seg.cmd = "PUSH" ->
                IF seg.sn >= x.rcv_nxt + RcvWnd THEN heard
                ELSE ParseData(AckPush(heard, seg.sn), [sn |-> seg.sn, frg |-> seg.frg,
                                                        data |-> seg.data])
          [] seg.cmd = "WASK" -> [heard EXCEPT !.probe = @ \cup {"TELL"}]
          [] seg.cmd = "WINS" -> heard
  BY DEF InputSegment, heard, una, told
<1>7. CASE seg.cmd = "ACK"
  <2>1. Received(r, seg.sn)  BY <1>7 DEF Frames
  <2> DEFINE y == ParseAck(heard, seg.sn)
  <2>2. y \in Good(e, k, r)  BY <1>1, <1>5, <2>1, ParseAckGood
  <2>3. InputSegment(x, seg) = ShrinkBuf(y)  BY <1>6, <1>7
  <2> HIDE DEF y
  <2>4. y \in Block  BY <2>2 DEF Good
  <2>5. ShrinkBuf(y) \in Block /\ Alike(y, ShrinkBuf(y))  BY <2>4, ShrinkBufUna
  <2> QED  BY <2>2, <2>3, <2>5, AlikeGood
<1>8. CASE seg.cmd = "PUSH"
  <2> DEFINE s == [sn |-> seg.sn, frg |-> seg.frg, data |-> seg.data]
  <2>1. s \in RcvSeg /\ s.sn < r.snd_nxt /\ Carries(Peer(e), s.sn, s)
    BY <1>1, <1>8 DEF Frames, RcvSeg, Carries
  <2>2. InputSegment(x, seg) = IF seg.sn >= x.rcv_nxt + RcvWnd THEN heard
                               ELSE ParseData(AckPush(heard, s.sn), s)
    BY <1>6, <1>8
  <2>3. s.sn = seg.sn  OBVIOUS
  <2> HIDE DEF s
  <2>4. CASE seg.sn >= x.rcv_nxt + RcvWnd  BY <1>5, <2>2, <2>4
  <2>5. CASE ~ (seg.sn >= x.rcv_nxt + RcvWnd)
    <3>1. x.rcv_nxt \in Nat  BY DEF Good, Block
    <3>2. s.sn < heard.rcv_nxt + RcvWnd  BY <1>1, <1>5, <2>3, <2>5, <3>1, SizesFit
    <3> QED  BY <1>5, <2>1, <2>2, <2>5, <3>2, ParseDataGood
  <2> QED  BY <2>4, <2>5
<1>9. CASE seg.cmd = "WASK"
  <2> DEFINE y == [heard EXCEPT !.probe = @ \cup {"TELL"}]
  <2>1. heard \in Block  BY <1>5 DEF Good
  <2>2. y \in Block /\ Alike(heard, y)  BY <2>1 DEF Block, Alike
  <2>3. InputSegment(x, seg) = y  BY <1>6, <1>9
  <2> HIDE DEF y
  <2> QED  BY <1>5, <2>2, <2>3, AlikeGood
<1>10. CASE seg.cmd = "WINS"  BY <1>5, <1>6, <1>10
<1> QED  BY <1>0, <1>7, <1>8, <1>9, <1>10 DEF Frame

LEMMA MssIsPositive == Mss \in Nat \ {0}
BY SizesFit DEF Mss

LEMMA WindowAlike ==
    ASSUME NEW x \in Block, NEW c \in Nat, NEW i \in Nat
    PROVE  LET y == [x EXCEPT !.cwnd = c, !.incr = i]
           IN  y \in Block /\ Alike(x, y) /\ y.ssthresh = x.ssthresh
BY DEF Block, Alike

\* The congestion window and what it is made of.
LEMMA GrowAlike ==
    ASSUME NEW x \in Block, NEW una
    PROVE  Grow(x, una) \in Block /\ Alike(x, Grow(x, una))
<1> DEFINE incr0 == Most(x.incr, Mss)
           incr1 == incr0 + (Mss * Mss) \div incr0 + Mss \div 16
           slow == [x EXCEPT !.cwnd = @ + 1, !.incr = @ + Mss]
           cwnd1 == IF (x.cwnd + 1) * Mss >= incr1 THEN x.cwnd + 1 ELSE x.cwnd
           avoid == [x EXCEPT !.cwnd = cwnd1, !.incr = incr1]
           grown == IF x.cwnd < x.ssthresh THEN slow ELSE avoid
           capped == [grown EXCEPT !.cwnd = x.rmt_wnd, !.incr = x.rmt_wnd * Mss]
<1>1. x.cwnd \in Nat /\ x.incr \in Nat /\ x.rmt_wnd \in Nat /\ x.ssthresh \in Nat
  BY DEF Block
<1>2. incr0 \in Nat \ {0}  BY <1>1, MssIsPositive DEF Most
<1> HIDE DEF incr0
<1>3. incr1 \in Nat
  <2>1. Mss * Mss \in Nat  BY MssIsPositive
  <2> DEFINE a == Mss * Mss
  <2> HIDE DEF a
  <2>2. a \div incr0 \in Nat  BY <1>2, <2>1 DEF a
  <2>3. Mss \div 16 \in Nat  BY MssIsPositive
  <2> QED  BY <1>2, <2>2, <2>3 DEF a
<1>4. cwnd1 \in Nat /\ x.rmt_wnd * Mss \in Nat /\ x.incr + Mss \in Nat
  BY <1>1, MssIsPositive
<1>5. Grow(x, una) = IF x.snd_una <= una \/ x.cwnd >= x.rmt_wnd THEN x
                     ELSE IF grown.cwnd > x.rmt_wnd THEN capped ELSE grown
  <2>1. Grow(x, una) = IF x.snd_una <= una \/ x.cwnd >= x.rmt_wnd THEN x
                       ELSE IF grown.cwnd > x.rmt_wnd
                       THEN [grown EXCEPT !.cwnd = x.rmt_wnd, !.incr = x.rmt_wnd * Mss]
                       ELSE grown
    BY DEF Grow, incr0
  <2> QED  BY <2>1
<1> HIDE DEF incr1, cwnd1
<1>6. slow \in Block /\ Alike(x, slow)
  <2> DEFINE c == x.cwnd + 1
             i == x.incr + Mss
  <2>1. c \in Nat /\ i \in Nat /\ slow = [x EXCEPT !.cwnd = c, !.incr = i]  BY <1>1, <1>4
  <2> HIDE DEF c, i, slow
  <2> QED  BY <2>1, WindowAlike
<1>7. avoid \in Block /\ Alike(x, avoid)  BY <1>3, <1>4, WindowAlike
<1>8. grown \in Block /\ Alike(x, grown)  BY <1>6, <1>7
<1> HIDE DEF grown
<1>9. capped \in Block /\ Alike(grown, capped)
  <2> DEFINE w == x.rmt_wnd
             v == x.rmt_wnd * Mss
  <2>1. w \in Nat /\ v \in Nat /\ capped = [grown EXCEPT !.cwnd = w, !.incr = v]  BY <1>1, <1>4
  <2> HIDE DEF w, v, capped
  <2> QED  BY <1>8, <2>1, WindowAlike
<1>10. Alike(x, capped)  BY <1>8, <1>9 DEF Alike
<1>11. Alike(x, x)  BY DEF Alike
<1> HIDE DEF capped
<1> QED  BY <1>5, <1>8, <1>9, <1>10, <1>11

LEMMA InputGood ==
    ASSUME NEW e \in End, NEW k \in Block, NEW r \in Block, BlockOK(e, k, r),
           NEW datagram \in Seq(Frames(Peer(e), r))
    PROVE  Input(k, datagram) \in Good(e, k, r)
<1> DEFINE S == Good(e, k, r)
           x == InputSegments(k, datagram)
<1>1. k \in S  BY SinceSelf DEF Good
<1>2. Len(datagram) \in Nat  OBVIOUS
<1>3. \A y \in S, i \in 1 .. Len(datagram) : InputSegment(y, datagram[i]) \in S
  <2> SUFFICES ASSUME NEW y \in S, NEW i \in 1 .. Len(datagram)
               PROVE  InputSegment(y, datagram[i]) \in S
    OBVIOUS
  <2>1. datagram[i] \in Frames(Peer(e), r)  OBVIOUS
  <2> QED  BY <2>1, InputSegmentGood
<1>4. x \in S
  <2> HIDE DEF S
  <2> QED  BY <1>1, <1>2, <1>3, InputSegmentsStay
<1> HIDE DEF x
<1>5. x \in Block  BY <1>4 DEF Good
<1>6. Grow(x, k.snd_una) \in Block /\ Alike(x, Grow(x, k.snd_una))  BY <1>5, GrowAlike
<1> QED  BY <1>4, <1>6, AlikeGood DEF Input, x

-----------------------------------------------------------------------------
(* A flush.                                                                 *)

\* Segments with numbers of their own, all below a bound, are finitely many.
LEMMA FiniteBuf ==
    ASSUME NEW buf, Unique(buf), NEW limit \in Nat,
           \A s \in buf : s.sn \in Nat /\ s.sn < limit
    PROVE  IsFiniteSet(buf)
<1> DEFINE T == Sns(buf)
           f == [s \in buf |-> s.sn]
<1>1. T \in SUBSET Nat /\ \A n \in T : n <= limit  BY DEF Sns
<1>2. f \in Injection(buf, T)  BY DEF Injection, IsInjective, Unique, Sns
<1> HIDE DEF T, f
<1>3. IsFiniteSet(T)  BY <1>1, FS_BoundedSetOfNaturals
<1> QED  BY <1>2, <1>3, FS_Injection

Below(buf, s) == {t \in buf : t.sn < s.sn}

\* Every place in the order of sn is taken.
LEMMA PlaceTaken ==
    ASSUME NEW U, Unique(U), \A s \in U : s.sn \in Nat
    PROVE  \A buf \in SUBSET U : IsFiniteSet(buf) =>
              \A i \in 1 .. Cardinality(buf) : \E s \in buf : Cardinality(Below(buf, s)) = i - 1
<1> DEFINE Placed(buf) ==
              \A i \in 1 .. Cardinality(buf) : \E s \in buf : Cardinality(Below(buf, s)) = i - 1
           S == {n \in Nat : \A buf \in SUBSET U :
                    IsFiniteSet(buf) /\ Cardinality(buf) = n => Placed(buf)}
<1>1. 0 \in S  OBVIOUS
<1>2. \A n \in Nat : n \in S => n + 1 \in S
  <2> SUFFICES ASSUME NEW n \in Nat, n \in S, NEW buf \in SUBSET U,
                      IsFiniteSet(buf), Cardinality(buf) = n + 1,
                      NEW i \in 1 .. n + 1
               PROVE  \E s \in buf : Cardinality(Below(buf, s)) = i - 1
    OBVIOUS
  <2>1. buf # {}  BY FS_EmptySet
  <2>2. PICK first \in buf : \A t \in buf : first.sn <= t.sn
    <3> DEFINE T == Sns(buf)
    <3>1. T \subseteq Nat /\ T # {}  BY <2>1 DEF Sns
    <3>2. PICK m \in T : \A t \in T : m <= t
      <4> HIDE DEF T
      <4> QED  BY <3>1, LeastNat
    <3> QED  BY <3>2 DEF Sns
  <2> DEFINE rest == buf \ {first}
  <2>3. IsFiniteSet(rest) /\ Cardinality(rest) = n /\ rest \in SUBSET U
    <3>1. IsFiniteSet(rest) /\ Cardinality(rest) = (n + 1) - 1  BY FS_RemoveElement
    <3> QED  BY <3>1
  <2>4. \A s \in rest : first.sn < s.sn
    BY <2>2 DEF Unique
  <2>5. CASE i = 1
    <3>1. Below(buf, first) = {}  BY <2>2 DEF Below
    <3>2. Cardinality({}) = 0  BY FS_EmptySet
    <3>3. Cardinality(Below(buf, first)) = i - 1  BY <2>5, <3>1, <3>2
    <3> QED  BY <3>3
  <2>6. CASE i # 1
    <3>1. i - 1 \in 1 .. n  BY <2>6
    <3>2. PICK s \in rest : Cardinality(Below(rest, s)) = (i - 1) - 1
      <4> HIDE DEF rest
      <4>1. \A b \in SUBSET U : IsFiniteSet(b) /\ Cardinality(b) = n => Placed(b)
        OBVIOUS
      <4>2. Placed(rest)  BY <2>3, <4>1
      <4> QED  BY <2>3, <3>1, <4>2
    <3>3. Below(buf, s) = Below(rest, s) \cup {first} /\ first \notin Below(rest, s)
      BY <2>4, <3>2 DEF Below
    <3>4. IsFiniteSet(Below(rest, s))
      <4>1. Below(rest, s) \in SUBSET rest  BY DEF Below
      <4> HIDE DEF rest
      <4> QED  BY <2>3, <4>1, FS_Subset
    <3>5. Cardinality(Below(buf, s)) = ((i - 1) - 1) + 1
      <4> DEFINE before == Below(rest, s)
      <4> HIDE DEF before
      <4>1. Cardinality(before \cup {first}) =
              IF first \in before THEN Cardinality(before) ELSE Cardinality(before) + 1
        BY <3>4, FS_AddElement DEF before
      <4> QED  BY <3>2, <3>3, <4>1 DEF before
    <3>6. s \in buf /\ ((i - 1) - 1) + 1 = i - 1  OBVIOUS
    <3> QED  BY <3>5, <3>6
  <2> QED  BY <2>5, <2>6
<1>3. Nat \subseteq S
  <2> HIDE DEF S
  <2> QED  BY <1>1, <1>2, NatInd
<1>4. ASSUME NEW buf \in SUBSET U, IsFiniteSet(buf) PROVE Placed(buf)
  <2>1. Cardinality(buf) \in Nat  BY <1>4, FS_CardinalityType
  <2>2. Cardinality(buf) \in S  BY <1>3, <2>1
  <2> QED  BY <1>4, <2>2
<1> QED  BY <1>4

LEMMA BySnLists ==
    ASSUME NEW buf, IsFiniteSet(buf), Unique(buf), \A s \in buf : s.sn \in Nat
    PROVE  BySn(buf) \in Seq(buf)
<1> DEFINE n == Cardinality(buf)
           at(i) == CHOOSE s \in buf : Cardinality(Below(buf, s)) = i - 1
<1>1. n \in Nat  BY FS_CardinalityType
<1>2. \A i \in 1 .. n : \E s \in buf : Cardinality(Below(buf, s)) = i - 1
  BY PlaceTaken
<1>3. \A i \in 1 .. n : at(i) \in buf  BY <1>2
<1>4. BySn(buf) = [i \in 1 .. n |-> at(i)]  BY DEF BySn, Below
<1> HIDE DEF at, n
<1> QED  BY <1>1, <1>3, <1>4

LEMMA ProbeAlike ==
    ASSUME NEW x \in Block, NEW expired
    PROVE  Probe(x, expired) \in Block /\ Alike(x, Probe(x, expired))
BY DEF Probe, Block, Alike

\* Segments leave snd_queue with the numbers that their place in it stands for.
LEMMA EnqueueGood ==
    ASSUME NEW e \in End, NEW r, NEW x \in Block, SendOK(e, x, r)
    PROVE  /\ Enqueue(x) \in Block /\ SendOK(e, Enqueue(x), r)
           /\ x.snd_nxt <= Enqueue(x).snd_nxt
           /\ Enqueue(x).snd_nxt + Len(Enqueue(x).snd_queue) = x.snd_nxt + Len(x.snd_queue)
           /\ Enqueue(x).rcv_nxt = x.rcv_nxt /\ Enqueue(x).rcv_buf = x.rcv_buf
           /\ Enqueue(x).rcv_queue = x.rcv_queue /\ Enqueue(x).acklist = x.acklist
<1> DEFINE room == Most(0, x.snd_una + SendWindow(x) - x.snd_nxt)
           n == Least(Len(x.snd_queue), room)
           seg(i) == [frg |-> x.snd_queue[i].frg, len |-> x.snd_queue[i].len,
                      data |-> x.snd_queue[i].data, sn |-> x.snd_nxt + i - 1,
                      fastack |-> 0, sent |-> FALSE]
           numbered == {seg(i) : i \in 1 .. n}
           queue == SubSeq(x.snd_queue, n + 1, Len(x.snd_queue))
           buf == x.snd_buf \cup numbered
           y == [x EXCEPT !.snd_queue = queue, !.snd_buf = buf, !.snd_nxt = @ + n]
           len == Len(x.snd_queue)
<1>1. Enqueue(x) = y  BY DEF Enqueue
<1>2. x.snd_nxt \in Nat /\ x.snd_una \in Nat /\ x.snd_queue \in Seq(QueueSeg)
      /\ x.snd_buf \subseteq SndSeg /\ len \in Nat
  BY DEF Block
<1>3. n \in 0 .. len
  <2>1. SendWindow(x) \in Nat
    BY SizesFit DEF SendWindow, Least, Block
  <2>2. room \in Nat  BY <1>2, <2>1 DEF Most
  <2> HIDE DEF room
  <2> QED  BY <1>2, <2>2 DEF Least
<1> HIDE DEF n, len
<1>4. \A i \in 1 .. n : /\ seg(i) \in SndSeg
                        /\ seg(i).sn = x.snd_nxt + i - 1 /\ Carries(e, seg(i).sn, seg(i))
  <2> SUFFICES ASSUME NEW i \in 1 .. n
               PROVE  /\ seg(i) \in SndSeg
                      /\ seg(i).sn = x.snd_nxt + i - 1 /\ Carries(e, seg(i).sn, seg(i))
    OBVIOUS
  <2>1. i \in 1 .. Len(x.snd_queue) /\ i \in Nat /\ i >= 1  BY <1>2, <1>3 DEF len
  <2>2. x.snd_queue[i] \in QueueSeg  BY <1>2, <2>1
  <2>3. x.snd_nxt + i - 1 \in Nat  BY <1>2, <2>1
  <2>4. seg(i) \in SndSeg  BY <2>2, <2>3 DEF QueueSeg, SndSeg
  <2>5. Carries(e, x.snd_nxt + i - 1, x.snd_queue[i])  BY <2>1 DEF SendOK
  <2> QED  BY <2>4, <2>5 DEF Carries
<1>5. /\ numbered \subseteq SndSeg
      /\ \A s \in numbered : \E i \in 1 .. n : s = seg(i) /\ s.sn = x.snd_nxt + i - 1
      /\ \A s \in numbered : Carries(e, s.sn, s)
  BY <1>4
<1>6. \A i \in 1 .. n : x.snd_nxt + i - 1 \in Sns(numbered)
  <2> SUFFICES ASSUME NEW i \in 1 .. n PROVE x.snd_nxt + i - 1 \in Sns(numbered)
    OBVIOUS
  <2>1. seg(i) \in numbered  OBVIOUS
  <2> HIDE DEF numbered
  <2> QED  BY <1>4, <2>1 DEF Sns
<1> HIDE DEF seg, numbered
<1>7. /\ queue \in Seq(QueueSeg) /\ Len(queue) = len - n
      /\ \A i \in 1 .. len - n : queue[i] = x.snd_queue[n + i]
  BY <1>2, <1>3 DEF len
<1> HIDE DEF queue
<1>8. buf \subseteq SndSeg  BY <1>2, <1>5
<1> HIDE DEF buf
<1>9. /\ y \in Block
      /\ y.snd_queue = queue /\ y.snd_buf = buf /\ y.snd_nxt = x.snd_nxt + n
      /\ y.rcv_nxt = x.rcv_nxt /\ y.rcv_buf = x.rcv_buf
      /\ y.rcv_queue = x.rcv_queue /\ y.acklist = x.acklist
  <2>1. x.snd_nxt + n \in Nat  BY <1>2, <1>3
  <2>2. y \in Block  BY <1>7, <1>8, <2>1 DEF Block
  <2> QED  BY <2>2 DEF Block
<1> HIDE DEF y
<1>10. \A s \in buf : s.sn < x.snd_nxt + n /\ Carries(e, s.sn, s)
  <2> SUFFICES ASSUME NEW s \in buf PROVE s.sn < x.snd_nxt + n /\ Carries(e, s.sn, s)
    OBVIOUS
  <2>1. CASE s \in x.snd_buf
    <3>1. s.sn \in Nat /\ s.sn < x.snd_nxt /\ Carries(e, s.sn, s)
      BY <1>2, <2>1 DEF SendOK, SndSeg
    <3> QED  BY <1>2, <1>3, <3>1
  <2>2. CASE s \in numbered
    <3>1. PICK i \in 1 .. n : s.sn = x.snd_nxt + i - 1  BY <1>5, <2>2
    <3>2. s.sn < x.snd_nxt + n  BY <1>2, <1>3, <3>1
    <3> QED  BY <1>5, <2>2, <3>2
  <2> QED  BY <2>1, <2>2 DEF buf
<1>11. Unique(buf)
  <2>1. \A s \in x.snd_buf, t \in numbered : s.sn # t.sn
    <3> SUFFICES ASSUME NEW s \in x.snd_buf, NEW t \in numbered PROVE s.sn # t.sn
      OBVIOUS
    <3>1. PICK i \in 1 .. n : t.sn = x.snd_nxt + i - 1  BY <1>5
    <3>2. s.sn \in Nat /\ s.sn < x.snd_nxt  BY <1>2 DEF SendOK, SndSeg
    <3> QED  BY <1>2, <1>3, <3>1, <3>2
  <2>2. Unique(numbered)
    <3> SUFFICES ASSUME NEW s \in numbered, NEW t \in numbered, s.sn = t.sn PROVE s = t
      BY DEF Unique
    <3>1. PICK i \in 1 .. n : s = seg(i) /\ s.sn = x.snd_nxt + i - 1  BY <1>5
    <3>2. PICK j \in 1 .. n : t = seg(j) /\ t.sn = x.snd_nxt + j - 1  BY <1>5
    <3>3. i = j  BY <1>2, <1>3, <3>1, <3>2
    <3> QED  BY <3>1, <3>2, <3>3
  <2>3. Unique(x.snd_buf)  BY DEF SendOK
  <2> QED  BY <2>1, <2>2, <2>3 DEF Unique, buf
<1>12. \A i \in 1 .. len - n : Carries(e, (x.snd_nxt + n) + i - 1, queue[i])
  <2> SUFFICES ASSUME NEW i \in 1 .. len - n
               PROVE  Carries(e, (x.snd_nxt + n) + i - 1, queue[i])
    OBVIOUS
  <2>1. n + i \in 1 .. Len(x.snd_queue)  BY <1>2, <1>3 DEF len
  <2>2. x.snd_nxt + (n + i) - 1 = (x.snd_nxt + n) + i - 1  BY <1>2, <1>3
  <2>3. Carries(e, x.snd_nxt + (n + i) - 1, x.snd_queue[n + i])  BY <2>1 DEF SendOK
  <2> QED  BY <1>7, <2>2, <2>3
<1>13. \A m \in Nat : m < x.snd_nxt + n => m \in Sns(buf) \/ Received(r, m)
  <2> SUFFICES ASSUME NEW m \in Nat, m < x.snd_nxt + n
               PROVE  m \in Sns(buf) \/ Received(r, m)
    OBVIOUS
  <2>1. CASE m < x.snd_nxt
    BY <2>1 DEF SendOK, Sns, buf
  <2>2. CASE ~ (m < x.snd_nxt)
    <3>1. m - x.snd_nxt + 1 \in 1 .. n /\ x.snd_nxt + (m - x.snd_nxt + 1) - 1 = m
      BY <1>2, <1>3, <2>2
    <3>2. m \in Sns(numbered)  BY <1>6, <3>1
    <3> QED  BY <3>2 DEF Sns, buf
  <2> QED  BY <2>1, <2>2
<1>14. SendOK(e, y, r)
  BY <1>7, <1>9, <1>10, <1>11, <1>12, <1>13 DEF SendOK
<1>15. x.snd_nxt <= y.snd_nxt /\ y.snd_nxt + Len(y.snd_queue) = x.snd_nxt + Len(x.snd_queue)
  <2>1. y.snd_nxt = x.snd_nxt + n /\ Len(y.snd_queue) = len - n  BY <1>7, <1>9
  <2> QED  BY <1>2, <1>3, <2>1 DEF len
<1> QED  BY <1>1, <1>9, <1>14, <1>15

\* What a flush puts out.
LEMMA OutputFrames ==
    ASSUME NEW e \in End, NEW r \in Block, NEW x \in Block, BlockOK(e, x, r), NEW due
    PROVE  Output(x, due) \in Seq(Frames(e, x))
<1> DEFINE F == Frames(e, x)
           unused == WndUnused(x)
           control(cmd, sn) == [cmd |-> cmd, sn |-> sn, frg |-> 0, len |-> 0, data |-> <<>>,
                                wnd |-> unused, una |-> x.rcv_nxt]
           push(s) == [cmd |-> "PUSH", sn |-> s.sn, frg |-> s.frg, len |-> s.len,
                       data |-> s.data, wnd |-> unused, una |-> x.rcv_nxt]
           chosen == {s \in x.snd_buf :
                        ~s.sent \/ TimedOut(s, due) \/ Overtaken(x, s, due)}
           again == BySn(chosen)
           acks == [i \in DOMAIN x.acklist |-> control("ACK", x.acklist[i])]
           probe == IF "SEND" \in x.probe THEN <<control("WASK", 0)>> ELSE <<>>
           answer == IF "TELL" \in x.probe THEN <<control("WINS", 0)>> ELSE <<>>
           pushes == [i \in DOMAIN again |-> push(again[i])]
<1>1. x.rcv_nxt \in Nat /\ unused \in Nat /\ x.acklist \in Seq(Nat) /\ x.snd_buf \subseteq SndSeg
      /\ x.snd_nxt \in Nat
  <2>1. x.rcv_nxt \in Nat /\ x.acklist \in Seq(Nat) /\ x.snd_buf \subseteq SndSeg
        /\ x.snd_nxt \in Nat /\ x.rcv_queue \in Seq(RcvSeg)
    BY DEF Block
  <2>2. Len(x.rcv_queue) \in Nat  BY <2>1
  <2>3. unused \in Nat  BY <2>2, SizesFit DEF WndUnused, Most
  <2> QED  BY <2>1, <2>3
<1> HIDE DEF unused
<1>2. control("WASK", 0) \in F /\ control("WINS", 0) \in F
  BY <1>1 DEF Frames, Frame, Data
<1>3. \A i \in 1 .. Len(x.acklist) : control("ACK", x.acklist[i]) \in F
  <2> SUFFICES ASSUME NEW i \in 1 .. Len(x.acklist) PROVE control("ACK", x.acklist[i]) \in F
    OBVIOUS
  <2>1. x.acklist[i] \in Nat /\ Received(x, x.acklist[i])  BY <1>1 DEF BlockOK, RecvOK
  <2> QED  BY <1>1, <2>1 DEF Frames, Frame, Data
<1>4. \A s \in x.snd_buf : push(s) \in F
  <2> SUFFICES ASSUME NEW s \in x.snd_buf PROVE push(s) \in F
    OBVIOUS
  <2>1. s \in SndSeg /\ s.sn < x.snd_nxt /\ Carries(e, s.sn, s)  BY <1>1 DEF BlockOK, SendOK
  <2> QED  BY <1>1, <2>1 DEF Frames, Frame, SndSeg, Carries
<1>5. again \in Seq(x.snd_buf)
  <2>1. Unique(x.snd_buf) /\ \A s \in x.snd_buf : s.sn \in Nat /\ s.sn < x.snd_nxt
    BY <1>1 DEF BlockOK, SendOK, SndSeg
  <2>2. IsFiniteSet(x.snd_buf)  BY <1>1, <2>1, FiniteBuf
  <2>3. chosen \in SUBSET x.snd_buf  OBVIOUS
  <2> HIDE DEF chosen
  <2>4. IsFiniteSet(chosen)  BY <2>2, <2>3, FS_Subset
  <2>5. Unique(chosen) /\ \A s \in chosen : s.sn \in Nat  BY <2>1, <2>3 DEF Unique
  <2>6. again \in Seq(chosen)  BY <2>4, <2>5, BySnLists
  <2> HIDE DEF again
  <2> QED  BY <2>3, <2>6
<1>6. Output(x, due) = acks \o probe \o answer \o pushes  BY DEF Output, unused
<1> HIDE DEF control, push, again
<1>7. acks \in Seq(F)
  <2>1. DOMAIN x.acklist = 1 .. Len(x.acklist) /\ Len(x.acklist) \in Nat  BY <1>1
  <2> HIDE DEF F
  <2> QED  BY <1>3, <2>1
<1>8. pushes \in Seq(F)
  <2>1. DOMAIN again = 1 .. Len(again) /\ Len(again) \in Nat
        /\ \A i \in 1 .. Len(again) : again[i] \in x.snd_buf
    BY <1>5
  <2> HIDE DEF F
  <2> QED  BY <1>4, <2>1
<1>9. probe \in Seq(F) /\ answer \in Seq(F)
  <2> HIDE DEF F
  <2> QED  BY <1>2
<1> HIDE DEF acks, probe, answer, pushes, F
<1>10. acks \o probe \o answer \o pushes \in Seq(F)  BY <1>7, <1>8, <1>9
<1> QED  BY <1>6, <1>10 DEF F

LEMMA ShrinkAlike ==
    ASSUME NEW x \in Block, NEW window \in Nat, NEW change \in BOOLEAN, NEW lost \in BOOLEAN
    PROVE  Shrink(x, window, change, lost) \in Block
           /\ Alike(x, Shrink(x, window, change, lost))
<1> DEFINE halved(n) == Most(ThreshMin, n \div 2)
           t == halved(x.snd_nxt - x.snd_una)
           cut == [x EXCEPT !.ssthresh = t, !.cwnd = t + x.fastresend,
                            !.incr = (t + x.fastresend) * Mss]
           slowed == IF ~change THEN x ELSE cut
           h == halved(window)
           one == [slowed EXCEPT !.ssthresh = h, !.cwnd = 1, !.incr = Mss]
           timedOut == IF ~lost THEN slowed ELSE one
           least == [timedOut EXCEPT !.cwnd = 1, !.incr = Mss]
<1>1. \A n \in Int : halved(n) \in Nat
  <2> SUFFICES ASSUME NEW n \in Int PROVE Most(ThreshMin, n \div 2) \in Nat
    OBVIOUS
  <2>1. n \div 2 \in Int  OBVIOUS
  <2> QED  BY <2>1 DEF Most, ThreshMin
<1>2. t \in Nat /\ h \in Nat /\ x.fastresend \in Nat
  <2>1. x.snd_nxt - x.snd_una \in Int /\ x.fastresend \in Nat  BY DEF Block
  <2> HIDE DEF halved
  <2> QED  BY <1>1, <2>1
<1>3. Shrink(x, window, change, lost) = IF timedOut.cwnd < 1 THEN least ELSE timedOut
  <2>1. slowed = IF ~change THEN x ELSE cut  OBVIOUS
  <2> QED  BY DEF Shrink
<1> HIDE DEF halved, t, h
<1>4. cut \in Block /\ Alike(x, cut)
  <2> DEFINE c == t + x.fastresend
             i == c * Mss
             y == [x EXCEPT !.ssthresh = t, !.cwnd = c, !.incr = i]
  <2>1. c \in Nat /\ i \in Nat  BY <1>2, MssIsPositive
  <2>2. cut = y  OBVIOUS
  <2> HIDE DEF c, i, cut
  <2>3. y \in Block /\ Alike(x, y)  BY <1>2, <2>1 DEF Block, Alike
  <2> QED  BY <2>2, <2>3
<1>5. slowed \in Block /\ Alike(x, slowed)  BY <1>4 DEF Alike
<1> HIDE DEF slowed
<1>6. one \in Block /\ Alike(slowed, one)  BY <1>2, <1>5, MssIsPositive DEF Block, Alike
<1>7. timedOut \in Block /\ Alike(x, timedOut)  BY <1>5, <1>6 DEF Alike
<1> HIDE DEF timedOut
<1>8. least \in Block /\ Alike(timedOut, least)
  <2>1. 1 \in Nat /\ Mss \in Nat  BY MssIsPositive
  <2> QED  BY <1>7, <2>1, WindowAlike
<1>9. Alike(x, least)  BY <1>7, <1>8 DEF Alike
<1> QED  BY <1>3, <1>7, <1>8, <1>9

\* A flush sends segments again and forgets none.
LEMMA FlushedGood ==
    ASSUME NEW e \in End, NEW r \in Block, NEW x \in Block, BlockOK(e, x, r), NEW due
    PROVE  /\ Flushed(x, due) \in Block /\ BlockOK(e, Flushed(x, due), r)
           /\ Flushed(x, due).snd_nxt = x.snd_nxt
           /\ Flushed(x, due).snd_queue = x.snd_queue
           /\ Flushed(x, due).rcv_nxt = x.rcv_nxt
           /\ Flushed(x, due).rcv_buf = x.rcv_buf
           /\ Flushed(x, due).rcv_queue = x.rcv_queue
<1> DEFINE touch(s) == [s EXCEPT !.sent = TRUE,
                                 !.fastack = IF Overtaken(x, s, due) THEN 0 ELSE @]
           buf == {touch(s) : s \in x.snd_buf}
           y == [x EXCEPT !.acklist = <<>>, !.probe = {}, !.snd_buf = buf]
           change == \E s \in x.snd_buf : Overtaken(x, s, due)
           lost == \E s \in x.snd_buf : TimedOut(s, due)
           z == Shrink(y, SendWindow(x), change, lost)
<1>1. Flushed(x, due) = z  BY DEF Flushed
<1>2. \A s \in x.snd_buf : /\ touch(s) \in SndSeg /\ touch(s).sn = s.sn
                           /\ touch(s).data = s.data /\ touch(s).frg = s.frg
  <2> SUFFICES ASSUME NEW s \in x.snd_buf
               PROVE  /\ touch(s) \in SndSeg /\ touch(s).sn = s.sn
                      /\ touch(s).data = s.data /\ touch(s).frg = s.frg
    OBVIOUS
  <2>1. s \in SndSeg  BY DEF Block
  <2> QED  BY <2>1 DEF SndSeg
<1>3. /\ buf \subseteq SndSeg
      /\ \A b \in buf : \E s \in x.snd_buf : /\ b = touch(s) /\ b.sn = s.sn
                                             /\ b.data = s.data /\ b.frg = s.frg
      /\ \A s \in x.snd_buf : \E b \in buf : b.sn = s.sn
  BY <1>2
<1> HIDE DEF touch, buf
<1>4. /\ y \in Block /\ y.snd_buf = buf /\ y.acklist = <<>>
      /\ y.snd_nxt = x.snd_nxt /\ y.snd_queue = x.snd_queue
      /\ y.rcv_nxt = x.rcv_nxt /\ y.rcv_buf = x.rcv_buf /\ y.rcv_queue = x.rcv_queue
  <2>1. <<>> \in Seq(Nat)  OBVIOUS
  <2> QED  BY <1>3, <2>1 DEF Block
<1> HIDE DEF y
<1>5. z \in Block /\ Alike(y, z)
  <2>1. SendWindow(x) \in Nat  BY SizesFit DEF SendWindow, Least, Block
  <2>2. change \in BOOLEAN /\ lost \in BOOLEAN  OBVIOUS
  <2> HIDE DEF change, lost
  <2> QED  BY <1>4, <2>1, <2>2, ShrinkAlike
<1> HIDE DEF z
<1>6. /\ z.snd_buf = buf /\ z.acklist = <<>>
      /\ z.snd_nxt = x.snd_nxt /\ z.snd_queue = x.snd_queue
      /\ z.rcv_nxt = x.rcv_nxt /\ z.rcv_buf = x.rcv_buf /\ z.rcv_queue = x.rcv_queue
  BY <1>4, <1>5 DEF Alike
<1>7. SendOK(e, x, r) /\ RecvOK(Peer(e), x, r.snd_nxt)  BY DEF BlockOK
<1>8. Unique(buf)  BY <1>3, <1>7 DEF SendOK, Unique
<1>9. \A b \in buf : b.sn < x.snd_nxt /\ Carries(e, b.sn, b)
  BY <1>3, <1>7 DEF SendOK, Carries
<1>10. \A n \in Nat : n < x.snd_nxt => n \in Sns(buf) \/ Received(r, n)
  <2>1. \A n \in Sns(x.snd_buf) : n \in Sns(buf)  BY <1>3 DEF Sns
  <2> QED  BY <1>7, <2>1 DEF SendOK
<1>11. SendOK(e, z, r)  BY <1>6, <1>7, <1>8, <1>9, <1>10 DEF SendOK
<1>12. RecvOK(Peer(e), z, r.snd_nxt)
  <2>1. Len(z.acklist) = 0  BY <1>6
  <2> QED  BY <1>6, <1>7, <2>1 DEF RecvOK
<1> QED  BY <1>1, <1>5, <1>6, <1>11, <1>12 DEF BlockOK

-----------------------------------------------------------------------------
(* lkcp_send and lkcp_recv.                                                 *)

LEMMA SendGood ==
    ASSUME NEW e \in End, NEW r, NEW k \in Block, BlockOK(e, k, r),
           NEW m \in 1 .. Len(Script[e]),
           Stream(e)[k.snd_nxt + Len(k.snd_queue)] = <<m, 1>>,
           NEW x, x = [k EXCEPT !.snd_queue = @ \o Fragments(m, Script[e][m])]
    PROVE  /\ x \in Block /\ BlockOK(e, x, r)
           /\ x.snd_nxt = k.snd_nxt /\ x.rcv_nxt = k.rcv_nxt
           /\ x.rcv_buf = k.rcv_buf /\ x.rcv_queue = k.rcv_queue
           /\ Stream(e)[x.snd_nxt + Len(x.snd_queue)] = <<m + 1, 1>>
           /\ Payload(Fragments(m, Script[e][m])) \in Seq(Data)
<1> DEFINE segs == Fragments(m, Script[e][m])
           c == Len(segs)
           len == Len(k.snd_queue)
           queue == k.snd_queue \o segs
<1>1. k.snd_nxt \in Nat /\ k.snd_queue \in Seq(QueueSeg) /\ len \in Nat
  BY DEF Block
<1>2. Script[e] \in Seq(Nat) /\ m \in Nat \ {0} /\ m \in DOMAIN Script[e] /\ Script[e][m] \in Nat
  <2>1. Script[e] \in Seq(Nat)  BY ScriptIsSizes
  <2> QED  BY <2>1
<1>3. /\ c \in Nat \ {0} /\ DOMAIN segs = 1 .. c
      /\ \A i \in 1 .. c : /\ segs[i].frg = c - i /\ segs[i].data = <<m, i>>
                           /\ segs[i].len \in Int
                           /\ segs[i] = [frg |-> segs[i].frg, data |-> segs[i].data,
                                         len |-> segs[i].len]
  BY <1>2, FragmentsLen
<1>4. c = Count(e, m)  BY <1>2 DEF Count
<1>5. segs = [i \in 1 .. c |-> segs[i]]
  <2>1. \E n : \E G : segs = [i \in 1 .. n |-> G[i]]
    <3> DEFINE n == IF Script[e][m] <= Mss THEN 1 ELSE (Script[e][m] + Mss - 1) \div Mss
               G == [i \in 1 .. n |-> [frg |-> n - i, data |-> <<m, i>>,
                                       len |-> Least(Mss, Script[e][m] - (i - 1) * Mss)]]
    <3>1. segs = G  BY DEF Fragments
    <3>2. G = [i \in 1 .. n |-> G[i]]  OBVIOUS
    <3> HIDE DEF G, n
    <3> QED  BY <3>1, <3>2
  <2> QED  BY <1>3, <2>1
<1> HIDE DEF segs, c, len
<1>6. \A i \in 1 .. c : segs[i] \in QueueSeg
  <2> SUFFICES ASSUME NEW i \in 1 .. c PROVE segs[i] \in QueueSeg
    OBVIOUS
  <2>1. i \in Nat /\ c - i \in Nat  BY <1>3
  <2>2. /\ segs[i].frg = c - i /\ segs[i].data = <<m, i>> /\ segs[i].len \in Int
        /\ segs[i] = [frg |-> segs[i].frg, data |-> segs[i].data, len |-> segs[i].len]
    BY <1>3
  <2>3. <<m, i>> \in Data  BY <1>2, <2>1 DEF Data
  <2> QED  BY <2>1, <2>2, <2>3 DEF QueueSeg
<1>7. segs \in Seq(QueueSeg)  BY <1>3, <1>5, <1>6
<1>8. /\ queue \in Seq(QueueSeg) /\ Len(queue) = len + c
      /\ \A i \in 1 .. len : queue[i] = k.snd_queue[i]
      /\ \A i \in len + 1 .. len + c : queue[i] = segs[i - len]
  <2>1. queue \in Seq(QueueSeg) /\ Len(queue) = len + c  BY <1>1, <1>7 DEF len, c
  <2>2. \A i \in 1 .. len + c :
           queue[i] = IF i <= len THEN k.snd_queue[i] ELSE segs[i - len]
    BY <1>1, <1>7 DEF len, c
  <2>3. \A i \in 1 .. len : i \in 1 .. len + c /\ i <= len  BY <1>1, <1>3
  <2>4. \A i \in len + 1 .. len + c : i \in 1 .. len + c /\ ~ (i <= len)
    BY <1>1, <1>3
  <2> QED  BY <2>1, <2>2, <2>3, <2>4
<1>9. x = [k EXCEPT !.snd_queue = queue]  BY DEF segs
<1> HIDE DEF queue
<1>10. /\ x \in Block /\ x.snd_queue = queue
       /\ x.snd_nxt = k.snd_nxt /\ x.snd_buf = k.snd_buf /\ x.rcv_nxt = k.rcv_nxt
       /\ x.rcv_buf = k.rcv_buf /\ x.rcv_queue = k.rcv_queue /\ x.acklist = k.acklist
  BY <1>8, <1>9 DEF Block
<1>11. /\ \A i \in 1 .. c : Stream(e)[k.snd_nxt + len + i - 1] = <<m, i>>
       /\ Stream(e)[k.snd_nxt + len + c] = <<m + 1, 1>>
  <2> DEFINE at == k.snd_nxt + len
  <2>1. at \in Nat /\ Stream(e)[at] = <<m, 1>>  BY <1>1 DEF len
  <2> HIDE DEF at
  <2>2. /\ \A i \in 1 .. c : Stream(e)[at + i - 1] = <<m, i>>
        /\ Stream(e)[at + c] = <<m + 1, 1>>
    BY <1>2, <1>4, <2>1, StreamRun
  <2> QED  BY <2>2 DEF at
<1>12. \A i \in 1 .. len + c : Carries(e, k.snd_nxt + i - 1, queue[i])
  <2> SUFFICES ASSUME NEW i \in 1 .. len + c
               PROVE  Carries(e, k.snd_nxt + i - 1, queue[i])
    OBVIOUS
  <2>1. CASE i <= len
    <3>1. i \in 1 .. len  BY <1>1, <1>3, <2>1
    <3> QED  BY <1>8, <3>1 DEF BlockOK, SendOK, len
  <2>2. CASE ~ (i <= len)
    <3>1. i - len \in 1 .. c /\ i \in len + 1 .. len + c
          /\ k.snd_nxt + len + (i - len) - 1 = k.snd_nxt + i - 1
      BY <1>1, <1>3, <2>2
    <3>2. Stream(e)[k.snd_nxt + i - 1] = <<m, i - len>>  BY <1>11, <3>1
    <3>3. queue[i] = segs[i - len]  BY <1>8, <3>1
    <3> QED  BY <1>3, <1>4, <3>1, <3>2, <3>3 DEF Carries
  <2> QED  BY <2>1, <2>2
<1>13. SendOK(e, x, r)
  <2>1. SendOK(e, k, r) /\ Len(x.snd_queue) = len + c  BY <1>8, <1>10 DEF BlockOK
  <2> QED  BY <1>10, <1>12, <2>1 DEF SendOK
<1>14. RecvOK(Peer(e), x, r.snd_nxt)
  BY <1>10 DEF BlockOK, RecvOK, Received
<1>15. x.snd_nxt + Len(x.snd_queue) = k.snd_nxt + len + c
  <2>1. x.snd_nxt = k.snd_nxt /\ Len(x.snd_queue) = len + c  BY <1>8, <1>10
  <2>2. c \in Nat  BY <1>3
  <2>3. \A u, v, w \in Nat : u + (v + w) = u + v + w  OBVIOUS
  <2>4. k.snd_nxt + (len + c) = k.snd_nxt + len + c  BY <1>1, <2>2, <2>3
  <2> QED  BY <2>1, <2>4, Zenon
<1>16. Payload(segs) \in Seq(Data)
  <2>1. Payload(segs) = [i \in 1 .. c |-> segs[i].data]  BY <1>3 DEF Payload
  <2>2. \A i \in 1 .. c : segs[i].data \in Data  BY <1>6 DEF QueueSeg
  <2> QED  BY <1>3, <2>1, <2>2
<1> QED  BY <1>10, <1>11, <1>13, <1>14, <1>15, <1>16 DEF BlockOK, segs

\* The first message of rcv_queue is whole: it ends where frg says so.
LEMMA FirstMessageIs ==
    ASSUME NEW e \in End, NEW r \in Block, NEW k \in Block, BlockOK(e, k, r),
           NEW m \in Nat \ {0},
           Stream(Peer(e))[k.rcv_nxt - Len(k.rcv_queue)] = <<m, 1>>,
           Complete(k.rcv_queue)
    PROVE  /\ Count(Peer(e), m) \in 1 .. Len(k.rcv_queue)
           /\ FirstMessage(k) = Count(Peer(e), m)
           /\ \A i \in 1 .. Count(Peer(e), m) : k.rcv_queue[i].data = <<m, i>>
<1> DEFINE p == Peer(e)
           c == Count(p, m)
           len == Len(k.rcv_queue)
           at == k.rcv_nxt - len
<1>1. p \in End /\ c \in Nat \ {0}  BY PeerOfPeer, CountType
<1>2. k.rcv_queue \in Seq(RcvSeg) /\ k.rcv_nxt \in Nat /\ len \in Nat
  BY DEF Block
<1>3. at \in Nat  BY <1>2 DEF BlockOK, RecvOK
<1>4. \A i \in 1 .. c : Stream(p)[at + i - 1] = <<m, i>>
  <2> HIDE DEF at, p
  <2>1. Stream(p)[at] = <<m, 1>>  BY DEF at, p
  <2> QED  BY <1>1, <1>3, <2>1, StreamRun
<1>5. \A i \in 1 .. len : Carries(p, at + i - 1, k.rcv_queue[i])
  BY DEF BlockOK, RecvOK
<1> HIDE DEF at, c, p
<1>6. \A i \in 1 .. len : i <= c => /\ k.rcv_queue[i].data = <<m, i>>
                                    /\ k.rcv_queue[i].frg = c - i
  <2> SUFFICES ASSUME NEW i \in 1 .. len, i <= c
               PROVE  /\ k.rcv_queue[i].data = <<m, i>> /\ k.rcv_queue[i].frg = c - i
    OBVIOUS
  <2>1. i \in 1 .. c  BY <1>1, <1>2
  <2> QED  BY <1>4, <1>5, <2>1 DEF Carries, c
<1>7. c \in 1 .. len
  <2>1. len # 0 /\ Head(k.rcv_queue) = k.rcv_queue[1] /\ len >= Head(k.rcv_queue).frg + 1
    BY <1>2 DEF Complete
  <2>2. 1 \in 1 .. len /\ 1 <= c  BY <1>1, <1>2, <2>1
  <2>3. k.rcv_queue[1].frg = c - 1  BY <1>6, <2>2
  <2> QED  BY <1>1, <1>2, <2>1, <2>3
<1>8. FirstMessage(k) = c
  <2> DEFINE Ends(i) == k.rcv_queue[i].frg = 0 /\ \A j \in 1 .. i - 1 : k.rcv_queue[j].frg # 0
  <2>1. DOMAIN k.rcv_queue = 1 .. len  BY <1>2
  <2>2. Ends(c)
    <3>1. \A j \in 1 .. c - 1 : j \in 1 .. len /\ j <= c /\ c - j # 0  BY <1>1, <1>2, <1>7
    <3>2. k.rcv_queue[c].frg = c - c  BY <1>1, <1>6, <1>7
    <3> QED  BY <1>1, <1>6, <3>1, <3>2
  <2>3. \A i \in 1 .. len : Ends(i) => i = c
    <3> SUFFICES ASSUME NEW i \in 1 .. len, Ends(i) PROVE i = c
      OBVIOUS
    <3>1. CASE i < c
      <4>1. k.rcv_queue[i].frg = c - i  BY <1>1, <1>6, <3>1
      <4> QED  BY <1>1, <3>1, <4>1
    <3>2. CASE c < i
      <4>1. c \in 1 .. i - 1  BY <1>1, <3>2
      <4> QED  BY <2>2, <4>1
    <3> QED  BY <1>1, <3>1, <3>2
  <2>4. FirstMessage(k) = CHOOSE i \in 1 .. len : Ends(i)  BY <2>1 DEF FirstMessage
  <2> HIDE DEF Ends
  <2> QED  BY <1>7, <2>2, <2>3, <2>4
<1>9. \A i \in 1 .. c : k.rcv_queue[i].data = <<m, i>>
  <2>1. \A i \in 1 .. c : i \in 1 .. len /\ i <= c  BY <1>1, <1>2, <1>7
  <2> QED  BY <1>6, <2>1
<1> QED  BY <1>7, <1>8, <1>9 DEF c, p

\* Taking the first message moves the reader past it and lets segments in.
LEMMA TakenGood ==
    ASSUME NEW e \in End, NEW r \in Block, NEW k \in Block, BlockOK(e, k, r),
           NEW c \in 1 .. Len(k.rcv_queue), FirstMessage(k) = c
    PROVE  /\ Taken(k) \in Block /\ BlockOK(e, Taken(k), r)
           /\ Taken(k).snd_nxt = k.snd_nxt /\ Taken(k).snd_queue = k.snd_queue
           /\ k.rcv_nxt <= Taken(k).rcv_nxt
           /\ \A n \in Nat : Received(k, n) => Received(Taken(k), n)
           /\ Taken(k).rcv_nxt - Len(Taken(k).rcv_queue)
                = k.rcv_nxt - Len(k.rcv_queue) + c
<1> DEFINE len == Len(k.rcv_queue)
           queue == SubSeq(k.rcv_queue, c + 1, len)
           y == [k EXCEPT !.rcv_queue = queue]
           z == MoveReady(y)
           told == [z EXCEPT !.probe = @ \cup {"TELL"}]
           p == Peer(e)
           limit == r.snd_nxt
<1>1. k.rcv_queue \in Seq(RcvSeg) /\ k.rcv_nxt \in Nat /\ len \in Nat /\ limit \in Nat
      /\ k.acklist \in Seq(Nat)
  BY DEF Block
<1> HIDE DEF limit
<1>2. RecvOK(p, k, limit) /\ SendOK(e, k, r)  BY DEF BlockOK, limit
<1> HIDE DEF p, len
<1>3. /\ queue \in Seq(RcvSeg) /\ Len(queue) = len - c
      /\ \A i \in 1 .. len - c : queue[i] = k.rcv_queue[c + i]
  BY <1>1 DEF len
<1> HIDE DEF queue
<1>4. /\ y \in Block /\ y.rcv_queue = queue
      /\ y.snd_nxt = k.snd_nxt /\ y.snd_buf = k.snd_buf /\ y.snd_queue = k.snd_queue
      /\ y.acklist = k.acklist /\ y.rcv_nxt = k.rcv_nxt /\ y.rcv_buf = k.rcv_buf
  BY <1>3 DEF Block
<1> HIDE DEF y
<1>5. c \in 1 .. len /\ len <= k.rcv_nxt  BY <1>2 DEF RecvOK, len
<1>6. Queued(p, y, limit)
  <2>1. \A i \in 1 .. len - c : Carries(p, k.rcv_nxt - (len - c) + i - 1, queue[i])
    <3> SUFFICES ASSUME NEW i \in 1 .. len - c
                 PROVE  Carries(p, k.rcv_nxt - (len - c) + i - 1, queue[i])
      OBVIOUS
    <3>1. c + i \in 1 .. Len(k.rcv_queue)
          /\ k.rcv_nxt - len + (c + i) - 1 = k.rcv_nxt - (len - c) + i - 1
      BY <1>1, <1>5 DEF len
    <3>2. Carries(p, k.rcv_nxt - len + (c + i) - 1, k.rcv_queue[c + i])
      BY <1>2, <3>1 DEF RecvOK, len
    <3> QED  BY <1>3, <3>1, <3>2
  <2>2. len - c <= k.rcv_nxt  BY <1>1, <1>5
  <2> QED  BY <1>2, <1>3, <1>4, <2>1, <2>2 DEF Queued, RecvOK
<1>7. Moved(p, limit, y, z)  BY <1>1, <1>4, <1>6, MoveReadyQueued
<1> HIDE DEF z
<1>8. Taken(k) = z \/ Taken(k) = told  BY DEF Taken, z, y, queue, len
<1>9. z \in Block /\ told \in Block /\ Alike(z, told)
  BY <1>7 DEF Moved, Block, Alike
<1> HIDE DEF told
<1>10. /\ Taken(k) \in Block /\ Alike(z, Taken(k))
  BY <1>8, <1>9 DEF Alike
<1> DEFINE t == Taken(k)
<1> HIDE DEF t
<1>11. /\ t.snd_nxt = k.snd_nxt /\ t.snd_buf = k.snd_buf /\ t.snd_queue = k.snd_queue
       /\ t.acklist = k.acklist
  BY <1>4, <1>7, <1>10 DEF Moved, Alike, t
<1>12. Queued(p, t, limit)
  BY <1>7, <1>10 DEF Moved, Queued, Alike, t
<1>13. \A n \in Nat : Received(k, n) => Received(t, n)
  BY <1>4, <1>7, <1>10 DEF Moved, Received, Alike, t
<1>14. RecvOK(p, t, limit)
  <2>1. \A i \in 1 .. Len(k.acklist) : k.acklist[i] \in Nat /\ Received(k, k.acklist[i])
    BY <1>1, <1>2 DEF RecvOK
  <2> QED  BY <1>11, <1>12, <1>13, <2>1 DEF Queued, RecvOK
<1>15. SendOK(e, t, r)  BY <1>2, <1>11 DEF SendOK
<1>16. /\ k.rcv_nxt <= t.rcv_nxt
       /\ t.rcv_nxt - Len(t.rcv_queue) = k.rcv_nxt - Len(k.rcv_queue) + c
  <2>1. t.rcv_nxt = z.rcv_nxt /\ t.rcv_queue = z.rcv_queue  BY <1>10 DEF Alike, t
  <2>2. z.rcv_nxt - Len(z.rcv_queue) = k.rcv_nxt - (len - c) /\ k.rcv_nxt <= z.rcv_nxt
    BY <1>3, <1>4, <1>7 DEF Moved
  <2>3. k.rcv_nxt - (len - c) = k.rcv_nxt - len + c  BY <1>1, <1>5
  <2> QED  BY <2>1, <2>2, <2>3 DEF len
<1> QED  BY <1>10, <1>11, <1>13, <1>14, <1>15, <1>16 DEF BlockOK, t, p, limit

-----------------------------------------------------------------------------
(* One end's block changes: what the other end's block and the datagrams    *)
(* under way say of it stays true.                                          *)

Grown(k, x) ==
    /\ k.snd_nxt <= x.snd_nxt
    /\ k.rcv_nxt <= x.rcv_nxt
    /\ \A n \in Nat : Received(k, n) => Received(x, n)

LEMMA OtherStays ==
    ASSUME NEW e \in End, NEW r \in Block, NEW k \in Block, NEW x \in Block,
           BlockOK(Peer(e), r, k), Grown(k, x)
    PROVE  BlockOK(Peer(e), r, x)
<1>1. SendOK(Peer(e), r, x)  BY DEF BlockOK, SendOK, Grown
<1>2. /\ r.rcv_nxt \in Nat /\ k.snd_nxt \in Nat /\ x.snd_nxt \in Nat
      /\ \A s \in r.rcv_buf : s.sn \in Nat
  BY DEF Block, RcvSeg
<1>3. r.rcv_nxt <= x.snd_nxt /\ \A s \in r.rcv_buf : s.sn < x.snd_nxt
  BY <1>2 DEF BlockOK, RecvOK, Grown
<1>4. RecvOK(Peer(Peer(e)), r, x.snd_nxt)  BY <1>3 DEF BlockOK, RecvOK
<1> QED  BY <1>1, <1>4 DEF BlockOK

LEMMA FramesGrow ==
    ASSUME NEW e \in End, NEW k \in Block, NEW x \in Block, Grown(k, x)
    PROVE  Frames(e, k) \subseteq Frames(e, x)
<1> SUFFICES ASSUME NEW f \in Frames(e, k) PROVE f \in Frames(e, x)
  OBVIOUS
<1>1. /\ f \in Frame /\ f.una \in Nat /\ f.sn \in Nat
      /\ k.rcv_nxt \in Nat /\ x.rcv_nxt \in Nat /\ k.snd_nxt \in Nat /\ x.snd_nxt \in Nat
  BY DEF Frames, Frame, Block
<1>2. f.una <= x.rcv_nxt /\ (f.cmd = "ACK" => Received(x, f.sn))
  BY <1>1 DEF Frames, Grown
<1>3. f.cmd = "PUSH" => f.sn < x.snd_nxt /\ Carries(e, f.sn, f)
  BY <1>1 DEF Frames, Grown
<1> QED  BY <1>1, <1>2, <1>3 DEF Frames

LEMMA SeqSub ==
    ASSUME NEW F, NEW G, F \subseteq G, NEW s \in Seq(Seq(F))
    PROVE  s \in Seq(Seq(G))
<1>1. Seq(F) \subseteq Seq(G)  OBVIOUS
<1> QED  BY <1>1

LEMMA BlockChange ==
    ASSUME Blocks, NEW e \in End, NEW x, BlockOK(e, x, kcp[Peer(e)]),
           Grown(kcp[e], x), kcp' = [kcp EXCEPT ![e] = x]
    PROVE  /\ Blocks'
           /\ \A d \in End : Frames(d, kcp[d]) \subseteq Frames(d, kcp'[d])
<1>1. \A d \in End : kcp[d] \in Block /\ BlockOK(d, kcp[d], kcp[Peer(d)])
  BY DEF Blocks, BlockOK
<1>2. /\ DOMAIN kcp' = End /\ kcp'[e] = x
      /\ \A d \in End : d # e => kcp'[d] = kcp[d]
  BY DEF Blocks
<1>3. x \in Block /\ Peer(e) \in End /\ Peer(e) # e /\ Peer(Peer(e)) = e
      /\ \A d \in End : d = e \/ d = Peer(e)
  BY PeerOfPeer DEF BlockOK
<1>4. BlockOK(Peer(e), kcp[Peer(e)], x)  BY <1>1, <1>3, OtherStays
<1>5. \A d \in End : BlockOK(d, kcp'[d], kcp'[Peer(d)])
  <2> SUFFICES ASSUME NEW d \in End PROVE BlockOK(d, kcp'[d], kcp'[Peer(d)])
    OBVIOUS
  <2>1. CASE d = e
    <3>1. kcp'[d] = x /\ kcp'[Peer(d)] = kcp[Peer(e)]  BY <1>2, <1>3, <2>1
    <3> QED  BY <2>1, <3>1
  <2>2. CASE d = Peer(e)
    <3>1. kcp'[d] = kcp[Peer(e)] /\ kcp'[Peer(d)] = x  BY <1>2, <1>3, <2>2
    <3> QED  BY <1>4, <2>2, <3>1
  <2> QED  BY <1>3, <2>1, <2>2
<1>6. \A d \in End : Frames(d, kcp[d]) \subseteq Frames(d, kcp'[d])
  <2> SUFFICES ASSUME NEW d \in End PROVE Frames(d, kcp[d]) \subseteq Frames(d, kcp'[d])
    OBVIOUS
  <2>1. CASE d = e
    <3>1. Frames(e, kcp[e]) \subseteq Frames(e, x)  BY <1>1, <1>3, FramesGrow
    <3> QED  BY <1>2, <2>1, <3>1
  <2>2. CASE d # e  BY <1>2, <2>2
  <2> QED  BY <2>1, <2>2
<1> QED  BY <1>2, <1>5, <1>6 DEF Blocks

LEMMA WithoutStays ==
    ASSUME NEW S, NEW s \in Seq(S), NEW i \in DOMAIN s
    PROVE  Without(s, i) \in Seq(S) /\ s[i] \in S
<1>1. i \in 1 .. Len(s) /\ Len(s) \in Nat /\ s[i] \in S  OBVIOUS
<1>2. SubSeq(s, 1, i - 1) \in Seq(S)  BY <1>1
<1>3. SubSeq(s, i + 1, Len(s)) \in Seq(S)  BY <1>1
<1> QED  BY <1>1, <1>2, <1>3 DEF Without

LEMMA LinksStay ==
    ASSUME Links, \A d \in End : Frames(d, kcp[d]) \subseteq Frames(d, kcp'[d])
    PROVE  \A e \in End : link[e] \in Seq(Seq(Frames(Peer(e), kcp'[Peer(e)])))
<1> SUFFICES ASSUME NEW e \in End
             PROVE  link[e] \in Seq(Seq(Frames(Peer(e), kcp'[Peer(e)])))
  OBVIOUS
<1>1. Frames(Peer(e), kcp[Peer(e)]) \subseteq Frames(Peer(e), kcp'[Peer(e)])  BY PeerOfPeer
<1>2. link[e] \in Seq(Seq(Frames(Peer(e), kcp[Peer(e)])))  BY DEF Links
<1> QED  BY <1>1, <1>2, SeqSub

LEMMA SendKeeps ==
    ASSUME IInv, NEW e \in End, Send(e)
    PROVE  IInv'
<1> DEFINE k == kcp[e]
           m == Len(sent[e]) + 1
           segs == Fragments(m, Script[e][m])
           x == [k EXCEPT !.snd_queue = @ \o segs]
           r == kcp[Peer(e)]
<1>1. /\ m <= Len(Script[e])
      /\ kcp' = [kcp EXCEPT ![e] = x]
      /\ sent' = [sent EXCEPT ![e] = Append(@, Payload(segs))]
      /\ UNCHANGED <<link, got>>
  BY DEF Send, IInv, Blocks
<1>2. k \in Block /\ BlockOK(e, k, r)  BY DEF IInv, Blocks, BlockOK
<1>3. /\ sent \in [End -> Seq(Seq(Data))] /\ got \in [End -> Seq(Seq(Data))]
      /\ \A d \in End : At(d, kcp[d], sent[d], got[d])
  BY DEF IInv, Programs
<1>4. m \in 1 .. Len(Script[e])
  <2>1. Len(Script[e]) \in Nat /\ Len(sent[e]) \in Nat  BY <1>3, ScriptIsSizes
  <2> QED  BY <1>1, <2>1
<1>5. Stream(e)[k.snd_nxt + Len(k.snd_queue)] = <<m, 1>>  BY <1>3 DEF At
<1> HIDE DEF k, r, m
<1>6. /\ x \in Block /\ BlockOK(e, x, r)
      /\ x.snd_nxt = k.snd_nxt /\ x.rcv_nxt = k.rcv_nxt
      /\ x.rcv_buf = k.rcv_buf /\ x.rcv_queue = k.rcv_queue
      /\ Stream(e)[x.snd_nxt + Len(x.snd_queue)] = <<m + 1, 1>>
      /\ Payload(segs) \in Seq(Data)
  BY <1>2, <1>4, <1>5, SendGood
<1> HIDE DEF x
<1>7. Grown(k, x)
  <2>1. k.snd_nxt \in Nat /\ k.rcv_nxt \in Nat  BY <1>2 DEF Block
  <2> QED  BY <1>6, <2>1 DEF Grown, Received
<1>8. /\ Blocks' /\ \A d \in End : Frames(d, kcp[d]) \subseteq Frames(d, kcp'[d])
  BY <1>1, <1>6, <1>7, BlockChange DEF IInv, k, r
<1>9. Links'
  <2>1. Links  BY DEF IInv
  <2>2. \A d \in End : link[d] \in Seq(Seq(Frames(Peer(d), kcp'[Peer(d)])))
    BY <1>8, <2>1, LinksStay
  <2> QED  BY <1>1, <2>1, <2>2 DEF Links
<1> DEFINE msg == Payload(segs)
<1> HIDE DEF msg
<1>10. sent' \in [End -> Seq(Seq(Data))] /\ got' \in [End -> Seq(Seq(Data))]
  <2>1. msg \in Seq(Data) /\ sent' = [sent EXCEPT ![e] = Append(@, msg)]
    BY <1>1, <1>6 DEF msg
  <2>2. Append(sent[e], msg) \in Seq(Seq(Data))  BY <1>3, <2>1
  <2> QED  BY <1>1, <1>3, <2>1, <2>2
<1>11. ASSUME NEW d \in End PROVE At(d, kcp'[d], sent'[d], got'[d])
  <2>1. CASE d # e
    <3>1. kcp'[d] = kcp[d] /\ sent'[d] = sent[d] /\ got'[d] = got[d]
      BY <1>1, <1>3, <2>1 DEF IInv, Blocks
    <3> QED  BY <1>3, <3>1
  <2>2. CASE d = e
    <3>1. kcp'[e] = x /\ sent'[e] = Append(sent[e], msg) /\ got'[e] = got[e]
      BY <1>1, <1>3 DEF IInv, Blocks, msg
    <3>2. /\ sent[e] \in Seq(Seq(Data)) /\ Len(sent[e]) \in Nat
          /\ Len(sent'[e]) = m
          /\ \A i \in 1 .. m : sent'[e][i] = IF i < m THEN sent[e][i] ELSE msg
      BY <1>3, <3>1 DEF m
    <3>3. \A i \in 1 .. m : sent'[e][i] = Payload(Fragments(i, Script[e][i]))
      <4> SUFFICES ASSUME NEW i \in 1 .. m
                   PROVE  sent'[e][i] = Payload(Fragments(i, Script[e][i]))
        OBVIOUS
      <4>1. CASE i < m
        <5>1. i \in 1 .. Len(sent[e])  BY <3>2, <4>1 DEF m
        <5>2. sent[e][i] = Payload(Fragments(i, Script[e][i]))  BY <1>3, <5>1 DEF At
        <5> QED  BY <3>2, <4>1, <5>2
      <4>2. CASE ~ (i < m)
        <5>1. i = m  BY <3>2, <4>2 DEF m
        <5> QED  BY <3>2, <4>2, <5>1 DEF msg
      <4> QED  BY <4>1, <4>2
    <3>4. Stream(e)[x.snd_nxt + Len(x.snd_queue)] = <<Len(sent'[e]) + 1, 1>>
      BY <1>6, <3>2
    <3>5. Stream(Peer(e))[x.rcv_nxt - Len(x.rcv_queue)] = <<Len(got'[e]) + 1, 1>>
      BY <1>3, <1>6, <3>1 DEF At, k
    <3>6. Len(sent'[e]) <= Len(Script[e])  BY <1>1, <3>2
    <3> QED  BY <2>2, <3>1, <3>2, <3>3, <3>4, <3>5, <3>6 DEF At
  <2> QED  BY <2>1, <2>2
<1>12. Programs'  BY <1>10, <1>11 DEF Programs
<1> QED  BY <1>8, <1>9, <1>12 DEF IInv

\* What Recv(e) hands to the program: the next message the other end has sent.
LEMMA NextMessage ==
    ASSUME IInv, NEW e \in End, Complete(kcp[e].rcv_queue)
    PROVE  LET k == kcp[e]
               c == FirstMessage(k)
               m == Len(got[e]) + 1
           IN  /\ c \in 1 .. Len(k.rcv_queue)
               /\ c = Count(Peer(e), m)
               /\ m \in 1 .. Len(sent[Peer(e)])
               /\ Payload(SubSeq(k.rcv_queue, 1, c)) = sent[Peer(e)][m]
<1> DEFINE k == kcp[e]
           p == Peer(e)
           r == kcp[p]
           c == FirstMessage(k)
           m == Len(got[e]) + 1
           len == Len(k.rcv_queue)
           at == k.rcv_nxt - len
           top == r.snd_nxt + Len(r.snd_queue)
           msg == Payload(SubSeq(k.rcv_queue, 1, c))
<1>1. /\ p \in End /\ Peer(p) = e
      /\ k \in Block /\ BlockOK(e, k, r) /\ r \in Block /\ BlockOK(p, r, k)
  BY PeerOfPeer DEF IInv, Blocks, BlockOK
<1>2. /\ sent[p] \in Seq(Seq(Data)) /\ got[e] \in Seq(Seq(Data))
      /\ At(e, k, sent[e], got[e]) /\ At(p, r, sent[p], got[p])
  BY <1>1 DEF IInv, Programs
<1>3. m \in Nat \ {0} /\ Len(sent[p]) \in Nat  BY <1>2
<1>4. Stream(p)[at] = <<m, 1>> /\ Stream(p)[top] = <<Len(sent[p]) + 1, 1>>
  BY <1>2 DEF At
<1>5. /\ k.rcv_queue \in Seq(RcvSeg) /\ k.rcv_nxt \in Nat /\ len \in Nat
      /\ r.snd_nxt \in Nat /\ Len(r.snd_queue) \in Nat
  <2> HIDE DEF k, r
  <2>1. r.snd_queue \in Seq(QueueSeg) /\ r.snd_nxt \in Nat  BY <1>1 DEF Block
  <2>2. k.rcv_queue \in Seq(RcvSeg) /\ k.rcv_nxt \in Nat  BY <1>1 DEF Block
  <2> QED  BY <2>1, <2>2
<1>6. Complete(k.rcv_queue)  OBVIOUS
<1>7. at \in Nat /\ top \in Nat /\ at + len <= top
  <2> HIDE DEF k, r
  <2>1. len <= k.rcv_nxt /\ k.rcv_nxt <= r.snd_nxt  BY <1>1 DEF BlockOK, RecvOK
  <2> HIDE DEF len
  <2> QED  BY <1>5, <2>1
<1> HIDE DEF k, r, p, m
<1>8. /\ Count(p, m) \in 1 .. len /\ c = Count(p, m)
      /\ \A i \in 1 .. c : k.rcv_queue[i].data = <<m, i>>
  BY <1>1, <1>3, <1>4, <1>6, FirstMessageIs DEF p
<1> HIDE DEF c, at, top, len
<1>9. m <= Len(sent[p])
  <2>1. Stream(p)[at + c] = <<m + 1, 1>>  BY <1>1, <1>3, <1>4, <1>7, <1>8, StreamRun
  <2>2. at + c \in Nat /\ at + c <= top  BY <1>5, <1>7, <1>8
  <2>3. Stream(p)[at + c][1] <= Stream(p)[top][1]  BY <1>1, <1>7, <2>2, StreamMonotone
  <2> QED  BY <1>3, <1>4, <2>1, <2>3
<1>10. m \in 1 .. Len(sent[p])  BY <1>3, <1>9
<1>11. sent[p][m] = Payload(Fragments(m, Script[p][m])) /\ m \in DOMAIN Script[p]
       /\ Script[p][m] \in Nat
  <2>1. Script[p] \in Seq(Nat) /\ Len(Script[p]) \in Nat  BY <1>1, ScriptIsSizes
  <2>2. Len(sent[p]) <= Len(Script[p])  BY <1>2 DEF At
  <2>3. m \in 1 .. Len(Script[p])  BY <1>3, <1>9, <2>1, <2>2
  <2>4. sent[p][m] = Payload(Fragments(m, Script[p][m]))  BY <1>2, <1>10 DEF At
  <2> QED  BY <2>1, <2>3, <2>4
<1>12. Payload(Fragments(m, Script[p][m])) = [i \in 1 .. c |-> <<m, i>>]
  <2> DEFINE segs == Fragments(m, Script[p][m])
  <2>1. Len(segs) = c  BY <1>8, <1>11 DEF Count
  <2>2. DOMAIN segs = 1 .. c /\ \A i \in 1 .. c : segs[i].data = <<m, i>>
    BY <1>11, <2>1, FragmentsLen
  <2> HIDE DEF segs
  <2>3. Payload(segs) = [i \in 1 .. c |-> <<m, i>>]  BY <2>2 DEF Payload
  <2> QED  BY <2>3 DEF segs
<1>13. msg = [i \in 1 .. c |-> <<m, i>>]
  <2> DEFINE q == SubSeq(k.rcv_queue, 1, c)
  <2>1. DOMAIN q = 1 .. c /\ \A i \in 1 .. c : q[i] = k.rcv_queue[i]
    BY <1>5, <1>8 DEF len
  <2> HIDE DEF q
  <2>2. Payload(q) = [i \in 1 .. c |-> <<m, i>>]  BY <1>8, <2>1 DEF Payload
  <2> QED  BY <2>2 DEF q
<1> QED  BY <1>8, <1>10, <1>11, <1>12, <1>13 DEF k, p, c, m, len

LEMMA RecvKeeps ==
    ASSUME IInv, NEW e \in End, Recv(e)
    PROVE  /\ IInv'
           /\ Len(got[e]) + 1 \in 1 .. Len(sent[Peer(e)])
           /\ got' = [got EXCEPT ![e] = Append(@, sent[Peer(e)][Len(@) + 1])]
           /\ UNCHANGED sent
<1> DEFINE k == kcp[e]
           p == Peer(e)
           c == FirstMessage(k)
           m == Len(got[e]) + 1
           x == Taken(k)
           r == kcp[p]
           msg == sent[p][m]
<1>1. /\ Complete(k.rcv_queue)
      /\ kcp' = [kcp EXCEPT ![e] = x]
      /\ got' = [got EXCEPT ![e] = Append(@, Payload(SubSeq(k.rcv_queue, 1, c)))]
      /\ UNCHANGED <<link, faults, sent>>
  BY DEF Recv
<1>2. /\ k \in Block /\ BlockOK(e, k, r) /\ r \in Block /\ p \in End
  BY PeerOfPeer DEF IInv, Blocks, BlockOK
<1>3. /\ sent \in [End -> Seq(Seq(Data))] /\ got \in [End -> Seq(Seq(Data))]
      /\ \A d \in End : At(d, kcp[d], sent[d], got[d])
  BY DEF IInv, Programs
<1>4. /\ c \in 1 .. Len(k.rcv_queue)
      /\ c = Count(p, m)
      /\ m \in 1 .. Len(sent[p])
      /\ Payload(SubSeq(k.rcv_queue, 1, c)) = msg
  BY <1>1, NextMessage
<1>5. got' = [got EXCEPT ![e] = Append(@, msg)]  BY <1>1, <1>4
<1>6. msg \in Seq(Data)  BY <1>2, <1>3, <1>4
<1> HIDE DEF k, r, p, x, msg, c
<1>7. /\ x \in Block /\ BlockOK(e, x, r)
      /\ x.snd_nxt = k.snd_nxt /\ x.snd_queue = k.snd_queue
      /\ k.rcv_nxt <= x.rcv_nxt
      /\ \A n \in Nat : Received(k, n) => Received(x, n)
      /\ x.rcv_nxt - Len(x.rcv_queue) = k.rcv_nxt - Len(k.rcv_queue) + c
  BY <1>2, <1>4, TakenGood DEF x, c
<1>8. Grown(k, x)
  <2>1. k.snd_nxt \in Nat  BY <1>2 DEF Block
  <2> QED  BY <1>7, <2>1 DEF Grown
<1>9. /\ Blocks' /\ \A d \in End : Frames(d, kcp[d]) \subseteq Frames(d, kcp'[d])
  BY <1>1, <1>7, <1>8, BlockChange DEF IInv, k, r, p
<1>10. Links'
  <2>1. Links  BY DEF IInv
  <2>2. \A d \in End : link[d] \in Seq(Seq(Frames(Peer(d), kcp'[Peer(d)])))
    BY <1>9, <2>1, LinksStay
  <2> QED  BY <1>1, <2>1, <2>2 DEF Links
<1>11. sent' \in [End -> Seq(Seq(Data))] /\ got' \in [End -> Seq(Seq(Data))]
  <2>1. Append(got[e], msg) \in Seq(Seq(Data))  BY <1>3, <1>6
  <2> QED  BY <1>1, <1>3, <1>5, <2>1
<1>12. ASSUME NEW d \in End PROVE At(d, kcp'[d], sent'[d], got'[d])
  <2>1. CASE d # e
    <3>1. kcp'[d] = kcp[d] /\ sent'[d] = sent[d] /\ got'[d] = got[d]
      BY <1>1, <1>3, <2>1 DEF IInv, Blocks
    <3> QED  BY <1>3, <3>1
  <2>2. CASE d = e
    <3>1. kcp'[e] = x /\ sent'[e] = sent[e] /\ got'[e] = Append(got[e], msg)
      BY <1>1, <1>3, <1>5 DEF IInv, Blocks
    <3>2. Len(got'[e]) = m /\ m \in Nat \ {0}  BY <1>3, <3>1
    <3>3. Stream(p)[x.rcv_nxt - Len(x.rcv_queue)] = <<m + 1, 1>>
      <4> DEFINE at == k.rcv_nxt - Len(k.rcv_queue)
      <4>1. at \in Nat
        <5>1. k.rcv_queue \in Seq(RcvSeg) /\ k.rcv_nxt \in Nat  BY <1>2 DEF Block
        <5>2. Len(k.rcv_queue) \in Nat  BY <5>1
        <5>3. Len(k.rcv_queue) <= k.rcv_nxt  BY <1>2 DEF BlockOK, RecvOK
        <5> QED  BY <5>1, <5>2, <5>3
      <4>2. Stream(p)[at] = <<m, 1>>  BY <1>3 DEF At, k, p
      <4> HIDE DEF at, m
      <4>3. Stream(p)[at + Count(p, m)] = <<m + 1, 1>>
        BY <1>2, <3>2, <4>1, <4>2, StreamRun
      <4> QED  BY <1>4, <1>7, <4>3 DEF at
    <3>4. At(e, k, sent[e], got[e])  BY <1>3 DEF k
    <3> QED  BY <1>7, <2>2, <3>1, <3>2, <3>3, <3>4 DEF At, p
  <2> QED  BY <2>1, <2>2
<1>13. IInv'  BY <1>9, <1>10, <1>11, <1>12 DEF IInv, Programs
<1> QED  BY <1>1, <1>4, <1>5, <1>13 DEF msg, p

LEMMA UpdateKeeps ==
    ASSUME IInv, NEW e \in End, NEW due, NEW probeDue, Update(e, due, probeDue)
    PROVE  IInv' /\ UNCHANGED <<sent, got>>
<1> DEFINE k == kcp[e]
           p == Peer(e)
           r == kcp[p]
           probed == Probe(k, probeDue)
           q == Enqueue(probed)
           out == Pack(Output(q, due))
           x == Flushed(q, due)
<1>1. /\ link' = [link EXCEPT ![p] = @ \o out]
      /\ kcp' = [kcp EXCEPT ![e] = x]
      /\ UNCHANGED <<faults, sent, got>>
  BY DEF Update
<1>2. /\ k \in Block /\ BlockOK(e, k, r) /\ r \in Block /\ p \in End /\ Peer(p) = e
  BY PeerOfPeer DEF IInv, Blocks, BlockOK
<1> HIDE DEF k, r, p, probed, q, out, x
<1>3. probed \in Block /\ Alike(k, probed)  BY <1>2, ProbeAlike DEF probed
<1>4. SendOK(e, probed, r)  BY <1>2, <1>3 DEF BlockOK, SendOK, Alike
<1>5. /\ q \in Block /\ SendOK(e, q, r)
      /\ probed.snd_nxt <= q.snd_nxt
      /\ q.snd_nxt + Len(q.snd_queue) = probed.snd_nxt + Len(probed.snd_queue)
      /\ q.rcv_nxt = probed.rcv_nxt /\ q.rcv_buf = probed.rcv_buf
      /\ q.rcv_queue = probed.rcv_queue /\ q.acklist = probed.acklist
  BY <1>3, <1>4, EnqueueGood DEF q
<1>6. BlockOK(e, q, r)
  <2>1. RecvOK(Peer(e), q, r.snd_nxt)
    BY <1>2, <1>3, <1>5 DEF BlockOK, RecvOK, Received, Alike
  <2> QED  BY <1>5, <2>1 DEF BlockOK
<1>7. /\ x \in Block /\ BlockOK(e, x, r)
      /\ x.snd_nxt = q.snd_nxt /\ x.snd_queue = q.snd_queue
      /\ x.rcv_nxt = q.rcv_nxt /\ x.rcv_buf = q.rcv_buf /\ x.rcv_queue = q.rcv_queue
  BY <1>2, <1>5, <1>6, FlushedGood DEF x
<1>8. Grown(k, x) /\ Grown(q, x)
  <2>1. k.rcv_nxt \in Nat /\ q.rcv_nxt \in Nat /\ q.snd_nxt \in Nat  BY <1>2, <1>5 DEF Block
  <2> QED  BY <1>3, <1>5, <1>7, <2>1 DEF Grown, Received, Alike
<1>9. /\ Blocks' /\ \A d \in End : Frames(d, kcp[d]) \subseteq Frames(d, kcp'[d])
  BY <1>1, <1>7, <1>8, BlockChange DEF IInv, k, r, p
<1>10. kcp'[e] = x /\ \A d \in End : d # e => kcp'[d] = kcp[d]
  BY <1>1 DEF IInv, Blocks
<1>11. out \in Seq(Seq(Frames(e, x)))
  <2>1. Output(q, due) \in Seq(Frames(e, q))  BY <1>2, <1>5, <1>6, OutputFrames
  <2>2. \A f \in Frames(e, q) : f.len \in Int  BY DEF Frames, Frame
  <2>3. out \in Seq(Seq(Frames(e, q)))  BY <2>1, <2>2, PackOnlyPacks DEF out
  <2>4. Frames(e, q) \subseteq Frames(e, x)  BY <1>5, <1>7, <1>8, FramesGrow
  <2> QED  BY <2>3, <2>4, SeqSub
<1>12. Links'
  <2>1. Links  BY DEF IInv
  <2>2. \A d \in End : link[d] \in Seq(Seq(Frames(Peer(d), kcp'[Peer(d)])))
    BY <1>9, <2>1, LinksStay
  <2>3. DOMAIN link' = End  BY <1>1, <2>1 DEF Links
  <2>4. ASSUME NEW d \in End
        PROVE  link'[d] \in Seq(Seq(Frames(Peer(d), kcp'[Peer(d)])))
    <3>1. CASE d # p
      <4>1. link'[d] = link[d]  BY <1>1, <2>1, <3>1 DEF Links
      <4> QED  BY <2>2, <4>1
    <3>2. CASE d = p
      <4> DEFINE F == Frames(e, x)
      <4>1. link'[d] = link[d] \o out  BY <1>1, <1>2, <2>1, <3>2 DEF Links
      <4>2. Peer(d) = e /\ kcp'[Peer(d)] = x  BY <1>2, <1>10, <3>2
      <4>3. link[d] \in Seq(Seq(F))  BY <2>2, <4>2
      <4>4. out \in Seq(Seq(F))  BY <1>11
      <4> HIDE DEF F
      <4>5. link[d] \o out \in Seq(Seq(F))  BY <4>3, <4>4
      <4> QED  BY <4>1, <4>2, <4>5 DEF F
    <3> QED  BY <3>1, <3>2
  <2> QED  BY <2>3, <2>4 DEF Links
<1>13. Programs'
  <2>1. Programs  BY DEF IInv
  <2>2. ASSUME NEW d \in End PROVE At(d, kcp'[d], sent'[d], got'[d])
    <3>1. At(d, kcp[d], sent[d], got[d])  BY <2>1 DEF Programs
    <3>2. CASE d # e  BY <1>1, <1>10, <3>1, <3>2
    <3>3. CASE d = e
      <4>1. x.snd_nxt + Len(x.snd_queue) = k.snd_nxt + Len(k.snd_queue)
            /\ x.rcv_nxt - Len(x.rcv_queue) = k.rcv_nxt - Len(k.rcv_queue)
        BY <1>3, <1>5, <1>7 DEF Alike
      <4>2. At(e, k, sent[e], got[e])  BY <3>1, <3>3 DEF k
      <4>3. At(e, x, sent[e], got[e])  BY <4>1, <4>2 DEF At
      <4> QED  BY <1>1, <1>10, <3>3, <4>3
    <3> QED  BY <3>2, <3>3
  <2> QED  BY <1>1, <2>1, <2>2 DEF Programs
<1> QED  BY <1>1, <1>9, <1>12, <1>13 DEF IInv

LEMMA DeliverKeeps ==
    ASSUME IInv, NEW e \in End, NEW i, Deliver(e, i)
    PROVE  IInv' /\ UNCHANGED <<sent, got>>
<1> DEFINE k == kcp[e]
           p == Peer(e)
           r == kcp[p]
           datagram == link[e][i]
           x == Input(k, datagram)
<1>1. /\ i \in DOMAIN link[e]
      /\ link' = [link EXCEPT ![e] = Without(@, i)]
      /\ kcp' = [kcp EXCEPT ![e] = x]
      /\ UNCHANGED <<faults, sent, got>>
  BY DEF Deliver
<1>2. /\ k \in Block /\ BlockOK(e, k, r) /\ r \in Block /\ p \in End /\ p # e /\ Peer(p) = e
  BY PeerOfPeer DEF IInv, Blocks, BlockOK
<1>3. link[e] \in Seq(Seq(Frames(p, r))) /\ DOMAIN link = End  BY DEF IInv, Links
<1>4. Without(link[e], i) \in Seq(Seq(Frames(p, r))) /\ datagram \in Seq(Frames(p, r))
  BY <1>1, <1>3, WithoutStays
<1> HIDE DEF k, r, p, datagram, x
<1>5. x \in Block /\ BlockOK(e, x, r) /\ Since(k, x)
  <2>1. x \in Good(e, k, r)  BY <1>2, <1>4, InputGood DEF x, p
  <2> QED  BY <2>1 DEF Good
<1>6. Grown(k, x)
  <2>1. k.snd_nxt \in Nat  BY <1>2 DEF Block
  <2> QED  BY <1>5, <2>1 DEF Since, Grown
<1>7. /\ Blocks' /\ \A d \in End : Frames(d, kcp[d]) \subseteq Frames(d, kcp'[d])
  BY <1>1, <1>5, <1>6, BlockChange DEF IInv, k, r, p
<1>8. kcp'[e] = x /\ \A d \in End : d # e => kcp'[d] = kcp[d]
  BY <1>1 DEF IInv, Blocks
<1>9. Links'
  <2>1. Links  BY DEF IInv
  <2>2. \A d \in End : link[d] \in Seq(Seq(Frames(Peer(d), kcp'[Peer(d)])))
    BY <1>7, <2>1, LinksStay
  <2>3. DOMAIN link' = End  BY <1>1, <1>3
  <2>4. ASSUME NEW d \in End
        PROVE  link'[d] \in Seq(Seq(Frames(Peer(d), kcp'[Peer(d)])))
    <3>1. CASE d # e  BY <1>1, <1>3, <2>2, <3>1
    <3>2. CASE d = e
      <4>1. link'[d] = Without(link[e], i)  BY <1>1, <1>3, <3>2
      <4>2. kcp'[Peer(d)] = r  BY <1>2, <1>8, <3>2 DEF p, r
      <4> QED  BY <1>4, <3>2, <4>1, <4>2 DEF p
    <3> QED  BY <3>1, <3>2
  <2> QED  BY <2>3, <2>4 DEF Links
<1>10. Programs'
  <2>1. Programs  BY DEF IInv
  <2>2. ASSUME NEW d \in End PROVE At(d, kcp'[d], sent'[d], got'[d])
    <3>1. At(d, kcp[d], sent[d], got[d])  BY <2>1 DEF Programs
    <3>2. CASE d # e  BY <1>1, <1>8, <3>1, <3>2
    <3>3. CASE d = e
      <4>1. At(e, k, sent[e], got[e])  BY <3>1, <3>3 DEF k
      <4>2. At(e, x, sent[e], got[e])  BY <1>5, <4>1 DEF At, Since
      <4> QED  BY <1>1, <1>8, <3>3, <4>2
    <3> QED  BY <3>2, <3>3
  <2> QED  BY <1>1, <2>1, <2>2 DEF Programs
<1> QED  BY <1>1, <1>7, <1>9, <1>10 DEF IInv

\* A datagram lost or duplicated is none the ends did not send.
LEMMA LinkKeeps ==
    ASSUME IInv, NEW e \in End, NEW i, Lose(e, i) \/ Duplicate(e, i)
    PROVE  IInv' /\ UNCHANGED <<sent, got>>
<1> DEFINE S == Seq(Frames(Peer(e), kcp[Peer(e)]))
           ds == IF Lose(e, i) THEN Without(link[e], i) ELSE Append(link[e], link[e][i])
<1>1. /\ i \in DOMAIN link[e] /\ link' = [link EXCEPT ![e] = ds]
      /\ UNCHANGED <<kcp, sent, got>>
  BY DEF Lose, Duplicate
<1>2. link[e] \in Seq(S) /\ DOMAIN link = End
      /\ \A d \in End : link[d] \in Seq(Seq(Frames(Peer(d), kcp[Peer(d)])))
  BY DEF IInv, Links
<1> HIDE DEF S
<1>3. Without(link[e], i) \in Seq(S) /\ link[e][i] \in S  BY <1>1, <1>2, WithoutStays
<1>4. ds \in Seq(S)  BY <1>2, <1>3
<1> HIDE DEF ds
<1>5. Links'
  <2>1. DOMAIN link' = End  BY <1>1, <1>2
  <2>2. ASSUME NEW d \in End
        PROVE  link'[d] \in Seq(Seq(Frames(Peer(d), kcp[Peer(d)])))
    <3>1. CASE d # e  BY <1>1, <1>2, <3>1
    <3>2. CASE d = e
      <4>1. link'[d] = ds  BY <1>1, <1>2, <3>2
      <4> QED  BY <1>4, <3>2, <4>1 DEF S
    <3> QED  BY <3>1, <3>2
  <2> QED  BY <1>1, <2>1, <2>2 DEF Links
<1>6. Blocks' /\ Programs'
  BY <1>1 DEF IInv, Blocks, Programs
<1> QED  BY <1>1, <1>5, <1>6 DEF IInv

-----------------------------------------------------------------------------
(* The theorems.                                                            *)

LEMMA InitIInv == Init => IInv
<1> SUFFICES ASSUME Init PROVE IInv
  OBVIOUS
<1>1. PICK mode \in Modes : kcp = [e \in End |-> Create(mode)]  BY DEF Init
<1> DEFINE k == Create(mode)
<1>2. mode \in [resend : Nat, nc : BOOLEAN]  BY ModesAreSettings
<1>3. k \in Block  BY <1>2, SizesFit DEF Create, Block, ThreshInit
<1>4. /\ k.snd_nxt = 0 /\ k.rcv_nxt = 0 /\ k.snd_buf = {} /\ k.rcv_buf = {}
      /\ k.snd_queue = <<>> /\ k.rcv_queue = <<>> /\ k.acklist = <<>>
  BY DEF Create
<1> HIDE DEF k
<1>5. Len(k.snd_queue) = 0 /\ Len(k.rcv_queue) = 0 /\ Len(k.acklist) = 0  BY <1>4
<1>6. ASSUME NEW e \in End PROVE BlockOK(e, k, k)
  <2>1. SendOK(e, k, k)  BY <1>4, <1>5 DEF SendOK, Unique
  <2>2. RecvOK(Peer(e), k, k.snd_nxt)  BY <1>4, <1>5 DEF RecvOK, Unique
  <2> QED  BY <1>3, <2>1, <2>2 DEF BlockOK
<1>7. \A e \in End : kcp[e] = k /\ kcp[Peer(e)] = k  BY <1>1, PeerOfPeer DEF k
<1>8. Blocks  BY <1>1, <1>6, <1>7 DEF Blocks
<1>9. Links  BY DEF Init, Links
<1>10. ASSUME NEW e \in End PROVE At(e, k, <<>>, <<>>)
  <2>1. Stream(e)[0] = <<1, 1>> /\ Stream(Peer(e))[0] = <<1, 1>>
    BY PeerOfPeer, StreamNumbers
  <2>2. Len(Script[e]) \in Nat  BY ScriptIsSizes
  <2>3. k.snd_nxt + Len(k.snd_queue) = 0 /\ k.rcv_nxt - Len(k.rcv_queue) = 0
    <3>1. 0 + 0 = 0 /\ 0 - 0 = 0  OBVIOUS
    <3> QED  BY <1>4, <1>5, <3>1, Zenon
  <2>4. Len(<<>>) = 0 /\ 0 + 1 = 1  OBVIOUS
  <2> QED  BY <2>1, <2>2, <2>3, <2>4 DEF At
<1>11. Programs
  <2>1. sent = [e \in End |-> <<>>] /\ got = [e \in End |-> <<>>]  BY DEF Init
  <2>2. <<>> \in Seq(Seq(Data))  OBVIOUS
  <2> QED  BY <1>7, <1>10, <2>1, <2>2 DEF Programs
<1> QED  BY <1>8, <1>9, <1>11 DEF IInv

\* Every step of an end or of the link keeps the invariant, and is a step of
\* the reliable channel or none.
LEMMA StepKeeps ==
    ASSUME IInv, [Next]_vars
    PROVE  IInv' /\ [Channel!Next]_<<sent, got>>
<1>1. ASSUME NEW e \in End, Send(e) PROVE IInv' /\ Channel!Next
  <2>1. IInv'  BY <1>1, SendKeeps
  <2> DEFINE m == Len(sent[e]) + 1
             msg == Payload(Fragments(m, Script[e][m]))
             Messages == UNION {{Payload(Fragments(n, Script[d][n])) : n \in DOMAIN Script[d]}
                                : d \in End}
  <2>2. m \in DOMAIN Script[e]
    <3>1. sent[e] \in Seq(Seq(Data)) /\ Script[e] \in Seq(Nat)
      BY ScriptIsSizes DEF IInv, Programs
    <3>2. m <= Len(Script[e])  BY <1>1 DEF Send
    <3> QED  BY <3>1, <3>2
  <2>3. msg \in Messages  BY <2>2
  <2>4. sent' = [sent EXCEPT ![e] = Append(@, msg)] /\ UNCHANGED got
    BY <1>1 DEF Send
  <2> HIDE DEF msg
  <2>5. Channel!Send(e, msg)  BY <2>4 DEF Channel!Send
  <2> QED  BY <2>1, <2>3, <2>5 DEF Channel!Next
<1>2. ASSUME NEW e \in End, Recv(e) PROVE IInv' /\ Channel!Next
  <2>1. /\ IInv'
        /\ Len(got[e]) + 1 \in 1 .. Len(sent[Peer(e)])
        /\ got' = [got EXCEPT ![e] = Append(@, sent[Peer(e)][Len(@) + 1])]
        /\ UNCHANGED sent
    BY <1>2, RecvKeeps
  <2>2. Len(got[e]) \in Nat /\ Len(sent[Peer(e)]) \in Nat
    BY PeerOfPeer DEF IInv, Programs
  <2>3. Channel!Receive(e)  BY <2>1, <2>2 DEF Channel!Receive
  <2> QED  BY <2>1, <2>3 DEF Channel!Next
<1>3. ASSUME NEW e \in End, Tick(e) PROVE IInv' /\ UNCHANGED <<sent, got>>
  BY <1>3, UpdateKeeps DEF Tick
<1>4. ASSUME NEW e \in End, NEW i, Deliver(e, i) PROVE IInv' /\ UNCHANGED <<sent, got>>
  BY <1>4, DeliverKeeps
<1>5. ASSUME NEW e \in End, NEW i, Lose(e, i) \/ Duplicate(e, i)
      PROVE IInv' /\ UNCHANGED <<sent, got>>
  BY <1>5, LinkKeeps
<1>6. CASE UNCHANGED vars
  BY <1>6 DEF vars, IInv, Blocks, Links, Programs
<1> QED  BY <1>1, <1>2, <1>3, <1>4, <1>5, <1>6 DEF Next

\* Every segment that either end holds, and every one under way, is the fragment
\* that its number has in the stream of the end that sends it: the inductive
\* invariant (ikcp_send, ikcp_recv, ikcp_input, ikcp_flush).
THEOREM IInvHolds == Spec => []IInv
<1>1. IInv /\ [Next]_vars => IInv'  BY StepKeeps
<1> QED  BY <1>1, InitIInv, PTL DEF Spec

\* No acknowledgement makes a sender forget a segment that the peer still misses
\* (ikcp_parse_una and ikcp_parse_ack against ikcp_parse_data), whatever the
\* window, the mtu, the messages and the behaviour of the link.
THEOREM NothingForgotten == Spec => []AckedIsReceived
<1>1. IInv => AckedIsReceived
  <2> SUFFICES ASSUME IInv, NEW e \in End, NEW n \in 0 .. kcp[e].snd_nxt - 1
               PROVE  \/ n \in Sns(kcp[e].snd_buf)
                      \/ n < kcp[Peer(e)].rcv_nxt
                      \/ n \in Sns(kcp[Peer(e)].rcv_buf)
    BY DEF AckedIsReceived
  <2>1. kcp[e] \in Block /\ SendOK(e, kcp[e], kcp[Peer(e)])  BY DEF IInv, Blocks, BlockOK
  <2>2. kcp[e].snd_nxt \in Nat  BY <2>1 DEF Block
  <2>3. n \in Nat /\ n < kcp[e].snd_nxt  BY <2>2
  <2> QED  BY <2>1, <2>3 DEF SendOK, Received
<1> QED  BY <1>1, IInvHolds, PTL

\* Through every loss, duplication and reordering of datagrams the programs see a
\* reliable channel: messages whole, once and in order (lkcp_send and lkcp_recv).
THEOREM ReliableDelivery == Spec => ImplementsChannel
<1>1. Init => Channel!Init  BY DEF Init, Channel!Init
<1>2. IInv /\ [Next]_vars => [Channel!Next]_<<sent, got>>  BY StepKeeps
<1> QED  BY <1>1, <1>2, IInvHolds, PTL DEF Spec, ImplementsChannel, Channel!Spec

-----------------------------------------------------------------------------
(* AoiMap: the hash table of objects                                       *)

LEMMA Modulo ==
    ASSUME NEW w \in Nat \ {0}, NEW x \in Nat
    PROVE  x % w \in 0 .. w - 1
  OBVIOUS

-----------------------------------------------------------------------------
(* What WellMade gives.                                                     *)

Ids(m) == {m.slot[s].id : s \in IdMap!Used(m)}
Vacant(m) == DOMAIN m.slot \ IdMap!Used(m)

\* What WellMade says of the slots one by one.
LEMMA TableFacts ==
    ASSUME NEW m, IdMap!WellMade(m)
    PROVE  /\ m.size \in Nat \ {0} /\ m.lastfree \in Int /\ m.lastfree < m.size
           /\ m.slot \in [0 .. m.size - 1 -> IdMap!Slots(m.size)]
           /\ DOMAIN m.slot = 0 .. m.size - 1
           /\ \A s \in DOMAIN m.slot :
                 /\ s \in Nat /\ s # IdMap!NIL
                 /\ m.slot[s].id \in Uint32 \cup {IdMap!INVALID}
                 /\ m.slot[s].obj \in BOOLEAN
                 /\ m.slot[s].next \in DOMAIN m.slot \cup {IdMap!NIL}
           /\ \A s \in Vacant(m) : /\ s <= m.lastfree /\ m.slot[s].next = IdMap!NIL
                                   /\ ~m.slot[s].obj /\ s \in DOMAIN m.slot
                                   /\ m.slot[s].id = IdMap!INVALID
           /\ \A s \in IdMap!Used(m) :
                 /\ s \in DOMAIN m.slot
                 /\ m.slot[s].id \in Uint32
                 /\ IdMap!Home(m, s) \in DOMAIN m.slot
           /\ \A s, t \in IdMap!Used(m) : m.slot[s].id = m.slot[t].id => s = t
<1>1. /\ m.size \in Nat \ {0} /\ m.lastfree \in Int /\ m.lastfree < m.size
      /\ m.slot \in [0 .. m.size - 1 -> IdMap!Slots(m.size)]
      /\ DOMAIN m.slot = 0 .. m.size - 1
  BY DEF IdMap!WellMade, IdMap!Table
<1>2. \A s \in DOMAIN m.slot :
         /\ s \in Nat /\ s # IdMap!NIL
         /\ m.slot[s].id \in Uint32 \cup {IdMap!INVALID}
         /\ m.slot[s].obj \in BOOLEAN
         /\ m.slot[s].next \in DOMAIN m.slot \cup {IdMap!NIL}
  BY <1>1 DEF IdMap!Slots, IdMap!NIL
<1>3. \A s \in Vacant(m) : /\ s <= m.lastfree /\ m.slot[s].next = IdMap!NIL
                           /\ ~m.slot[s].obj /\ s \in DOMAIN m.slot
                           /\ m.slot[s].id = IdMap!INVALID
  BY DEF IdMap!WellMade, Vacant, IdMap!Used
<1>4. \A s \in IdMap!Used(m) : s \in DOMAIN m.slot /\ m.slot[s].id \in Uint32
  BY <1>2 DEF IdMap!Used
<1>5. \A s \in IdMap!Used(m) : IdMap!Home(m, s) \in DOMAIN m.slot
  <2> TAKE s \in IdMap!Used(m)
  <2>1. m.slot[s].id \in Nat
    BY <1>4, IdsFit
  <2> QED  BY <1>1, <2>1, Modulo DEF IdMap!Home, IdMap!mainposition
<1>6. \A s, t \in IdMap!Used(m) : m.slot[s].id = m.slot[t].id => s = t
  BY DEF IdMap!WellMade
<1> QED  BY <1>1, <1>2, <1>3, <1>4, <1>5, <1>6

\* The search down from lastfree finds the highest vacant slot.
LEMMA Vacancy ==
    ASSUME NEW m, IdMap!WellMade(m)
    PROVE  /\ Vacant(m) = {} => IdMap!FreeSlot(m) = IdMap!NIL
           /\ Vacant(m) # {} => /\ IdMap!FreeSlot(m) \in Vacant(m)
                                /\ \A s \in Vacant(m) : s <= IdMap!FreeSlot(m)
<1> DEFINE F == {i \in 0 .. m.lastfree : m.slot[i].id = IdMap!INVALID}
<1>1. F = Vacant(m)
  <2>1. \A i \in 0 .. m.lastfree : i \in DOMAIN m.slot
    BY TableFacts
  <2>2. \A i \in Vacant(m) : i \in 0 .. m.lastfree
    BY TableFacts
  <2> QED  BY <2>1, <2>2, TableFacts DEF Vacant, IdMap!Used
<1>2. IdMap!FreeSlot(m) = IF F = {} THEN IdMap!NIL ELSE CHOOSE i \in F : \A j \in F : j <= i
  BY DEF IdMap!FreeSlot
<1>3. F # {} => \E i \in F : \A j \in F : j <= i
  <2> SUFFICES ASSUME F # {}
               PROVE  \E i \in F : \A j \in F : j <= i
    OBVIOUS
  <2> DEFINE T == {m.lastfree - i : i \in F}
  <2>1. T \subseteq Nat /\ T # {}
    BY TableFacts
  <2>2. PICK k \in T : \A j \in T : k <= j
    <3> HIDE DEF T
    <3> QED  BY <2>1, LeastNat
  <2>3. PICK i \in F : k = m.lastfree - i
    OBVIOUS
  <2>4. \A j \in F : m.lastfree - i <= m.lastfree - j
    BY <2>2, <2>3
  <2>5. m.lastfree \in Int /\ \A j \in F : j \in Int
    BY TableFacts
  <2> HIDE DEF F
  <2>6. \A j \in F : j <= i
    BY <2>4, <2>5
  <2> QED  BY <2>6
<1> HIDE DEF F
<1> QED  BY <1>1, <1>2, <1>3

\* The chain from a slot: the slot of id if it is no further from the end.
Sought(m, behind, id, s) ==
    {t \in IdMap!Used(m) : /\ m.slot[t].id = id
                           /\ s \in IdMap!Used(m)
                           /\ IdMap!Home(m, t) = IdMap!Home(m, s)
                           /\ behind[t] <= behind[s]}

\* What the search along the chain from slot s ends with.
Result(m, behind, id, s) ==
    IF Sought(m, behind, id, s) = {} THEN IdMap!NIL
    ELSE CHOOSE t \in IdMap!Used(m) : m.slot[t].id = id

LEMMA SearchStep ==
    ASSUME NEW m, IdMap!WellMade(m), NEW behind \in [DOMAIN m.slot -> Nat],
           IdMap!Chained(m, behind), NEW id \in Uint32, NEW s \in DOMAIN m.slot
    PROVE  Result(m, behind, id, s) =
              IF m.slot[s].id = id THEN s
              ELSE IF m.slot[s].next = IdMap!NIL THEN IdMap!NIL
              ELSE Result(m, behind, id, m.slot[s].next)
<1>1. CASE s \notin IdMap!Used(m)
  <2>1. m.slot[s].id # id /\ m.slot[s].next = IdMap!NIL
    BY <1>1, TableFacts, IdsFit DEF Vacant, IdMap!INVALID
  <2>2. Sought(m, behind, id, s) = {}
    BY <1>1 DEF Sought
  <2> QED  BY <2>1, <2>2 DEF Result
<1>2. CASE s \in IdMap!Used(m) /\ m.slot[s].id = id
  <2>1. s \in Sought(m, behind, id, s)
    BY <1>2 DEF Sought
  <2>2. \A t \in IdMap!Used(m) : m.slot[t].id = id => t = s
    BY <1>2, TableFacts
  <2> QED  BY <1>2, <2>1, <2>2 DEF Result
<1>3. CASE s \in IdMap!Used(m) /\ m.slot[s].id # id /\ m.slot[s].next = IdMap!NIL
  <2>1. behind[s] = 0
    BY <1>3 DEF IdMap!Chained
  <2>2. \A t \in IdMap!Used(m) :
           IdMap!Home(m, t) = IdMap!Home(m, s) /\ behind[t] = behind[s] => t = s
    BY <1>3 DEF IdMap!Chained
  <2>3. ASSUME NEW t \in Sought(m, behind, id, s) PROVE FALSE
    <3>1. t \in IdMap!Used(m) /\ m.slot[t].id = id /\ behind[t] <= behind[s]
          /\ IdMap!Home(m, t) = IdMap!Home(m, s)
      BY DEF Sought
    <3>2. behind[t] \in Nat
      BY <3>1, TableFacts
    <3>3. t = s
      BY <2>1, <2>2, <3>1, <3>2
    <3> QED  BY <1>3, <3>1, <3>3
  <2> QED  BY <1>3, <2>3 DEF Result
<1>4. CASE s \in IdMap!Used(m) /\ m.slot[s].id # id /\ m.slot[s].next # IdMap!NIL
  <2> DEFINE n1 == m.slot[s].next
  <2>1. /\ n1 \in IdMap!Used(m) /\ IdMap!Home(m, n1) = IdMap!Home(m, s)
        /\ behind[s] = behind[n1] + 1
    BY <1>4 DEF IdMap!Chained
  <2>2. \A t \in IdMap!Used(m) :
           IdMap!Home(m, t) = IdMap!Home(m, s) /\ behind[t] = behind[s] => t = s
    BY <1>4 DEF IdMap!Chained
  <2>3. Sought(m, behind, id, s) = Sought(m, behind, id, n1)
    <3> HIDE DEF n1
    <3>1. \A t \in IdMap!Used(m) : behind[t] \in Nat
      BY TableFacts
    <3>2. ASSUME NEW t \in IdMap!Used(m), m.slot[t].id = id,
                 IdMap!Home(m, t) = IdMap!Home(m, s)
          PROVE  behind[t] <= behind[s] <=> behind[t] <= behind[n1]
      <4>1. behind[t] # behind[s]
        BY <1>4, <2>2, <3>2
      <4> QED  BY <2>1, <3>1, <4>1, <1>4
    <3> QED  BY <1>4, <2>1, <3>2 DEF Sought
  <2> QED  BY <1>4, <2>3 DEF Result
<1> QED  BY <1>1, <1>2, <1>3, <1>4

\* The recursive search is that function: it ends, since behind gets less.
LEMMA SearchIs ==
    ASSUME NEW m, IdMap!WellMade(m), NEW behind \in [DOMAIN m.slot -> Nat],
           IdMap!Chained(m, behind), NEW id \in Uint32
    PROVE  IdMap!Find(m, id) = Result(m, behind, id, IdMap!mainposition(m, id))
<1> DEFINE D == DOMAIN m.slot
           Is(f) == f = [s \in D |-> IF m.slot[s].id = id THEN s
                                     ELSE IF m.slot[s].next = IdMap!NIL THEN IdMap!NIL
                                     ELSE f[m.slot[s].next]]
           from == CHOOSE f : Is(f)
           g == [s \in D |-> Result(m, behind, id, s)]
<1>1. IdMap!Find(m, id) = from[IdMap!mainposition(m, id)]
  BY DEF IdMap!Find
<1>2. \A s \in D : m.slot[s].next # IdMap!NIL => m.slot[s].next \in D
  BY TableFacts
<1>3. Is(g)
  <2>1. \A s \in D : g[s] = IF m.slot[s].id = id THEN s
                            ELSE IF m.slot[s].next = IdMap!NIL THEN IdMap!NIL
                            ELSE g[m.slot[s].next]
    BY <1>2, SearchStep
  <2> QED  BY <2>1
<1>4. Is(from)
  <2> HIDE DEF Is, g
  <2> QED  BY <1>3
<1>5. DOMAIN from = D /\ \A s \in D : from[s] = IF m.slot[s].id = id THEN s
                                   ELSE IF m.slot[s].next = IdMap!NIL THEN IdMap!NIL
                                   ELSE from[m.slot[s].next]
  <2> HIDE DEF from
  <2> QED  BY <1>4
<1> HIDE DEF from, Is
<1>6. \A s \in D : from[s] = Result(m, behind, id, s)
  <2> DEFINE Odd == {s \in D : from[s] # Result(m, behind, id, s)}
             T == {behind[s] : s \in Odd}
  <2> SUFFICES ASSUME Odd # {} PROVE FALSE
    OBVIOUS
  <2>1. T \subseteq Nat /\ T # {}
    OBVIOUS
  <2>2. PICK k \in T : \A j \in T : k <= j
    <3> HIDE DEF T
    <3> QED  BY <2>1, LeastNat
  <2>3. PICK s \in Odd : k = behind[s]
    OBVIOUS
  <2>4. m.slot[s].id # id /\ m.slot[s].next # IdMap!NIL
        /\ from[m.slot[s].next] # Result(m, behind, id, m.slot[s].next)
    BY <1>5, <2>3, SearchStep
  <2>5. m.slot[s].next \in Odd
    BY <1>2, <2>3, <2>4
  <2>6. s \in IdMap!Used(m)
    BY <2>3, <2>4, TableFacts DEF Vacant
  <2>7. behind[s] = behind[m.slot[s].next] + 1
    BY <2>4, <2>6 DEF IdMap!Chained
  <2>8. behind[s] <= behind[m.slot[s].next]
    BY <2>2, <2>3, <2>5
  <2>9. behind[s] \in Nat /\ behind[m.slot[s].next] \in Nat
    BY <2>5
  <2> QED  BY <2>7, <2>8, <2>9
<1>7. IdMap!mainposition(m, id) \in D
  BY TableFacts, Modulo, IdsFit DEF IdMap!mainposition
<1> QED  BY <1>1, <1>6, <1>7

\* An id that the table has is found in its slot, another one nowhere.
LEMMA Found ==
    ASSUME NEW m, IdMap!WellMade(m), NEW id \in Uint32
    PROVE  /\ \A s \in IdMap!Used(m) : m.slot[s].id = id => IdMap!Find(m, id) = s
           /\ id \notin Ids(m) => IdMap!Find(m, id) = IdMap!NIL
<1>1. PICK behind \in [DOMAIN m.slot -> Nat] : IdMap!Chained(m, behind)
  BY DEF IdMap!WellMade
<1>2. IdMap!Find(m, id) = Result(m, behind, id, IdMap!mainposition(m, id))
  BY <1>1, SearchIs
<1>3. ASSUME NEW s \in IdMap!Used(m), m.slot[s].id = id PROVE IdMap!Find(m, id) = s
  <2>1. IdMap!mainposition(m, id) = IdMap!Home(m, s)
    BY <1>3 DEF IdMap!Home
  <2>2. /\ IdMap!Home(m, s) \in IdMap!Used(m)
        /\ IdMap!Home(m, IdMap!Home(m, s)) = IdMap!Home(m, s)
        /\ behind[s] <= behind[IdMap!Home(m, s)]
    BY <1>1 DEF IdMap!Chained
  <2>3. s \in Sought(m, behind, id, IdMap!mainposition(m, id))
    BY <1>3, <2>1, <2>2 DEF Sought
  <2>4. \A t \in IdMap!Used(m) : m.slot[t].id = id => t = s
    BY <1>3, TableFacts
  <2> QED  BY <1>2, <1>3, <2>3, <2>4 DEF Result
<1>4. ASSUME id \notin Ids(m) PROVE IdMap!Find(m, id) = IdMap!NIL
  <2>1. Sought(m, behind, id, IdMap!mainposition(m, id)) = {}
    BY <1>4 DEF Ids, Sought
  <2> QED  BY <1>2, <2>1 DEF Result
<1> QED  BY <1>3, <1>4

\* What one more id makes of a table.
OneMore(m, m1, id) ==
    /\ IdMap!WellMade(m1) /\ m1.size = m.size
    /\ IdMap!Objects(m1) = IdMap!Objects(m) \cup {id}
    /\ Ids(m1) \subseteq Ids(m) \cup {id}
    /\ \E x : Vacant(m) \subseteq Vacant(m1) \cup {x}

\* The main position is vacant: a chain of one slot begins.
LEMMA PlacedGrows ==
    ASSUME NEW m, IdMap!WellMade(m), NEW id \in Uint32, id \notin Ids(m),
           IdMap!mainposition(m, id) \in Vacant(m)
    PROVE  OneMore(m, [m EXCEPT !.slot[IdMap!mainposition(m, id)].id = id,
                              !.slot[IdMap!mainposition(m, id)].obj = TRUE], id)
<1> DEFINE s == IdMap!mainposition(m, id)
           m1 == [m EXCEPT !.slot[s].id = id, !.slot[s].obj = TRUE]
<1>1. PICK behind \in [DOMAIN m.slot -> Nat] : IdMap!Chained(m, behind)
  BY DEF IdMap!WellMade
<1> DEFINE b1 == [behind EXCEPT ![s] = 0]
<1>2. s \in DOMAIN m.slot /\ m.slot[s].next = IdMap!NIL
  BY TableFacts
<1>3. m1.size = m.size /\ m1 \in IdMap!Table(m.size) /\ m1.lastfree = m.lastfree
      /\ DOMAIN m1.slot = DOMAIN m.slot
  <2>1. m \in IdMap!Table(m.size) /\ DOMAIN m.slot = 0 .. m.size - 1
        /\ m.slot[s] \in IdMap!Slots(m.size)
    BY <1>2, TableFacts DEF IdMap!WellMade
  <2> DEFINE r == [m.slot[s] EXCEPT !.id = id, !.obj = TRUE]
             f == [m.slot EXCEPT ![s] = r]
  <2>2. r \in IdMap!Slots(m.size)
    BY <2>1 DEF IdMap!Slots
  <2>3. m1 = [m EXCEPT !.slot = f]
    BY <1>2, <2>1 DEF IdMap!Table
  <2>4. f \in [0 .. m.size - 1 -> IdMap!Slots(m.size)] /\ DOMAIN f = DOMAIN m.slot
    BY <2>1, <2>2, TableFacts
  <2> HIDE DEF f, m1
  <2> QED  BY <2>1, <2>3, <2>4 DEF IdMap!Table
<1>4. \A t \in DOMAIN m.slot : t # s => m1.slot[t] = m.slot[t] /\ b1[t] = behind[t]
  BY <1>2, TableFacts
<1>5. m1.slot[s].id = id /\ m1.slot[s].obj = TRUE /\ m1.slot[s].next = IdMap!NIL /\ b1[s] = 0
  <2>1. m.slot \in [0 .. m.size - 1 -> IdMap!Slots(m.size)] /\ DOMAIN m.slot = 0 .. m.size - 1
        /\ IdMap!WellMade(m)
    BY TableFacts
  <2> QED  BY <1>2, <2>1 DEF IdMap!Slots, IdMap!Table, IdMap!WellMade
<1>6. IdMap!Used(m1) = IdMap!Used(m) \cup {s}
  BY <1>2, <1>3, <1>4, <1>5, IdsFit DEF IdMap!Used, IdMap!INVALID
<1>7. s \notin IdMap!Used(m)
  BY DEF Vacant
<1>8. IdMap!Home(m1, s) = s /\ \A t \in IdMap!Used(m) : IdMap!Home(m1, t) = IdMap!Home(m, t)
  BY <1>3, <1>4, <1>5, <1>7, TableFacts DEF IdMap!Home, IdMap!mainposition
<1>9. b1 \in [DOMAIN m1.slot -> Nat]
  BY <1>3
<1> HIDE DEF m1, s, b1
<1>10. \A t \in IdMap!Used(m) : IdMap!Home(m, t) \in IdMap!Used(m) /\ IdMap!Home(m, t) # s
  BY <1>1, <1>7 DEF IdMap!Chained
<1>11. IdMap!Chained(m1, b1)
  <2>1. ASSUME NEW t \in IdMap!Used(m)
        PROVE  LET next == m1.slot[t].next
                   head == IdMap!Home(m1, t)
               IN  /\ head \in IdMap!Used(m1) /\ IdMap!Home(m1, head) = head
                   /\ b1[t] <= b1[head]
                   /\ next = IdMap!NIL => b1[t] = 0
                   /\ next # IdMap!NIL => /\ next \in IdMap!Used(m1)
                                          /\ IdMap!Home(m1, next) = head
                                          /\ b1[t] = b1[next] + 1
                   /\ t # head => \E p \in IdMap!Used(m1) : m1.slot[p].next = t
                   /\ \A u \in IdMap!Used(m1) : IdMap!Home(m1, u) = head /\ b1[u] = b1[t] => u = t
    <3>1. t # s /\ m1.slot[t] = m.slot[t] /\ b1[t] = behind[t]
      BY <1>4, <1>7, TableFacts
    <3>2. \A u \in IdMap!Used(m) : m1.slot[u] = m.slot[u] /\ b1[u] = behind[u]
      BY <1>4, <1>7, TableFacts
    <3>3. IdMap!Home(m1, t) = IdMap!Home(m, t)
      BY <1>8
    <3> QED  BY <1>1, <1>6, <1>8, <1>10, <3>1, <3>2, <3>3 DEF IdMap!Chained
  <2>2. \A u \in IdMap!Used(m1) : IdMap!Home(m1, u) = s => u = s
    BY <1>6, <1>8, <1>10
  <2> QED  BY <1>5, <1>6, <1>8, <2>1, <2>2 DEF IdMap!Chained
<1>12. IdMap!WellMade(m1)
  <2>1. \A t \in DOMAIN m1.slot \ IdMap!Used(m1) :
           t <= m1.lastfree /\ m1.slot[t].next = IdMap!NIL /\ ~m1.slot[t].obj
    BY <1>3, <1>4, <1>6, TableFacts DEF Vacant
  <2>2. \A t, u \in IdMap!Used(m1) : m1.slot[t].id = m1.slot[u].id => t = u
    <3>1. \A t \in IdMap!Used(m) : m1.slot[t].id = m.slot[t].id /\ m.slot[t].id # id
      BY <1>4, <1>7, TableFacts DEF Ids
    <3>2. \A t, u \in IdMap!Used(m) : m.slot[t].id = m.slot[u].id => t = u
      BY TableFacts
    <3> QED  BY <1>5, <1>6, <3>1, <3>2
  <2> QED  BY <1>3, <1>9, <1>11, <2>1, <2>2, TableFacts DEF IdMap!WellMade
<1>13. IdMap!Objects(m1) = IdMap!Objects(m) \cup {id}
  <2>1. ~m.slot[s].obj
    BY TableFacts DEF s
  <2>2. {t \in DOMAIN m1.slot : m1.slot[t].obj} = {t \in DOMAIN m.slot : m.slot[t].obj} \cup {s}
    BY <1>2, <1>3, <1>4, <1>5
  <2> QED  BY <1>4, <1>5, <2>1, <2>2 DEF IdMap!Objects
<1>14. Ids(m1) \subseteq Ids(m) \cup {id}
  BY <1>4, <1>5, <1>6, <1>7, TableFacts DEF Ids
<1>15. Vacant(m) \subseteq Vacant(m1) \cup {s}
  BY <1>3, <1>6 DEF Vacant
<1> QED  BY <1>3, <1>12, <1>13, <1>14, <1>15 DEF OneMore, m1, s

\* The main position is taken by an id that belongs there: the new one comes second.
LEMMA ChainGrows ==
    ASSUME NEW m, IdMap!WellMade(m), NEW id \in Uint32, id \notin Ids(m),
           IdMap!mainposition(m, id) \in IdMap!Used(m),
           IdMap!Home(m, IdMap!mainposition(m, id)) = IdMap!mainposition(m, id),
           Vacant(m) # {}
    PROVE  OneMore(m, IdMap!Chain(m, id), id)
<1> DEFINE s == IdMap!mainposition(m, id)
           free == IdMap!FreeSlot(m)
           next == m.slot[s].next
           fs == [id |-> id, obj |-> TRUE, next |-> next]
           ss == [m.slot[s] EXCEPT !.next = free]
           f == [m.slot EXCEPT ![free] = fs, ![s] = ss]
           m1 == [m EXCEPT !.lastfree = free - 1, !.slot = f]
<1>1. PICK behind \in [DOMAIN m.slot -> Nat] : IdMap!Chained(m, behind)
  BY DEF IdMap!WellMade
<1> DEFINE b1 == [behind EXCEPT ![free] = behind[s], ![s] = behind[s] + 1]
<1>2. free \in Vacant(m) /\ \A t \in Vacant(m) : t <= free
  BY Vacancy
<1>3. /\ s \in DOMAIN m.slot /\ free \in DOMAIN m.slot /\ s # free
      /\ s \in IdMap!Used(m) /\ free \notin IdMap!Used(m)
  BY <1>2, TableFacts DEF Vacant
<1>4. /\ m.slot \in [DOMAIN m.slot -> IdMap!Slots(m.size)] /\ DOMAIN m.slot = 0 .. m.size - 1
      /\ m \in IdMap!Table(m.size)
      /\ m.slot[s] \in IdMap!Slots(m.size)
  BY <1>3, TableFacts DEF IdMap!WellMade
<1>5. IdMap!Chain(m, id) = m1
  <2>1. [m.slot EXCEPT ![free] = fs, ![s].next = free] = f
    BY <1>3
  <2> QED  BY <1>4, <2>1 DEF IdMap!Chain, IdMap!Table
<1>6. fs \in IdMap!Slots(m.size) /\ ss \in IdMap!Slots(m.size)
      /\ ss.id = m.slot[s].id /\ ss.obj = m.slot[s].obj /\ ss.next = free
  BY <1>3, <1>4 DEF IdMap!Slots
<1>7. f \in [DOMAIN m.slot -> IdMap!Slots(m.size)]
  <2> HIDE DEF fs, ss
  <2> QED  BY <1>4, <1>6
<1>8. free - 1 \in Int /\ free - 1 < m.size
  BY <1>3, TableFacts
<1>9. m1 \in IdMap!Table(m.size) /\ m1.size = m.size /\ m1.lastfree = free - 1
      /\ m1.slot = f /\ DOMAIN m1.slot = DOMAIN m.slot
  <2>1. m1 = [m EXCEPT !.lastfree = free - 1, !.slot = f] /\ free - 1 \in Int
    BY <1>8
  <2> HIDE DEF f, m1, free
  <2>2. m1.size = m.size /\ m1.lastfree = free - 1 /\ m1.slot = f
    BY <1>4, <2>1 DEF IdMap!Table
  <2>3. DOMAIN m1.slot = DOMAIN m.slot
    BY <1>7, <2>2
  <2> QED  BY <1>4, <1>7, <2>1, <2>2, <2>3 DEF IdMap!Table
<1>10. \A t \in DOMAIN m.slot : t # s /\ t # free => f[t] = m.slot[t] /\ b1[t] = behind[t]
  BY <1>4
<1>11. f[free] = fs /\ f[s] = ss /\ b1[free] = behind[s] /\ b1[s] = behind[s] + 1
  BY <1>3, <1>4
<1>12. b1 \in [DOMAIN m1.slot -> Nat]
  <2> HIDE DEF m1
  <2> QED  BY <1>3, <1>9
<1>13. fs.id = id /\ fs.obj = TRUE /\ fs.next = next
  OBVIOUS
<1> HIDE DEF m1, f, fs, ss, b1, free, s
<1>14. IdMap!Used(m1) = IdMap!Used(m) \cup {free}
  <2>1. \A t \in DOMAIN m.slot : t # free => m1.slot[t].id = m.slot[t].id
    BY <1>6, <1>9, <1>10, <1>11
  <2>2. m1.slot[free].id # IdMap!INVALID
    BY <1>9, <1>11, <1>13, IdsFit DEF IdMap!INVALID
  <2> QED  BY <1>3, <1>9, <2>1, <2>2 DEF IdMap!Used
<1>15. IdMap!Home(m1, free) = s /\ \A t \in IdMap!Used(m) : IdMap!Home(m1, t) = IdMap!Home(m, t)
  <2>1. IdMap!Home(m1, free) = s
    BY <1>9, <1>11, <1>13 DEF IdMap!Home, IdMap!mainposition, s
  <2>2. \A t \in IdMap!Used(m) : m1.slot[t].id = m.slot[t].id
    BY <1>3, <1>6, <1>9, <1>10, <1>11, TableFacts
  <2> QED  BY <1>9, <2>1, <2>2 DEF IdMap!Home, IdMap!mainposition
<1>16. IdMap!Home(m, s) = s
  BY DEF s
<1>17. \A t \in IdMap!Used(m) : behind[t] \in Nat
  BY TableFacts
<1>18. \A t \in IdMap!Used(m) : t # s => m1.slot[t] = m.slot[t] /\ b1[t] = behind[t]
  BY <1>3, <1>9, <1>10, TableFacts
<1>19. \A t \in IdMap!Used(m) : IdMap!Home(m, t) = s /\ t # s => behind[t] < behind[s]
  <2> TAKE t \in IdMap!Used(m)
  <2> HAVE IdMap!Home(m, t) = s /\ t # s
  <2>1. behind[t] <= behind[s]
    BY <1>1 DEF IdMap!Chained
  <2>2. behind[t] # behind[s]
    BY <1>1, <1>3, <1>16 DEF IdMap!Chained
  <2> QED  BY <1>3, <1>17, <2>1, <2>2
<1>20. IdMap!Chained(m1, b1)
  <2>1. \A t \in IdMap!Used(m1) :
           IdMap!Home(m1, t) \in IdMap!Used(m1)
           /\ IdMap!Home(m1, IdMap!Home(m1, t)) = IdMap!Home(m1, t)
           /\ b1[t] <= b1[IdMap!Home(m1, t)]
    <3>1. ASSUME NEW t \in IdMap!Used(m), IdMap!Home(m, t) # s
          PROVE  IdMap!Home(m1, t) \in IdMap!Used(m1)
                 /\ IdMap!Home(m1, IdMap!Home(m1, t)) = IdMap!Home(m1, t)
                 /\ b1[t] <= b1[IdMap!Home(m1, t)]
      <4>1. t # s /\ IdMap!Home(m, t) \in IdMap!Used(m)
            /\ IdMap!Home(m, IdMap!Home(m, t)) = IdMap!Home(m, t)
            /\ behind[t] <= behind[IdMap!Home(m, t)]
        BY <1>1, <1>16, <3>1 DEF IdMap!Chained
      <4> QED  BY <1>14, <1>15, <1>18, <3>1, <4>1
    <3>2. \A t \in IdMap!Used(m) : IdMap!Home(m, t) = s => b1[t] <= b1[s]
      BY <1>3, <1>11, <1>17, <1>18, <1>19
    <3>3. b1[free] <= b1[s]
      BY <1>3, <1>11, <1>17
    <3> QED  BY <1>3, <1>14, <1>15, <1>16, <3>1, <3>2, <3>3
  <2>2. \A t \in IdMap!Used(m1) : m1.slot[t].next = IdMap!NIL => b1[t] = 0
    <3>1. \A t \in IdMap!Used(m) : t # s /\ m.slot[t].next = IdMap!NIL => behind[t] = 0
      BY <1>1 DEF IdMap!Chained
    <3>2. m1.slot[s].next # IdMap!NIL
      BY <1>3, <1>6, <1>9, <1>11, TableFacts
    <3>3. m1.slot[free].next = IdMap!NIL => behind[s] = 0
      BY <1>1, <1>3, <1>9, <1>11, <1>13 DEF IdMap!Chained
    <3> QED  BY <1>11, <1>14, <1>18, <3>1, <3>2, <3>3
  <2>3. ASSUME NEW t \in IdMap!Used(m1), m1.slot[t].next # IdMap!NIL
        PROVE  /\ m1.slot[t].next \in IdMap!Used(m1)
               /\ IdMap!Home(m1, m1.slot[t].next) = IdMap!Home(m1, t)
               /\ b1[t] = b1[m1.slot[t].next] + 1
    <3>1. CASE t = s
      BY <1>3, <1>6, <1>9, <1>11, <1>14, <1>15, <1>16, <3>1
    <3>2. CASE t = free
      <4>1. m1.slot[t].next = next /\ next # IdMap!NIL
        BY <1>9, <1>11, <1>13, <2>3, <3>2
      <4>2. next \in IdMap!Used(m) /\ IdMap!Home(m, next) = s /\ behind[s] = behind[next] + 1
        BY <1>1, <1>3, <1>16, <4>1 DEF IdMap!Chained
      <4>3. next # s
        BY <1>17, <4>2
      <4> HIDE DEF next
      <4> QED  BY <1>11, <1>14, <1>15, <1>18, <3>2, <4>1, <4>2, <4>3
    <3>3. CASE t # s /\ t # free
      <4>1. t \in IdMap!Used(m) /\ m1.slot[t] = m.slot[t] /\ b1[t] = behind[t]
        BY <1>14, <1>18, <3>3
      <4> DEFINE nt == m.slot[t].next
      <4>2. nt \in IdMap!Used(m) /\ IdMap!Home(m, nt) = IdMap!Home(m, t)
            /\ behind[t] = behind[nt] + 1
        BY <1>1, <2>3, <4>1 DEF IdMap!Chained
      <4>3. nt # s
        BY <1>16, <1>17, <1>19, <3>3, <4>1, <4>2
      <4> QED  BY <1>14, <1>15, <1>18, <4>1, <4>2, <4>3
    <3> QED  BY <3>1, <3>2, <3>3
  <2>4. ASSUME NEW t \in IdMap!Used(m1), t # IdMap!Home(m1, t)
        PROVE  \E p \in IdMap!Used(m1) : m1.slot[p].next = t
    <3>1. CASE t = free
      BY <1>3, <1>6, <1>9, <1>11, <1>14, <3>1
    <3>2. CASE t # free
      <4>1. t \in IdMap!Used(m) /\ t # IdMap!Home(m, t)
        BY <1>14, <1>15, <2>4, <3>2
      <4>2. PICK p \in IdMap!Used(m) : m.slot[p].next = t
        BY <1>1, <4>1 DEF IdMap!Chained
      <4>3. CASE p = s
        BY <1>9, <1>11, <1>13, <1>14, <4>2, <4>3
      <4>4. CASE p # s
        BY <1>14, <1>18, <4>2, <4>4
      <4> QED  BY <4>3, <4>4
    <3> QED  BY <3>1, <3>2
  <2>5. ASSUME NEW t \in IdMap!Used(m1), NEW u \in IdMap!Used(m1),
               IdMap!Home(m1, u) = IdMap!Home(m1, t), b1[u] = b1[t]
        PROVE  u = t
    <3>1. CASE IdMap!Home(m1, t) # s
      <4>1. t \in IdMap!Used(m) /\ u \in IdMap!Used(m) /\ t # s /\ u # s
        BY <1>14, <1>15, <1>16, <2>5, <3>1
      <4>2. behind[u] = behind[t] /\ IdMap!Home(m, u) = IdMap!Home(m, t)
        BY <1>15, <1>18, <2>5, <4>1
      <4> QED  BY <1>1, <4>1, <4>2 DEF IdMap!Chained
    <3>2. CASE IdMap!Home(m1, t) = s
      <4>1. \A v \in IdMap!Used(m) : IdMap!Home(m1, v) = s /\ v # s =>
               b1[v] = behind[v] /\ behind[v] \in Nat /\ behind[v] < behind[s]
        BY <1>15, <1>17, <1>18, <1>19
      <4>2. behind[s] \in Nat /\ b1[s] = behind[s] + 1 /\ b1[free] = behind[s]
        BY <1>3, <1>11, <1>17
      <4>3. t \in IdMap!Used(m) /\ u \in IdMap!Used(m) /\ t # s /\ u # s => t = u
        <5> HAVE t \in IdMap!Used(m) /\ u \in IdMap!Used(m) /\ t # s /\ u # s
        <5>1. behind[u] = behind[t] /\ IdMap!Home(m, u) = IdMap!Home(m, t)
          BY <1>15, <1>18, <2>5
        <5> QED  BY <1>1, <5>1 DEF IdMap!Chained
      <4> QED  BY <1>3, <1>14, <2>5, <3>2, <4>1, <4>2, <4>3
    <3> QED  BY <3>1, <3>2
  <2> QED  BY <2>1, <2>2, <2>3, <2>4, <2>5 DEF IdMap!Chained
<1>21. IdMap!WellMade(m1)
  <2>1. \A t \in DOMAIN m1.slot \ IdMap!Used(m1) :
           t <= m1.lastfree /\ m1.slot[t].next = IdMap!NIL /\ ~m1.slot[t].obj
    <3> TAKE t \in DOMAIN m1.slot \ IdMap!Used(m1)
    <3>1. t \in Vacant(m) /\ t # free /\ t # s
      BY <1>3, <1>9, <1>14 DEF Vacant
    <3>2. m1.slot[t] = m.slot[t] /\ t <= free
      BY <1>2, <1>9, <1>10, <3>1 DEF Vacant
    <3>3. t \in Nat /\ m.slot[t].next = IdMap!NIL /\ ~m.slot[t].obj
      BY <3>1, TableFacts
    <3>4. free \in Nat
      BY <1>3, TableFacts
    <3> QED  BY <1>9, <3>1, <3>2, <3>3, <3>4
  <2>2. \A t, u \in IdMap!Used(m1) : m1.slot[t].id = m1.slot[u].id => t = u
    <3>1. \A t \in IdMap!Used(m) : m1.slot[t].id = m.slot[t].id /\ m.slot[t].id # id
      BY <1>6, <1>9, <1>11, <1>18 DEF Ids
    <3>2. \A t, u \in IdMap!Used(m) : m.slot[t].id = m.slot[u].id => t = u
      BY TableFacts
    <3> QED  BY <1>9, <1>11, <1>13, <1>14, <3>1, <3>2
  <2> QED  BY <1>8, <1>9, <1>12, <1>20, <2>1, <2>2, TableFacts DEF IdMap!WellMade
<1>22. IdMap!Objects(m1) = IdMap!Objects(m) \cup {id}
  <2>1. ~m.slot[free].obj
    BY <1>2, TableFacts
  <2>2. \A t \in DOMAIN m.slot : t # free =>
           m1.slot[t].id = m.slot[t].id /\ m1.slot[t].obj = m.slot[t].obj
    BY <1>6, <1>9, <1>10, <1>11
  <2>3. {t \in DOMAIN m1.slot : m1.slot[t].obj} = {t \in DOMAIN m.slot : m.slot[t].obj} \cup {free}
    BY <1>3, <1>9, <1>11, <1>13, <2>2
  <2> QED  BY <1>9, <1>11, <1>13, <2>1, <2>2, <2>3 DEF IdMap!Objects
<1>23. Ids(m1) \subseteq Ids(m) \cup {id}
  <2>1. \A t \in IdMap!Used(m) : m1.slot[t].id = m.slot[t].id
    BY <1>6, <1>9, <1>11, <1>18
  <2> QED  BY <1>9, <1>11, <1>13, <1>14, <2>1 DEF Ids
<1>24. Vacant(m) \subseteq Vacant(m1) \cup {free}
  BY <1>9, <1>14 DEF Vacant
<1> QED  BY <1>5, <1>9, <1>21, <1>22, <1>23, <1>24 DEF OneMore

\* An id away from home makes way: its chain closes behind it.
LEMMA MakesWay ==
    ASSUME NEW m, IdMap!WellMade(m), NEW id \in Uint32, id \notin Ids(m),
           IdMap!mainposition(m, id) \in IdMap!Used(m),
           IdMap!Home(m, IdMap!mainposition(m, id)) # IdMap!mainposition(m, id)
    PROVE  LET s == IdMap!mainposition(m, id)
               old == m.slot[s]
               m1 == IdMap!MakeWay(m, s, id)
           IN  /\ IdMap!WellMade(m1) /\ m1.size = m.size
               /\ IdMap!Objects(m1) = (IdMap!Objects(m) \ {old.id}) \cup {id}
               /\ Ids(m1) = (Ids(m) \ {old.id}) \cup {id}
               /\ Vacant(m1) = Vacant(m)
               /\ old.id \in Uint32 /\ old.id # id /\ old.id \in Ids(m)
               /\ old.obj <=> old.id \in IdMap!Objects(m)
               /\ IdMap!mainposition(m1, old.id) \in IdMap!Used(m1)
               /\ IdMap!Home(m1, IdMap!mainposition(m1, old.id)) = IdMap!mainposition(m1, old.id)
<1> DEFINE s == IdMap!mainposition(m, id)
           h == IdMap!Home(m, s)
           last == CHOOSE i \in DOMAIN m.slot : m.slot[i].next = s
           next == m.slot[s].next
           ss == [id |-> id, obj |-> TRUE, next |-> IdMap!NIL]
           ps == [m.slot[last] EXCEPT !.next = next]
           f == [m.slot EXCEPT ![last] = ps, ![s] = ss]
           m1 == [m EXCEPT !.slot = f]
<1>1. PICK behind \in [DOMAIN m.slot -> Nat] : IdMap!Chained(m, behind)
  BY DEF IdMap!WellMade
<1> DEFINE less(t) == IF IdMap!Home(m, t) = h /\ behind[t] > behind[s]
                      THEN behind[t] - 1 ELSE behind[t]
           b1 == [t \in DOMAIN m.slot |-> IF t = s THEN 0 ELSE less(t)]
<1>2. s \in DOMAIN m.slot /\ s \in IdMap!Used(m) /\ h # s
  BY TableFacts
<1>3. \A t \in IdMap!Used(m) : behind[t] \in Nat /\ t \in DOMAIN m.slot
  BY TableFacts
<1>4. last \in IdMap!Used(m) /\ m.slot[last].next = s
  <2>1. \E p \in IdMap!Used(m) : m.slot[p].next = s
    BY <1>1, <1>2 DEF IdMap!Chained
  <2>2. last \in DOMAIN m.slot /\ m.slot[last].next = s
    BY <1>3, <2>1
  <2> HIDE DEF last
  <2>3. m.slot[last].next # IdMap!NIL
    BY <1>2, <2>2, TableFacts
  <2> QED  BY <2>2, <2>3, TableFacts DEF Vacant
<1>5. IdMap!Home(m, last) = h /\ behind[last] = behind[s] + 1 /\ last # s
  <2> HIDE DEF last
  <2>1. IdMap!Home(m, last) = h /\ behind[last] = behind[s] + 1
    BY <1>1, <1>2, <1>4, TableFacts DEF IdMap!Chained
  <2> QED  BY <1>2, <1>3, <2>1
<1>6. \A t \in IdMap!Used(m) : m.slot[t].next = s => t = last
  <2> TAKE t \in IdMap!Used(m)
  <2> HAVE m.slot[t].next = s
  <2>1. IdMap!Home(m, t) = h /\ behind[t] = behind[s] + 1
    BY <1>1, <1>2, TableFacts DEF IdMap!Chained
  <2> QED  BY <1>1, <1>4, <1>5, <2>1 DEF IdMap!Chained
<1>7. /\ m.slot \in [DOMAIN m.slot -> IdMap!Slots(m.size)] /\ DOMAIN m.slot = 0 .. m.size - 1
      /\ m \in IdMap!Table(m.size)
      /\ m.slot[s] \in IdMap!Slots(m.size) /\ m.slot[last] \in IdMap!Slots(m.size)
  BY <1>2, <1>3, <1>4, TableFacts DEF IdMap!WellMade
<1>8. IdMap!MakeWay(m, s, id) = m1
  <2>1. [m.slot EXCEPT ![last].next = next, ![s] = ss] = f
    <3> HIDE DEF last, s
    <3> QED  BY <1>3, <1>4
  <2>2. IdMap!MakeWay(m, s, id) = [m EXCEPT !.slot[last].next = next, !.slot[s] = ss]
    <3> HIDE DEF s
    <3> QED  BY DEF IdMap!MakeWay
  <2> HIDE DEF last, s, ss, f
  <2>3. [m EXCEPT !.slot[last].next = next, !.slot[s] = ss]
        = [m EXCEPT !.slot = [m.slot EXCEPT ![last].next = next, ![s] = ss]]
    BY <1>7 DEF IdMap!Table
  <2> QED  BY <2>1, <2>2, <2>3
<1>9. ss \in IdMap!Slots(m.size) /\ ps \in IdMap!Slots(m.size)
      /\ ps.id = m.slot[last].id /\ ps.obj = m.slot[last].obj /\ ps.next = next
      /\ ss.id = id /\ ss.obj = TRUE /\ ss.next = IdMap!NIL
  <2> HIDE DEF last
  <2> QED  BY <1>2, <1>7 DEF IdMap!Slots
<1>10. f \in [DOMAIN m.slot -> IdMap!Slots(m.size)]
  <2> HIDE DEF last, ss, ps
  <2> QED  BY <1>7, <1>9
<1>11. m1 \in IdMap!Table(m.size) /\ m1.size = m.size /\ m1.lastfree = m.lastfree
       /\ m1.slot = f /\ DOMAIN m1.slot = DOMAIN m.slot
  <2> HIDE DEF f
  <2>1. m1.size = m.size /\ m1.lastfree = m.lastfree /\ m1.slot = f
    BY <1>7 DEF IdMap!Table
  <2> QED  BY <1>7, <1>10, <2>1 DEF IdMap!Table
<1>12. f[s] = ss /\ f[last] = ps /\ \A t \in DOMAIN m.slot : t # s /\ t # last => f[t] = m.slot[t]
  <2> HIDE DEF last, ss, ps
  <2> QED  BY <1>2, <1>3, <1>4, <1>5, <1>7
<1>13. b1 \in [DOMAIN m1.slot -> Nat]
  <2>1. \A t \in DOMAIN m.slot : less(t) \in Nat
    BY <1>2
  <2> HIDE DEF m1, less
  <2> QED  BY <1>11, <2>1
<1>14. b1[s] = 0 /\ \A t \in IdMap!Used(m) : t # s => b1[t] = less(t)
  BY <1>2, <1>3
<1> HIDE DEF m1, f, ss, ps, b1, last
<1>15. \A t \in DOMAIN m.slot : t # s =>
          m1.slot[t].id = m.slot[t].id /\ m1.slot[t].obj = m.slot[t].obj
  BY <1>9, <1>11, <1>12
<1>16. m1.slot[s].id = id /\ m1.slot[s].obj = TRUE /\ m1.slot[s].next = IdMap!NIL
  BY <1>9, <1>11, <1>12
<1>17. IdMap!Used(m1) = IdMap!Used(m)
  BY <1>2, <1>11, <1>15, <1>16, IdsFit DEF IdMap!Used, IdMap!INVALID
<1>18. \A t \in IdMap!Used(m) : t # s => IdMap!Home(m1, t) = IdMap!Home(m, t)
  BY <1>3, <1>11, <1>15 DEF IdMap!Home, IdMap!mainposition
<1>19. IdMap!Home(m1, s) = s
  BY <1>11, <1>16 DEF IdMap!Home, IdMap!mainposition
<1>20. \A t \in IdMap!Used(m) : IdMap!Home(m, t) # s
  BY <1>1, <1>2 DEF IdMap!Chained
<1>21. /\ h \in IdMap!Used(m) /\ IdMap!Home(m, h) = h /\ behind[h] > behind[s]
  <2>1. h \in IdMap!Used(m) /\ IdMap!Home(m, h) = h /\ behind[s] <= behind[h]
    BY <1>1, <1>2 DEF IdMap!Chained
  <2>2. behind[h] # behind[s]
    BY <1>1, <1>2, <2>1 DEF IdMap!Chained
  <2> QED  BY <1>2, <1>3, <2>1, <2>2
<1>22. \A t \in IdMap!Used(m) : IdMap!Home(m, t) = h /\ t # s => behind[t] # behind[s]
  BY <1>1, <1>2 DEF IdMap!Chained
<1> HIDE DEF h, s
<1>23. IdMap!Chained(m1, b1)
  <2>1. \A t \in IdMap!Used(m1) :
           IdMap!Home(m1, t) \in IdMap!Used(m1)
           /\ IdMap!Home(m1, IdMap!Home(m1, t)) = IdMap!Home(m1, t)
           /\ b1[t] <= b1[IdMap!Home(m1, t)]
    <3> TAKE t \in IdMap!Used(m1)
    <3>1. CASE t = s
      BY <1>2, <1>14, <1>17, <1>19, <3>1
    <3>2. CASE t # s
      <4> DEFINE k == IdMap!Home(m, t)
      <4>1. k \in IdMap!Used(m) /\ IdMap!Home(m, k) = k /\ behind[t] <= behind[k] /\ k # s
        BY <1>1, <1>17, <1>20 DEF IdMap!Chained
      <4>2. b1[t] = less(t) /\ b1[k] = less(k) /\ behind[t] \in Nat /\ behind[k] \in Nat
            /\ behind[s] \in Nat
        BY <1>2, <1>3, <1>14, <1>17, <3>2, <4>1
      <4>3. less(t) <= less(k)
        BY <1>21, <4>1, <4>2
      <4> HIDE DEF less, k
      <4>4. IdMap!Home(m1, t) = k /\ IdMap!Home(m1, k) = k
        BY <1>17, <1>18, <3>2, <4>1 DEF k
      <4> QED  BY <1>17, <4>1, <4>2, <4>3, <4>4
    <3> QED  BY <3>1, <3>2
  <2>2. ASSUME NEW t \in IdMap!Used(m1), m1.slot[t].next = IdMap!NIL PROVE b1[t] = 0
    <3>1. CASE t = s
      BY <1>14, <3>1
    <3>2. CASE t = last
      <4>1. next = IdMap!NIL
        BY <1>9, <1>11, <1>12, <2>2, <3>2
      <4>2. behind[s] = 0
        BY <1>1, <1>2, <4>1 DEF IdMap!Chained
      <4>3. less(t) = 0
        BY <1>5, <3>2, <4>2
      <4> QED  BY <1>4, <1>5, <1>14, <3>2, <4>3
    <3>3. CASE t # s /\ t # last
      <4>1. t \in IdMap!Used(m) /\ m.slot[t].next = IdMap!NIL
        BY <1>3, <1>11, <1>12, <1>17, <2>2, <3>3
      <4>2. behind[t] = 0
        BY <1>1, <4>1 DEF IdMap!Chained
      <4>3. less(t) = 0
        BY <1>2, <1>3, <4>2
      <4> QED  BY <1>14, <3>3, <4>1, <4>3
    <3> QED  BY <3>1, <3>2, <3>3
  <2>3. ASSUME NEW t \in IdMap!Used(m1), m1.slot[t].next # IdMap!NIL
        PROVE  /\ m1.slot[t].next \in IdMap!Used(m1)
               /\ IdMap!Home(m1, m1.slot[t].next) = IdMap!Home(m1, t)
               /\ b1[t] = b1[m1.slot[t].next] + 1
    <3>1. t # s
      BY <1>16, <2>3
    <3>2. CASE t = last
      <4>1. m1.slot[t].next = next /\ next # IdMap!NIL
        BY <1>9, <1>11, <1>12, <2>3, <3>2
      <4>2. next \in IdMap!Used(m) /\ IdMap!Home(m, next) = h /\ behind[s] = behind[next] + 1
        BY <1>1, <1>2, <4>1 DEF IdMap!Chained, h
      <4> HIDE DEF next
      <4>3. next # s /\ behind[next] \in Nat /\ behind[s] \in Nat
        BY <1>2, <1>3, <4>2
      <4>4. less(t) = behind[s] /\ less(next) = behind[next]
        BY <1>5, <3>2, <4>2, <4>3
      <4> HIDE DEF less
      <4>5. b1[t] = less(t) /\ b1[next] = less(next)
        BY <1>14, <1>17, <3>1, <4>2, <4>3
      <4> QED  BY <1>4, <1>5, <1>17, <1>18, <3>1, <3>2, <4>1, <4>2, <4>3, <4>4, <4>5
    <3>3. CASE t # last
      <4>1. t \in IdMap!Used(m) /\ m1.slot[t] = m.slot[t]
        BY <1>3, <1>11, <1>12, <1>17, <3>1, <3>3
      <4> DEFINE u == m.slot[t].next
      <4>2. u \in IdMap!Used(m) /\ IdMap!Home(m, u) = IdMap!Home(m, t) /\ behind[t] = behind[u] + 1
        BY <1>1, <2>3, <4>1 DEF IdMap!Chained
      <4>3. u # s
        BY <1>6, <3>3, <4>1
      <4>4. m1.slot[t].next = u
        BY <4>1
      <4> HIDE DEF u
      <4>5. behind[t] \in Nat /\ behind[u] \in Nat /\ behind[s] \in Nat
        BY <1>2, <1>3, <4>1, <4>2
      <4>6. IdMap!Home(m, u) = h => behind[u] # behind[s] /\ behind[t] # behind[s]
        BY <1>22, <3>1, <4>1, <4>2, <4>3
      <4>7. less(t) = less(u) + 1
        BY <4>2, <4>5, <4>6
      <4> HIDE DEF less
      <4> QED  BY <1>14, <1>17, <1>18, <3>1, <4>1, <4>2, <4>3, <4>4, <4>7
    <3> QED  BY <3>2, <3>3
  <2>4. ASSUME NEW t \in IdMap!Used(m1), t # IdMap!Home(m1, t)
        PROVE  \E p \in IdMap!Used(m1) : m1.slot[p].next = t
    <3>1. t # s /\ t \in IdMap!Used(m) /\ t # IdMap!Home(m, t)
      BY <1>17, <1>18, <1>19, <2>4
    <3>2. PICK p \in IdMap!Used(m) : m.slot[p].next = t
      BY <1>1, <3>1 DEF IdMap!Chained
    <3>3. CASE p = s
      BY <1>4, <1>9, <1>11, <1>12, <1>17, <3>2, <3>3
    <3>4. CASE p # s
      <4>1. p # last
        BY <1>4, <3>1, <3>2
      <4> QED  BY <1>3, <1>11, <1>12, <1>17, <3>2, <3>4, <4>1
    <3> QED  BY <3>3, <3>4
  <2>5. ASSUME NEW t \in IdMap!Used(m1), NEW u \in IdMap!Used(m1),
               IdMap!Home(m1, u) = IdMap!Home(m1, t), b1[u] = b1[t]
        PROVE  u = t
    <3>1. CASE t = s \/ u = s
      BY <1>17, <1>18, <1>19, <1>20, <2>5, <3>1
    <3>2. CASE t # s /\ u # s
      <4>1. t \in IdMap!Used(m) /\ u \in IdMap!Used(m) /\ less(u) = less(t)
            /\ IdMap!Home(m, u) = IdMap!Home(m, t)
        BY <1>14, <1>17, <1>18, <2>5, <3>2
      <4>2. behind[t] \in Nat /\ behind[u] \in Nat /\ behind[s] \in Nat
        BY <1>2, <1>3, <4>1
      <4>3. IdMap!Home(m, u) = h => behind[u] # behind[s] /\ behind[t] # behind[s]
        BY <1>22, <3>2, <4>1
      <4>4. behind[u] = behind[t]
        BY <4>1, <4>2, <4>3
      <4> QED  BY <1>1, <4>1, <4>4 DEF IdMap!Chained
    <3> QED  BY <3>1, <3>2
  <2> QED  BY <2>1, <2>2, <2>3, <2>4, <2>5 DEF IdMap!Chained
<1>24. \A t, u \in IdMap!Used(m) : m.slot[t].id = m.slot[u].id => t = u
  BY TableFacts
<1>25. \A t \in IdMap!Used(m) : m.slot[t].id # id
  BY DEF Ids
<1>26. IdMap!WellMade(m1)
  <2>1. \A t \in DOMAIN m1.slot \ IdMap!Used(m1) :
           t <= m1.lastfree /\ m1.slot[t].next = IdMap!NIL /\ ~m1.slot[t].obj
    <3> TAKE t \in DOMAIN m1.slot \ IdMap!Used(m1)
    <3>1. t \in Vacant(m) /\ t # s /\ t # last
      BY <1>2, <1>4, <1>11, <1>17 DEF Vacant
    <3> QED  BY <1>11, <1>12, <3>1, TableFacts
  <2>2. \A t, u \in IdMap!Used(m1) : m1.slot[t].id = m1.slot[u].id => t = u
    BY <1>3, <1>15, <1>16, <1>17, <1>24, <1>25
  <2> QED  BY <1>11, <1>13, <1>23, <2>1, <2>2, TableFacts DEF IdMap!WellMade
<1>27. Ids(m1) = (Ids(m) \ {m.slot[s].id}) \cup {id}
  BY <1>2, <1>3, <1>15, <1>16, <1>17, <1>24 DEF Ids
<1>28. \A t \in DOMAIN m.slot : m.slot[t].obj => t \in IdMap!Used(m)
  BY TableFacts DEF Vacant
<1>29. IdMap!Objects(m1) = (IdMap!Objects(m) \ {m.slot[s].id}) \cup {id}
  BY <1>2, <1>11, <1>15, <1>16, <1>24, <1>28 DEF IdMap!Objects
<1>30. m.slot[s].obj <=> m.slot[s].id \in IdMap!Objects(m)
  BY <1>2, <1>24, <1>28 DEF IdMap!Objects
<1>31. Vacant(m1) = Vacant(m)
  BY <1>11, <1>17 DEF Vacant
<1>32. m.slot[s].id \in Uint32 /\ m.slot[s].id \in Ids(m) /\ m.slot[s].id # id
  BY <1>2, <1>25, TableFacts DEF Ids
<1>33. IdMap!mainposition(m1, m.slot[s].id) = h
  BY <1>11 DEF IdMap!mainposition, IdMap!Home, h
<1>34. h \in IdMap!Used(m1) /\ IdMap!Home(m1, h) = h
  BY <1>2, <1>17, <1>18, <1>21
<1> QED  BY <1>8, <1>11, <1>26, <1>27, <1>29, <1>30, <1>31, <1>32, <1>33, <1>34 DEF s

\* map_insert where there is room.
LEMMA InsertGrows ==
    ASSUME NEW m, IdMap!WellMade(m), NEW id \in Uint32, id \notin Ids(m),
           LET s == IdMap!mainposition(m, id)
           IN  Vacant(m) # {} \/ (s \in IdMap!Used(m) /\ IdMap!Home(m, s) # s /\ ~m.slot[s].obj)
    PROVE  OneMore(m, IdMap!Insert(m, id), id)
<1> DEFINE s == IdMap!mainposition(m, id)
           old == m.slot[s]
           m1 == IdMap!MakeWay(m, s, id)
<1>1. s \in DOMAIN m.slot
  BY TableFacts, Modulo, IdsFit DEF IdMap!mainposition
<1>2. CASE s \notin IdMap!Used(m)
  <2>1. s \in Vacant(m) /\ old.id = IdMap!INVALID
    BY <1>1, <1>2, TableFacts DEF Vacant
  <2> QED  BY <2>1, PlacedGrows DEF IdMap!Insert
<1>3. CASE s \in IdMap!Used(m) /\ IdMap!Home(m, s) = s
  <2>1. old.id # IdMap!INVALID /\ IdMap!mainposition(m, old.id) = s
    BY <1>3 DEF IdMap!Used, IdMap!Home
  <2>2. IdMap!Insert(m, id) = IdMap!Chain(m, id)
    BY <2>1 DEF IdMap!Insert
  <2> QED  BY <1>3, <2>2, ChainGrows
<1>4. CASE s \in IdMap!Used(m) /\ IdMap!Home(m, s) # s
  <2>1. old.id # IdMap!INVALID /\ IdMap!mainposition(m, old.id) # s
    BY <1>4 DEF IdMap!Used, IdMap!Home
  <2>2. /\ IdMap!WellMade(m1) /\ m1.size = m.size
        /\ IdMap!Objects(m1) = (IdMap!Objects(m) \ {old.id}) \cup {id}
        /\ Ids(m1) = (Ids(m) \ {old.id}) \cup {id}
        /\ Vacant(m1) = Vacant(m)
        /\ old.id \in Uint32 /\ old.id # id /\ old.id \in Ids(m)
        /\ old.obj <=> old.id \in IdMap!Objects(m)
        /\ IdMap!mainposition(m1, old.id) \in IdMap!Used(m1)
        /\ IdMap!Home(m1, IdMap!mainposition(m1, old.id)) = IdMap!mainposition(m1, old.id)
    BY <1>4, MakesWay
  <2>3. CASE ~old.obj
    <3>1. IdMap!Insert(m, id) = m1
      BY <2>1, <2>3 DEF IdMap!Insert
    <3> HIDE DEF m1, old
    <3> QED  BY <2>2, <2>3, <3>1 DEF OneMore
  <2>4. CASE old.obj
    <3>1. IdMap!Insert(m, id) = IdMap!Chain(m1, old.id)
      BY <2>1, <2>4 DEF IdMap!Insert
    <3>2. Vacant(m1) # {} /\ old.id \notin Ids(m1)
      BY <1>4, <2>2, <2>4
    <3> HIDE DEF m1, old
    <3>3. OneMore(m1, IdMap!Chain(m1, old.id), old.id)
      BY <2>2, <3>2, ChainGrows
    <3> QED  BY <2>2, <2>4, <3>1, <3>3 DEF OneMore
  <2> QED  BY <2>3, <2>4
<1> QED  BY <1>2, <1>3, <1>4

-----------------------------------------------------------------------------
(* A new table, and the old one's objects in it.                            *)

LEMMA EmptyMade ==
    ASSUME NEW k \in Nat \ {0}
    PROVE  LET m == IdMap!Empty(k)
           IN  /\ IdMap!WellMade(m) /\ m.size = k /\ m \in IdMap!Table(k)
               /\ IdMap!Objects(m) = {} /\ Ids(m) = {} /\ Vacant(m) = 0 .. k - 1
<1> DEFINE m == IdMap!Empty(k)
           e == [id |-> IdMap!INVALID, obj |-> FALSE, next |-> IdMap!NIL]
<1>1. m = [size |-> k, lastfree |-> k - 1, slot |-> [i \in 0 .. k - 1 |-> e]]
  BY DEF IdMap!Empty
<1>2. e \in IdMap!Slots(k) /\ e.id = IdMap!INVALID /\ e.obj = FALSE /\ e.next = IdMap!NIL
  BY DEF IdMap!Slots
<1> HIDE DEF m, e
<1>3. m.size = k /\ m.lastfree = k - 1 /\ m.slot = [i \in 0 .. k - 1 |-> e]
      /\ DOMAIN m.slot = 0 .. k - 1
  BY <1>1
<1>4. m \in IdMap!Table(k)
  BY <1>1, <1>2 DEF IdMap!Table
<1>5. IdMap!Used(m) = {}
  BY <1>2, <1>3 DEF IdMap!Used
<1>6. IdMap!WellMade(m)
  <2>1. [t \in DOMAIN m.slot |-> 0] \in [DOMAIN m.slot -> Nat]
    OBVIOUS
  <2>2. \E behind \in [DOMAIN m.slot -> Nat] : IdMap!Chained(m, behind)
    BY <1>5, <2>1 DEF IdMap!Chained
  <2> QED  BY <1>2, <1>3, <1>4, <1>5, <2>2 DEF IdMap!WellMade
<1>7. IdMap!Objects(m) = {}
  BY <1>2, <1>3 DEF IdMap!Objects
<1> QED  BY <1>3, <1>4, <1>5, <1>6, <1>7 DEF Ids, Vacant, m

\* The ids with an object in the slots below i.
Before(m, i) == {m.slot[s].id : s \in {t \in 0 .. i - 1 : m.slot[t].obj}}

\* What the loop of rehash does with slot i - 1 of m.
Carried(m, t, i) == IF m.slot[i - 1].obj THEN IdMap!Insert(t, m.slot[i - 1].id) ELSE t

\* The new table t after the slots below i of m, and the room that is left in it.
Partial(m, t, i) ==
    /\ IdMap!WellMade(t) /\ t \in IdMap!Table(2 * m.size)
    /\ IdMap!Objects(t) = Before(m, i)
    /\ Ids(t) \subseteq Before(m, i)
    /\ Cardinality(Vacant(t)) >= 2 * m.size - i

LEMMA VacantFinite ==
    ASSUME NEW t, IdMap!WellMade(t)
    PROVE  /\ IsFiniteSet(Vacant(t)) /\ Cardinality(Vacant(t)) \in Nat
           /\ Cardinality(Vacant(t)) > 0 => Vacant(t) # {}
<1>1. t.size - 1 \in Int /\ DOMAIN t.slot = 0 .. t.size - 1
  BY TableFacts
<1>2. IsFiniteSet(DOMAIN t.slot)
  BY <1>1, FS_Interval
<1>3. IsFiniteSet(Vacant(t))
  BY <1>2, FS_Subset DEF Vacant
<1>4. Cardinality(Vacant(t)) \in Nat
  BY <1>3, FS_CardinalityType
<1>5. Cardinality({}) = 0
  BY FS_EmptySet
<1>6. ASSUME Vacant(t) = {} PROVE Cardinality(Vacant(t)) = 0
  BY <1>5, <1>6
<1> QED  BY <1>3, <1>4, <1>6

LEMMA CarriedOn ==
    ASSUME NEW m, IdMap!WellMade(m), NEW i \in 1 .. m.size, NEW t, Partial(m, t, i - 1)
    PROVE  Partial(m, Carried(m, t, i), i)
<1>1. /\ m.size \in Nat \ {0} /\ i - 1 \in DOMAIN m.slot /\ DOMAIN m.slot = 0 .. m.size - 1
      /\ i \in Nat /\ i <= m.size
  BY TableFacts
<1>2. \A s \in DOMAIN m.slot : m.slot[s].obj => s \in IdMap!Used(m)
  BY TableFacts DEF Vacant
<1>3. \A s \in 0 .. i - 1 : s = i - 1 \/ s \in 0 .. (i - 1) - 1
  OBVIOUS
<1>4. 0 .. (i - 1) - 1 \subseteq 0 .. i - 1 /\ i - 1 \in 0 .. i - 1
  BY <1>1
<1>5. CASE ~m.slot[i - 1].obj
  <2>1. {s \in 0 .. i - 1 : m.slot[s].obj} = {s \in 0 .. (i - 1) - 1 : m.slot[s].obj}
    BY <1>3, <1>4, <1>5
  <2>2. Before(m, i) = Before(m, i - 1)
    BY <2>1 DEF Before
  <2>3. Cardinality(Vacant(t)) >= 2 * m.size - i
    <3>1. Cardinality(Vacant(t)) \in Nat
      BY VacantFinite DEF Partial
    <3> QED  BY <1>1, <3>1 DEF Partial
  <2> QED  BY <1>5, <2>2, <2>3 DEF Partial, Carried
<1>6. CASE m.slot[i - 1].obj
  <2> DEFINE id == m.slot[i - 1].id
             t1 == IdMap!Insert(t, id)
  <2>1. id \in Uint32 /\ i - 1 \in IdMap!Used(m)
    BY <1>1, <1>2, <1>6, TableFacts
  <2>2. {s \in 0 .. i - 1 : m.slot[s].obj} = {s \in 0 .. (i - 1) - 1 : m.slot[s].obj} \cup {i - 1}
    BY <1>3, <1>4, <1>6
  <2>3. Before(m, i) = Before(m, i - 1) \cup {id}
    BY <2>2 DEF Before
  <2>4. id \notin Before(m, i - 1)
    <3> SUFFICES ASSUME NEW s \in 0 .. (i - 1) - 1, m.slot[s].obj, m.slot[s].id = id PROVE FALSE
      BY DEF Before
    <3>1. s \in DOMAIN m.slot /\ s # i - 1
      BY <1>1
    <3> QED  BY <1>2, <2>1, <3>1, TableFacts
  <2>5. IdMap!WellMade(t) /\ t \in IdMap!Table(2 * m.size) /\ id \notin Ids(t)
        /\ IdMap!Objects(t) = Before(m, i - 1) /\ Ids(t) \subseteq Before(m, i - 1)
        /\ Cardinality(Vacant(t)) >= 2 * m.size - (i - 1)
    BY <2>4 DEF Partial
  <2>6. Vacant(t) # {}
    <3>1. 2 * m.size - (i - 1) > 0
      BY <1>1
    <3> QED  BY <1>1, <2>5, <3>1, VacantFinite
  <2>7. OneMore(t, t1, id)
    <3> HIDE DEF id
    <3> QED  BY <2>1, <2>5, <2>6, InsertGrows
  <2>8. t1.size = 2 * m.size /\ IdMap!WellMade(t1)
    BY <2>5, <2>7 DEF OneMore, IdMap!Table
  <2> HIDE DEF id, t1
  <2>9. t1 \in IdMap!Table(2 * m.size)
    BY <2>8 DEF IdMap!WellMade
  <2>10. Cardinality(Vacant(t1)) >= 2 * m.size - i
    <3>1. PICK x : Vacant(t) \subseteq Vacant(t1) \cup {x}
      BY <2>7 DEF OneMore
    <3>2. IsFiniteSet(Vacant(t1))
      BY <2>8, VacantFinite
    <3>3. IsFiniteSet(Vacant(t1) \cup {x})
          /\ Cardinality(Vacant(t1) \cup {x}) <= Cardinality(Vacant(t1)) + 1
      <4>1. Cardinality(Vacant(t1)) \in Nat
        BY <2>8, VacantFinite
      <4>2. /\ IsFiniteSet(Vacant(t1) \cup {x})
            /\ Cardinality(Vacant(t1) \cup {x}) =
                  IF x \in Vacant(t1) THEN Cardinality(Vacant(t1)) ELSE Cardinality(Vacant(t1)) + 1
        BY <3>2, FS_AddElement
      <4> QED  BY <4>1, <4>2
    <3>4. Cardinality(Vacant(t)) <= Cardinality(Vacant(t1) \cup {x}) /\ IsFiniteSet(Vacant(t))
      BY <3>1, <3>3, FS_Subset
    <3>5. /\ Cardinality(Vacant(t)) \in Nat /\ Cardinality(Vacant(t1)) \in Nat
          /\ Cardinality(Vacant(t1) \cup {x}) \in Nat
      BY <3>2, <3>3, <3>4, FS_CardinalityType
    <3> QED  BY <1>1, <2>5, <3>3, <3>4, <3>5
  <2>11. Carried(m, t, i) = t1
    BY <1>6 DEF Carried, t1, id
  <2> QED  BY <2>3, <2>5, <2>7, <2>8, <2>9, <2>10, <2>11 DEF Partial, OneMore
<1> QED  BY <1>5, <1>6

LEMMA Started ==
    ASSUME NEW m, IdMap!WellMade(m)
    PROVE  Partial(m, IdMap!Empty(2 * m.size), 0)
<1> DEFINE k == 2 * m.size
           t == IdMap!Empty(k)
<1>1. k \in Nat \ {0}
  BY TableFacts
<1>2. IdMap!WellMade(t) /\ t \in IdMap!Table(k) /\ IdMap!Objects(t) = {} /\ Ids(t) = {}
      /\ Vacant(t) = 0 .. k - 1
  <2> HIDE DEF k
  <2> QED  BY <1>1, EmptyMade
<1>3. Cardinality(Vacant(t)) >= k - 0
  <2> HIDE DEF k, t
  <2>1. Cardinality(0 .. k - 1) = (k - 1) - 0 + 1
    BY <1>1, FS_Interval
  <2> QED  BY <1>1, <1>2, <2>1
<1>4. Before(m, 0) = {}
  BY DEF Before
<1> HIDE DEF t
<1> QED  BY <1>2, <1>3, <1>4 DEF Partial, t

\* A loop that carries slot after slot.
LEMMA CarriedAll ==
    ASSUME NEW m, IdMap!WellMade(m), NEW f,
           f[0] = IdMap!Empty(2 * m.size),
           \A i \in 1 .. m.size : f[i] = Carried(m, f[i - 1], i)
    PROVE  \A i \in 0 .. m.size : Partial(m, f[i], i)
<1> DEFINE T == {i \in 0 .. m.size : Partial(m, f[i], i)}
<1>1. m.size \in Nat
  BY TableFacts
<1>2. 0 \in T
  BY <1>1, Started
<1>3. \A i \in 1 .. m.size : i - 1 \in T => i \in T
  <2> TAKE i \in 1 .. m.size
  <2> HAVE i - 1 \in T
  <2>1. Partial(m, f[i - 1], i - 1) /\ i \in 0 .. m.size
    OBVIOUS
  <2> QED  BY <2>1, CarriedOn
<1>4. 0 .. m.size \subseteq T
  <2> HIDE DEF T
  <2> QED  BY <1>1, <1>2, <1>3, BoundedInd
<1> QED  BY <1>4

LEMMA LoopExists ==
    ASSUME NEW m, IdMap!WellMade(m)
    PROVE  \E f : /\ DOMAIN f = 0 .. m.size /\ f = [i \in DOMAIN f |-> f[i]]
                  /\ f[0] = IdMap!Empty(2 * m.size)
                  /\ \A i \in 1 .. m.size : f[i] = Carried(m, f[i - 1], i)
<1> DEFINE S == {t \in IdMap!Table(2 * m.size) : IdMap!WellMade(t)}
           safe(t, i) == IF Carried(m, t, i) \in S THEN Carried(m, t, i) ELSE t
           step == [z \in (1 .. m.size) \X S |-> safe(z[2], z[1])]
           base == IdMap!Empty(2 * m.size)
<1>1. m.size \in Nat
  BY TableFacts
<1>2. base \in S
  BY Started DEF Partial
<1>3. step \in [(1 .. m.size) \X S -> S]
  <2>1. \A z \in (1 .. m.size) \X S : safe(z[2], z[1]) \in S
    <3> HIDE DEF S
    <3> QED  OBVIOUS
  <2> HIDE DEF S, safe
  <2> QED  BY <2>1
<1>4. PICK f : Iterates(f, m.size, S, base, step)
  <2> HIDE DEF S, step, base
  <2> QED  BY <1>1, <1>2, <1>3, Iteration
<1>5. f \in [0 .. m.size -> S] /\ f[0] = base /\ \A i \in 1 .. m.size : f[i] = step[<<i, f[i - 1]>>]
  <2> HIDE DEF S, step, base
  <2> QED  BY <1>4 DEF Iterates
<1>6. \A i \in 1 .. m.size : f[i] = safe(f[i - 1], i)
  <2> TAKE i \in 1 .. m.size
  <2>1. i - 1 \in 0 .. m.size
    BY <1>1
  <2> HIDE DEF S, safe
  <2>2. f[i - 1] \in S
    BY <1>5, <2>1
  <2>3. <<i, f[i - 1]>> \in (1 .. m.size) \X S
    BY <2>2
  <2>4. step[<<i, f[i - 1]>>] = safe(f[i - 1], i)
    BY <2>3
  <2> QED  BY <1>5, <2>4
<1>7. \A i \in 0 .. m.size : Partial(m, f[i], i)
  <2> DEFINE T == {i \in 0 .. m.size : Partial(m, f[i], i)}
  <2>1. 0 \in T
    BY <1>1, <1>5, Started
  <2>2. \A i \in 1 .. m.size : i - 1 \in T => i \in T
    <3> TAKE i \in 1 .. m.size
    <3> HAVE i - 1 \in T
    <3>1. Partial(m, Carried(m, f[i - 1], i), i) /\ i \in 0 .. m.size
      BY CarriedOn
    <3>2. Carried(m, f[i - 1], i) \in S
      BY <3>1 DEF Partial
    <3>3. f[i] = Carried(m, f[i - 1], i)
      BY <1>6, <3>2
    <3> QED  BY <3>1, <3>3
  <2>3. 0 .. m.size \subseteq T
    <3> HIDE DEF T
    <3> QED  BY <1>1, <2>1, <2>2, BoundedInd
  <2> QED  BY <2>3
<1>8. \A i \in 1 .. m.size : f[i] = Carried(m, f[i - 1], i)
  <2> TAKE i \in 1 .. m.size
  <2>1. i - 1 \in 0 .. m.size
    BY <1>1
  <2>2. Partial(m, Carried(m, f[i - 1], i), i)
    BY <1>7, <2>1, CarriedOn
  <2>3. Carried(m, f[i - 1], i) \in S
    BY <2>2 DEF Partial
  <2> QED  BY <1>6, <2>3
<1> HIDE DEF S
<1> QED  BY <1>5, <1>8

\* rehash: the ids with an object, and they only, in a table with room.
LEMMA Rehashed ==
    ASSUME NEW m, IdMap!WellMade(m)
    PROVE  LET t == IdMap!rehash(m)
           IN  /\ IdMap!WellMade(t) /\ IdMap!Objects(t) = IdMap!Objects(m)
               /\ Ids(t) \subseteq IdMap!Objects(m) /\ Vacant(t) # {}
<1> DEFINE Is(f) == f = [i \in 0 .. m.size |->
                            IF i = 0 THEN IdMap!Empty(2 * m.size)
                            ELSE IF m.slot[i - 1].obj
                                 THEN IdMap!Insert(f[i - 1], m.slot[i - 1].id)
                                 ELSE f[i - 1]]
           upto == CHOOSE f : Is(f)
<1>1. m.size \in Nat \ {0} /\ DOMAIN m.slot = 0 .. m.size - 1
  BY TableFacts
<1>2. \E f : Is(f)
  <2>1. PICK f : /\ DOMAIN f = 0 .. m.size /\ f = [i \in DOMAIN f |-> f[i]]
                 /\ f[0] = IdMap!Empty(2 * m.size)
                 /\ \A i \in 1 .. m.size : f[i] = Carried(m, f[i - 1], i)
    BY LoopExists
  <2>2. \A i \in 0 .. m.size : f[i] = IF i = 0 THEN IdMap!Empty(2 * m.size)
                                      ELSE IF m.slot[i - 1].obj
                                           THEN IdMap!Insert(f[i - 1], m.slot[i - 1].id)
                                           ELSE f[i - 1]
    <3> TAKE i \in 0 .. m.size
    <3>1. i = 0 \/ i \in 1 .. m.size
      BY <1>1
    <3> QED  BY <2>1, <3>1 DEF Carried
  <2>3. Is(f)
    BY <2>1, <2>2
  <2> QED  BY <2>3
<1>3. Is(upto)
  <2> HIDE DEF Is
  <2> QED  BY <1>2
<1>4. IdMap!rehash(m) = upto[m.size]
  BY DEF IdMap!rehash
<1> HIDE DEF upto
<1>5. \A i \in 0 .. m.size : upto[i] = IF i = 0 THEN IdMap!Empty(2 * m.size)
                                      ELSE IF m.slot[i - 1].obj
                                           THEN IdMap!Insert(upto[i - 1], m.slot[i - 1].id)
                                           ELSE upto[i - 1]
  BY <1>3
<1>6. upto[0] = IdMap!Empty(2 * m.size)
  BY <1>1, <1>5
<1>7. \A i \in 1 .. m.size : upto[i] = Carried(m, upto[i - 1], i)
  BY <1>1, <1>5 DEF Carried
<1>8. Partial(m, upto[m.size], m.size)
  BY <1>1, <1>6, <1>7, CarriedAll
<1>9. Before(m, m.size) = IdMap!Objects(m)
  BY <1>1 DEF Before, IdMap!Objects
<1>10. Vacant(upto[m.size]) # {}
  <2>1. Cardinality(Vacant(upto[m.size])) >= 2 * m.size - m.size
    BY <1>8 DEF Partial
  <2>2. 2 * m.size - m.size > 0
    BY <1>1
  <2> QED  BY <1>1, <1>8, <2>1, <2>2, VacantFinite DEF Partial
<1> QED  BY <1>4, <1>8, <1>9, <1>10 DEF Partial

-----------------------------------------------------------------------------
(* The steps.                                                               *)

LEMMA ObjectsHaveIds ==
    ASSUME NEW m, IdMap!WellMade(m)
    PROVE  IdMap!Objects(m) \subseteq Ids(m)
<1>1. \A s \in DOMAIN m.slot : m.slot[s].obj => s \in IdMap!Used(m)
  BY TableFacts DEF Vacant
<1> QED  BY <1>1 DEF IdMap!Objects, Ids

\* map_insert: the table has one more object, and all it had.
LEMMA Inserted ==
    ASSUME NEW m, IdMap!WellMade(m), NEW id \in Uint32, id \notin Ids(m)
    PROVE  /\ IdMap!WellMade(IdMap!map_insert(m, id))
           /\ IdMap!Objects(IdMap!map_insert(m, id)) = IdMap!Objects(m) \cup {id}
<1> DEFINE s == IdMap!mainposition(m, id)
           old == m.slot[s]
           away == IdMap!mainposition(m, old.id) # s
<1>1. s \in DOMAIN m.slot
  BY TableFacts, Modulo, IdsFit DEF IdMap!mainposition
<1>2. s \notin IdMap!Used(m) <=> old.id = IdMap!INVALID
  BY <1>1 DEF IdMap!Used
<1>3. IdMap!FreeSlot(m) # IdMap!NIL <=> Vacant(m) # {}
  BY Vacancy, TableFacts
<1>4. old.id = IdMap!INVALID => Vacant(m) # {}
  BY <1>1, <1>2 DEF Vacant
<1>5. IdMap!map_insert(m, id) =
         IF IdMap!FreeSlot(m) # IdMap!NIL \/ old.id = IdMap!INVALID \/ (away /\ ~old.obj)
         THEN IdMap!Insert(m, id)
         ELSE IF away THEN IdMap!Insert(IdMap!rehash(IdMap!MakeWay(m, s, id)), old.id)
         ELSE IdMap!Insert(IdMap!rehash(m), id)
  BY DEF IdMap!map_insert
<1>6. away = (IdMap!Home(m, s) # s)
  BY DEF IdMap!Home
<1>7. CASE Vacant(m) # {} \/ (away /\ ~old.obj)
  <2>1. Vacant(m) # {} \/ (s \in IdMap!Used(m) /\ IdMap!Home(m, s) # s /\ ~old.obj)
    BY <1>2, <1>4, <1>6, <1>7
  <2>2. OneMore(m, IdMap!Insert(m, id), id)
    BY <2>1, InsertGrows
  <2>3. IdMap!map_insert(m, id) = IdMap!Insert(m, id)
    BY <1>3, <1>5, <1>7
  <2> QED  BY <2>2, <2>3 DEF OneMore
<1>8. CASE Vacant(m) = {} /\ away /\ old.obj
  <2> DEFINE m1 == IdMap!MakeWay(m, s, id)
             t == IdMap!rehash(m1)
  <2>1. s \in IdMap!Used(m) /\ IdMap!Home(m, s) # s
    BY <1>2, <1>4, <1>6, <1>8
  <2>2. /\ IdMap!WellMade(m1)
        /\ IdMap!Objects(m1) = (IdMap!Objects(m) \ {old.id}) \cup {id}
        /\ old.id \in Uint32 /\ old.id # id
        /\ old.obj <=> old.id \in IdMap!Objects(m)
    BY <2>1, MakesWay
  <2>3. IdMap!map_insert(m, id) = IdMap!Insert(t, old.id)
    BY <1>3, <1>4, <1>5, <1>8
  <2> HIDE DEF m1, old
  <2>4. IdMap!WellMade(t) /\ IdMap!Objects(t) = IdMap!Objects(m1)
        /\ Ids(t) \subseteq IdMap!Objects(m1) /\ Vacant(t) # {}
    BY <2>2, Rehashed
  <2>5. old.id \notin Ids(t)
    BY <2>2, <2>4
  <2> HIDE DEF t
  <2>6. OneMore(t, IdMap!Insert(t, old.id), old.id)
    BY <2>2, <2>4, <2>5, InsertGrows
  <2> QED  BY <1>8, <2>2, <2>3, <2>4, <2>6 DEF OneMore
<1>9. CASE Vacant(m) = {} /\ ~away
  <2> DEFINE t == IdMap!rehash(m)
  <2>1. IdMap!map_insert(m, id) = IdMap!Insert(t, id)
    BY <1>3, <1>4, <1>5, <1>9
  <2>2. IdMap!WellMade(t) /\ IdMap!Objects(t) = IdMap!Objects(m)
        /\ Ids(t) \subseteq IdMap!Objects(m) /\ Vacant(t) # {}
    BY Rehashed
  <2>3. id \notin Ids(t)
    BY <2>2, ObjectsHaveIds
  <2> HIDE DEF t
  <2>4. OneMore(t, IdMap!Insert(t, id), id)
    BY <2>2, <2>3, InsertGrows
  <2> QED  BY <2>1, <2>2, <2>4 DEF OneMore
<1>10. old.obj \in BOOLEAN
  BY <1>1, TableFacts
<1> QED  BY <1>7, <1>8, <1>9, <1>10

\* An object comes to a slot that is on its chain, or goes.
LEMMA ObjectSet ==
    ASSUME NEW m, IdMap!WellMade(m), NEW s \in IdMap!Used(m), NEW v \in BOOLEAN
    PROVE  LET m1 == [m EXCEPT !.slot[s].obj = v]
           IN  /\ IdMap!WellMade(m1)
               /\ v => IdMap!Objects(m1) = IdMap!Objects(m) \cup {m.slot[s].id}
               /\ ~v => IdMap!Objects(m1) = IdMap!Objects(m) \ {m.slot[s].id}
<1> DEFINE r == [m.slot[s] EXCEPT !.obj = v]
           f == [m.slot EXCEPT ![s] = r]
           m1 == [m EXCEPT !.slot[s].obj = v]
<1>1. /\ m \in IdMap!Table(m.size) /\ DOMAIN m.slot = 0 .. m.size - 1 /\ s \in DOMAIN m.slot
      /\ m.slot \in [DOMAIN m.slot -> IdMap!Slots(m.size)]
      /\ m.slot[s] \in IdMap!Slots(m.size)
  BY TableFacts DEF IdMap!WellMade
<1>2. r \in IdMap!Slots(m.size) /\ r.id = m.slot[s].id /\ r.next = m.slot[s].next /\ r.obj = v
  BY <1>1 DEF IdMap!Slots
<1>3. m1 = [m EXCEPT !.slot = f]
  BY <1>1 DEF IdMap!Table
<1>4. f \in [DOMAIN m.slot -> IdMap!Slots(m.size)] /\ f[s] = r
      /\ \A t \in DOMAIN m.slot : t # s => f[t] = m.slot[t]
  <2> HIDE DEF r
  <2> QED  BY <1>1, <1>2
<1> HIDE DEF m1, f, r
<1>5. m1.size = m.size /\ m1.lastfree = m.lastfree /\ m1.slot = f
  BY <1>1, <1>3 DEF IdMap!Table
<1>6. DOMAIN m1.slot = DOMAIN m.slot
  BY <1>4, <1>5
<1>7. m1 \in IdMap!Table(m.size)
  BY <1>1, <1>3, <1>4, <1>5 DEF IdMap!Table
<1>8. \A t \in DOMAIN m.slot : /\ m1.slot[t].id = m.slot[t].id
                               /\ m1.slot[t].next = m.slot[t].next
                               /\ t # s => m1.slot[t].obj = m.slot[t].obj
  BY <1>2, <1>4, <1>5
<1>9. m1.slot[s].obj = v
  BY <1>2, <1>4, <1>5
<1>10. IdMap!Used(m1) = IdMap!Used(m)
  BY <1>6, <1>8 DEF IdMap!Used
<1>11. \A t \in DOMAIN m.slot : IdMap!Home(m1, t) = IdMap!Home(m, t)
  BY <1>5, <1>8 DEF IdMap!Home, IdMap!mainposition
<1>12. \A t \in IdMap!Used(m) : t \in DOMAIN m.slot
  BY TableFacts
<1>13. \E behind \in [DOMAIN m1.slot -> Nat] : IdMap!Chained(m1, behind)
  <2>1. PICK behind \in [DOMAIN m.slot -> Nat] : IdMap!Chained(m, behind)
    BY DEF IdMap!WellMade
  <2>2. ASSUME NEW t \in IdMap!Used(m)
        PROVE  LET next == m1.slot[t].next
                   head == IdMap!Home(m1, t)
               IN  /\ head \in IdMap!Used(m1) /\ IdMap!Home(m1, head) = head
                   /\ behind[t] <= behind[head]
                   /\ next = IdMap!NIL => behind[t] = 0
                   /\ next # IdMap!NIL => /\ next \in IdMap!Used(m1)
                                          /\ IdMap!Home(m1, next) = head
                                          /\ behind[t] = behind[next] + 1
                   /\ t # head => \E p \in IdMap!Used(m1) : m1.slot[p].next = t
                   /\ \A u \in IdMap!Used(m1) :
                         IdMap!Home(m1, u) = head /\ behind[u] = behind[t] => u = t
    BY <1>8, <1>10, <1>11, <1>12, <2>1 DEF IdMap!Chained
  <2>3. IdMap!Chained(m1, behind)
    BY <1>10, <2>2 DEF IdMap!Chained
  <2> QED  BY <1>6, <2>1, <2>3
<1>14. IdMap!WellMade(m1)
  <2>1. \A t \in DOMAIN m1.slot \ IdMap!Used(m1) :
           t <= m1.lastfree /\ m1.slot[t].next = IdMap!NIL /\ ~m1.slot[t].obj
    <3> TAKE t \in DOMAIN m1.slot \ IdMap!Used(m1)
    <3>1. t \in Vacant(m) /\ t # s /\ t \in DOMAIN m.slot
      BY <1>6, <1>10 DEF Vacant
    <3> QED  BY <1>5, <1>8, <3>1, TableFacts
  <2>2. \A t, u \in IdMap!Used(m1) : m1.slot[t].id = m1.slot[u].id => t = u
    BY <1>8, <1>10, <1>12, TableFacts
  <2> QED  BY <1>5, <1>7, <1>13, <2>1, <2>2, TableFacts DEF IdMap!WellMade
<1>15. \A t \in DOMAIN m.slot : m.slot[t].obj => t \in IdMap!Used(m)
  BY TableFacts DEF Vacant
<1>16. \A t, u \in IdMap!Used(m) : m.slot[t].id = m.slot[u].id => t = u
  BY TableFacts
<1>17. v => IdMap!Objects(m1) = IdMap!Objects(m) \cup {m.slot[s].id}
  BY <1>1, <1>6, <1>8, <1>9 DEF IdMap!Objects
<1>18. ~v => IdMap!Objects(m1) = IdMap!Objects(m) \ {m.slot[s].id}
  BY <1>1, <1>6, <1>8, <1>9, <1>15, <1>16 DEF IdMap!Objects
<1> QED  BY <1>14, <1>17, <1>18 DEF m1

LEMMA MapInit == IdMap!Init => IdMap!IInv
  BY EmptyMade, IdsFit DEF IdMap!Init, IdMap!IInv

LEMMA MapStep == IdMap!IInv /\ [IdMap!Next]_(IdMap!vars) => IdMap!IInv'
<1> SUFFICES ASSUME IdMap!IInv, [IdMap!Next]_(IdMap!vars) PROVE IdMap!IInv'
  OBVIOUS
<1>1. IdMap!WellMade(map) /\ live = IdMap!Objects(map)
  BY DEF IdMap!IInv
<1>2. ASSUME NEW id \in Uint32, IdMap!map_query(id) PROVE IdMap!IInv'
  <2>1. CASE id \notin Ids(map)
    <3>1. IdMap!Find(map, id) = IdMap!NIL
      BY <1>1, <2>1, Found
    <3>2. map' = IdMap!map_insert(map, id) /\ live' = live \cup {id}
      BY <1>2, <3>1 DEF IdMap!map_query
    <3>3. IdMap!WellMade(map') /\ IdMap!Objects(map') = IdMap!Objects(map) \cup {id}
      BY <1>1, <2>1, <3>2, Inserted
    <3> QED  BY <1>1, <3>2, <3>3 DEF IdMap!IInv
  <2>2. CASE id \in Ids(map)
    <3>1. PICK s \in IdMap!Used(map) : map.slot[s].id = id
      BY <2>2 DEF Ids
    <3>2. IdMap!Find(map, id) = s /\ s # IdMap!NIL
      BY <1>1, <3>1, Found, TableFacts
    <3>3. map' = [map EXCEPT !.slot[s].obj = TRUE] /\ live' = live \cup {id}
      BY <1>2, <3>2 DEF IdMap!map_query
    <3>4. IdMap!WellMade(map') /\ IdMap!Objects(map') = IdMap!Objects(map) \cup {id}
      BY <1>1, <3>1, <3>3, ObjectSet
    <3> QED  BY <1>1, <3>3, <3>4 DEF IdMap!IInv
  <2> QED  BY <2>1, <2>2
<1>3. ASSUME NEW id \in Uint32, IdMap!map_drop(id) PROVE IdMap!IInv'
  <2>1. id \in Ids(map)
    BY <1>1, <1>3, ObjectsHaveIds DEF IdMap!map_drop
  <2>2. PICK s \in IdMap!Used(map) : map.slot[s].id = id
    BY <2>1 DEF Ids
  <2>3. IdMap!Find(map, id) = s /\ s # IdMap!NIL
    BY <1>1, <2>2, Found, TableFacts
  <2>4. map' = [map EXCEPT !.slot[s].obj = FALSE] /\ live' = live \ {id}
    BY <1>3, <2>3 DEF IdMap!map_drop
  <2>5. IdMap!WellMade(map') /\ IdMap!Objects(map') = IdMap!Objects(map) \ {id}
    BY <1>1, <2>2, <2>4, ObjectSet
  <2> QED  BY <1>1, <2>4, <2>5 DEF IdMap!IInv
<1>4. CASE UNCHANGED IdMap!vars
  BY <1>1, <1>4 DEF IdMap!vars, IdMap!IInv
<1> QED  BY <1>2, <1>3, <1>4 DEF IdMap!Next

\* A table that is well made finds its ids.
LEMMA MadeFinds == IdMap!IInv => MapFinds
<1> SUFFICES ASSUME IdMap!WellMade(map), live = IdMap!Objects(map) PROVE MapFinds
  BY DEF IdMap!IInv
<1>1. \A s \in DOMAIN map.slot : map.slot[s].obj => s \in IdMap!Used(map)
  BY TableFacts DEF Vacant
<1>2. \A id \in Uint32 :
         id \in live <=> \E s \in IdMap!Used(map) : map.slot[s].id = id /\ map.slot[s].obj
  BY <1>1 DEF IdMap!Objects, IdMap!Used
<1>3. \A s \in IdMap!Used(map) : IdMap!Find(map, map.slot[s].id) = s
  BY Found, TableFacts
<1>4. PICK behind \in [DOMAIN map.slot -> Nat] : IdMap!Chained(map, behind)
  BY DEF IdMap!WellMade
<1>5. \A s \in IdMap!Used(map) : map.slot[s].next # IdMap!NIL =>
         /\ map.slot[s].next \in IdMap!Used(map)
         /\ IdMap!Home(map, map.slot[s].next) = IdMap!Home(map, s)
  BY <1>4 DEF IdMap!Chained
<1> QED  BY <1>2, <1>3, <1>5 DEF MapFinds, IdMap!MapFinds, IdMap!Used, IdMap!Home

(* Every object is found under its id, for any ids and any sequence of them  *)
(* coming and going: aoi.c's table loses none when an id makes way for       *)
(* another, a chain grows or the table doubles (map_insert, rehash).         *)
THEOREM NothingLost == IdMap!Spec => []MapFinds
<1> QED  BY MapInit, MapStep, MadeFinds, PTL DEF IdMap!Spec

-----------------------------------------------------------------------------
(* Crab: a table is a hash table of aoi.c with an object under every id    *)

-----------------------------------------------------------------------------
(* A table of lua-crab.c is one of aoi.c in which every id has an object.   *)

AsMap(t) ==
    [size |-> t.capacity, lastfree |-> t.lastfree,
     slot |-> [i \in DOMAIN t.node |->
                  [id |-> IF Words!IsNil(t, i) THEN IdMap!INVALID ELSE t.node[i].key,
                   obj |-> ~Words!IsNil(t, i),
                   next |-> t.node[i].next]]]

Flags == {"empty", "inner", "end"}
Nodes(c) == [key : Uint32, next : 0 .. c - 1 \cup {-1}, flag : Flags, value : Nat]
Tables(c) == [capacity : {c}, lastfree : Int, node : [0 .. c - 1 -> Nodes(c)]]

SoundTable(t) == t \in Tables(t.capacity) /\ IdMap!WellMade(AsMap(t))

TakenNodes(t) == {i \in DOMAIN t.node : ~Words!IsNil(t, i)}
Keys(t) == {t.node[i].key : i \in TakenNodes(t)}

\* What the nodes of a table say.
Says(t, i) == <<t.node[i].key, t.node[i].flag, t.node[i].value>>
Holds(t) == {Says(t, i) : i \in TakenNodes(t)}

LEMMA NodeMade ==
    ASSUME NEW key, NEW next, NEW flag, NEW value
    PROVE  LET node == Words!Node(key, next, flag, value)
           IN  /\ node.key = key /\ node.next = next /\ node.flag = flag /\ node.value = value
               /\ \A c \in Nat : (node \in Nodes(c) <=>
                     key \in Uint32 /\ next \in 0 .. c - 1 \cup {-1} /\ flag \in Flags /\ value \in Nat)
<1> DEFINE node == Words!Node(key, next, flag, value)
<1>1. node = [key |-> key, next |-> next, flag |-> flag, value |-> value]
  BY DEF Words!Node
<1> QED  BY <1>1 DEF Nodes

\* What a type gives of the nodes one by one.
LEMMA TypedFacts ==
    ASSUME NEW t, NEW c \in Nat, t \in Tables(c)
    PROVE  /\ t.capacity = c /\ t.lastfree \in Int
           /\ t.node \in [0 .. c - 1 -> Nodes(c)] /\ DOMAIN t.node = 0 .. c - 1
           /\ \A i \in 0 .. c - 1 :
                 /\ t.node[i] \in Nodes(c)
                 /\ t.node[i].key \in Uint32 /\ t.node[i].next \in 0 .. c - 1 \cup {-1}
                 /\ t.node[i].flag \in Flags /\ t.node[i].value \in Nat
<1>1. /\ t.capacity = c /\ t.lastfree \in Int
      /\ t.node \in [0 .. c - 1 -> Nodes(c)] /\ DOMAIN t.node = 0 .. c - 1
  BY DEF Tables
<1>2. \A i \in 0 .. c - 1 : t.node[i] \in Nodes(c)
  BY <1>1
<1>3. \A x \in Nodes(c) : x.key \in Uint32 /\ x.next \in 0 .. c - 1 \cup {-1}
                          /\ x.flag \in Flags /\ x.value \in Nat
  BY DEF Nodes
<1> QED  BY <1>1, <1>2, <1>3

\* The image of a table, field by field.
LEMMA ImageFacts ==
    ASSUME NEW t
    PROVE  /\ AsMap(t).size = t.capacity /\ AsMap(t).lastfree = t.lastfree
           /\ DOMAIN AsMap(t).slot = DOMAIN t.node
           /\ \A i \in DOMAIN t.node :
                 /\ AsMap(t).slot[i] =
                       [id |-> IF Words!IsNil(t, i) THEN IdMap!INVALID ELSE t.node[i].key,
                        obj |-> ~Words!IsNil(t, i), next |-> t.node[i].next]
                 /\ AsMap(t).slot[i].id =
                       IF Words!IsNil(t, i) THEN IdMap!INVALID ELSE t.node[i].key
                 /\ AsMap(t).slot[i].obj = ~Words!IsNil(t, i)
                 /\ AsMap(t).slot[i].next = t.node[i].next
  BY DEF AsMap

LEMMA SoundFacts ==
    ASSUME NEW t, SoundTable(t)
    PROVE  /\ IdMap!WellMade(AsMap(t)) /\ t \in Tables(t.capacity)
           /\ t.capacity \in Nat \ {0} /\ t.lastfree \in Int /\ t.lastfree < t.capacity
           /\ DOMAIN t.node = 0 .. t.capacity - 1
           /\ \A i \in DOMAIN t.node :
                 /\ i \in Nat /\ t.node[i] \in Nodes(t.capacity)
                 /\ t.node[i].key \in Uint32 /\ t.node[i].key \in Nat
                 /\ t.node[i].next \in DOMAIN t.node \cup {-1}
                 /\ t.node[i].flag \in Flags /\ t.node[i].value \in Nat
           /\ IdMap!Used(AsMap(t)) = TakenNodes(t) /\ Ids(AsMap(t)) = Keys(t)
           /\ IdMap!Objects(AsMap(t)) = Keys(t)
           /\ Vacant(AsMap(t)) = DOMAIN t.node \ TakenNodes(t)
           /\ \A i, j \in TakenNodes(t) : t.node[i].key = t.node[j].key => i = j
           /\ \A key \in Uint32 : /\ Words!mainposition(t, key) = IdMap!mainposition(AsMap(t), key)
                                  /\ Words!mainposition(t, key) \in DOMAIN t.node
           /\ Words!getfreenode(t) = IdMap!FreeSlot(AsMap(t))
<1> DEFINE m == AsMap(t)
           c == t.capacity
<1>1. IdMap!WellMade(m) /\ t \in Tables(c)
  BY DEF SoundTable
<1>2. m.size = c /\ m.lastfree = t.lastfree /\ DOMAIN m.slot = DOMAIN t.node
      /\ \A i \in DOMAIN t.node :
            /\ m.slot[i].id = (IF Words!IsNil(t, i) THEN IdMap!INVALID ELSE t.node[i].key)
            /\ m.slot[i].obj = ~Words!IsNil(t, i)
            /\ m.slot[i].next = t.node[i].next
  BY ImageFacts
<1> HIDE DEF m
<1>3. c \in Nat \ {0} /\ t.lastfree \in Int /\ t.lastfree < c
      /\ DOMAIN t.node = 0 .. c - 1
  BY <1>1, <1>2, TableFacts
<1>4. \A i \in DOMAIN t.node :
         /\ i \in Nat /\ t.node[i] \in Nodes(c)
         /\ t.node[i].key \in Uint32 /\ t.node[i].key \in Nat
         /\ t.node[i].next \in DOMAIN t.node \cup {-1}
         /\ t.node[i].flag \in Flags /\ t.node[i].value \in Nat
  <2> HIDE DEF c
  <2>1. \A i \in 0 .. c - 1 :
           /\ t.node[i] \in Nodes(c)
           /\ t.node[i].key \in Uint32 /\ t.node[i].next \in 0 .. c - 1 \cup {-1}
           /\ t.node[i].flag \in Flags /\ t.node[i].value \in Nat
    BY <1>1, <1>3, TypedFacts
  <2> TAKE i \in DOMAIN t.node
  <2>2. i \in 0 .. c - 1
    BY <1>3
  <2>3. /\ t.node[i] \in Nodes(c)
        /\ t.node[i].key \in Uint32 /\ t.node[i].next \in 0 .. c - 1 \cup {-1}
        /\ t.node[i].flag \in Flags /\ t.node[i].value \in Nat
    BY <2>1, <2>2
  <2>4. i \in Nat
    BY <1>3, <2>2
  <2>6. t.node[i].key \in Nat
    BY <2>3, IdsFit
  <2>5. t.node[i].next \in DOMAIN t.node \cup {-1}
    BY <1>3, <2>3
  <2> QED  BY <2>3, <2>4, <2>5, <2>6
<1>5. IdMap!Used(m) = TakenNodes(t)
  BY <1>2, <1>4, IdsFit DEF IdMap!Used, TakenNodes, IdMap!INVALID
<1>6. \A i \in TakenNodes(t) : m.slot[i].id = t.node[i].key /\ i \in DOMAIN t.node
  BY <1>2 DEF TakenNodes
<1>7. Ids(m) = Keys(t)
  BY <1>5, <1>6 DEF Ids, Keys
<1>8. IdMap!Objects(m) = Keys(t)
  <2>1. {i \in DOMAIN m.slot : m.slot[i].obj} = TakenNodes(t)
    BY <1>2 DEF TakenNodes
  <2> QED  BY <1>6, <2>1 DEF IdMap!Objects, Keys
<1>9. Vacant(m) = DOMAIN t.node \ TakenNodes(t)
  BY <1>2, <1>5 DEF Vacant
<1>10. \A i, j \in TakenNodes(t) : t.node[i].key = t.node[j].key => i = j
  <2>1. \A i, j \in IdMap!Used(m) : m.slot[i].id = m.slot[j].id => i = j
    BY <1>1, TableFacts
  <2> QED  BY <1>5, <1>6, <2>1
<1>11. \A key \in Uint32 : /\ Words!mainposition(t, key) = IdMap!mainposition(m, key)
                           /\ Words!mainposition(t, key) \in DOMAIN t.node
  BY <1>2, <1>3, Modulo, IdsFit DEF Words!mainposition, IdMap!mainposition
<1>12. Words!getfreenode(t) = IdMap!FreeSlot(m)
  <2>1. \A i \in 0 .. t.lastfree : Words!IsNil(t, i) <=> m.slot[i].id = IdMap!INVALID
    <3> TAKE i \in 0 .. t.lastfree
    <3>1. i \in DOMAIN t.node
      BY <1>3
    <3>2. t.node[i].key # IdMap!INVALID
      BY <1>4, <3>1 DEF IdMap!INVALID
    <3> QED  BY <1>2, <3>1, <3>2
  <2> DEFINE F == {i \in 0 .. t.lastfree : Words!IsNil(t, i)}
             G == {i \in 0 .. m.lastfree : m.slot[i].id = IdMap!INVALID}
  <2>2. F = G
    BY <1>2, <2>1
  <2>3. Words!getfreenode(t) = IF F = {} THEN -1 ELSE CHOOSE i \in F : \A j \in F : j <= i
    BY DEF Words!getfreenode
  <2>4. IdMap!FreeSlot(m) = IF G = {} THEN -1 ELSE CHOOSE i \in G : \A j \in G : j <= i
    BY DEF IdMap!FreeSlot, IdMap!NIL
  <2> HIDE DEF F, G
  <2> QED  BY <2>2, <2>3, <2>4
<1>13. /\ IdMap!WellMade(AsMap(t)) /\ IdMap!Used(AsMap(t)) = TakenNodes(t)
       /\ Ids(AsMap(t)) = Keys(t) /\ IdMap!Objects(AsMap(t)) = Keys(t)
       /\ Vacant(AsMap(t)) = DOMAIN t.node \ TakenNodes(t)
       /\ Words!getfreenode(t) = IdMap!FreeSlot(AsMap(t))
  BY <1>1, <1>5, <1>7, <1>8, <1>9, <1>12 DEF m
<1>14. \A key \in Uint32 : /\ Words!mainposition(t, key) = IdMap!mainposition(AsMap(t), key)
                           /\ Words!mainposition(t, key) \in DOMAIN t.node
  BY <1>11 DEF m
<1> QED  BY <1>1, <1>3, <1>4, <1>10, <1>13, <1>14

\* An empty table.
LEMMA FreshTable ==
    ASSUME NEW c \in Nat \ {0}
    PROVE  LET t == Words!Table(c)
           IN  /\ SoundTable(t) /\ t.capacity = c /\ Holds(t) = {} /\ Keys(t) = {} /\ TakenNodes(t) = {}
<1> DEFINE t == Words!Table(c)
           e == Words!EmptyNode
<1>1. e = Words!Node(0, -1, "empty", 0)
  BY DEF Words!EmptyNode
<1>2. e.key = 0 /\ e.next = -1 /\ e.flag = "empty" /\ e.value = 0 /\ e \in Nodes(c)
  <2>1. 0 \in Uint32 /\ -1 \in 0 .. c - 1 \cup {-1} /\ "empty" \in Flags /\ 0 \in Nat /\ c \in Nat
    BY WordsFit DEF Flags
  <2> HIDE DEF e
  <2> QED  BY <1>1, <2>1, NodeMade
<1>3. t = [capacity |-> c, lastfree |-> c - 1, node |-> [i \in 0 .. c - 1 |-> e]]
  BY DEF Words!Table
<1> HIDE DEF t, e
<1>4. t.capacity = c /\ t.lastfree = c - 1 /\ t.node = [i \in 0 .. c - 1 |-> e]
      /\ DOMAIN t.node = 0 .. c - 1
  BY <1>3
<1>5. \A i \in DOMAIN t.node : t.node[i] = e /\ Words!IsNil(t, i)
  BY <1>2, <1>4 DEF Words!IsNil
<1>6. t \in Tables(c)
  BY <1>2, <1>3 DEF Tables
<1>7. AsMap(t) = IdMap!Empty(c)
  <2>1. \A i \in DOMAIN t.node :
           [id |-> IF Words!IsNil(t, i) THEN IdMap!INVALID ELSE t.node[i].key,
            obj |-> ~Words!IsNil(t, i), next |-> t.node[i].next]
           = [id |-> IdMap!INVALID, obj |-> FALSE, next |-> IdMap!NIL]
    <3> TAKE i \in DOMAIN t.node
    <3>1. (~Words!IsNil(t, i)) = FALSE
      BY <1>5
    <3>2. (IF Words!IsNil(t, i) THEN IdMap!INVALID ELSE t.node[i].key) = IdMap!INVALID
          /\ t.node[i].next = IdMap!NIL
      BY <1>2, <1>5 DEF IdMap!NIL
    <3> QED  BY <3>1, <3>2
  <2>2. [i \in DOMAIN t.node |->
           [id |-> IF Words!IsNil(t, i) THEN IdMap!INVALID ELSE t.node[i].key,
            obj |-> ~Words!IsNil(t, i), next |-> t.node[i].next]]
        = [i \in 0 .. c - 1 |-> [id |-> IdMap!INVALID, obj |-> FALSE, next |-> IdMap!NIL]]
    BY <1>4, <2>1
  <2> QED  BY <1>4, <2>2 DEF AsMap, IdMap!Empty
<1>8. SoundTable(t)
  BY <1>4, <1>6, <1>7, EmptyMade DEF SoundTable
<1>9. TakenNodes(t) = {}
  BY <1>5 DEF TakenNodes
<1> QED  BY <1>4, <1>8, <1>9 DEF Holds, Keys, t

\* table_get is the search of aoi.c.
LEMMA GetIs ==
    ASSUME NEW t, SoundTable(t), NEW key \in Uint32
    PROVE  Words!table_get(t, key) = IdMap!Find(AsMap(t), key)
<1> DEFINE m == AsMap(t)
           D == DOMAIN t.node
           Is(f) == f = [i \in D |-> IF Words!IsNil(t, i) THEN -1
                                     ELSE IF t.node[i].key = key THEN i
                                     ELSE IF t.node[i].next < 0 THEN -1
                                     ELSE f[t.node[i].next]]
           IsM(f) == f = [s \in DOMAIN m.slot |-> IF m.slot[s].id = key THEN s
                                     ELSE IF m.slot[s].next = IdMap!NIL THEN IdMap!NIL
                                     ELSE f[m.slot[s].next]]
<1>1. Words!table_get(t, key) = (CHOOSE f : Is(f))[Words!mainposition(t, key)]
  BY DEF Words!table_get
<1>2. IdMap!Find(m, key) = (CHOOSE f : IsM(f))[IdMap!mainposition(m, key)]
  BY DEF IdMap!Find
<1>3. Words!mainposition(t, key) = IdMap!mainposition(m, key)
  BY SoundFacts
<1>4. DOMAIN m.slot = D
  BY ImageFacts
<1>5. \A i \in D : /\ (Words!IsNil(t, i) => m.slot[i].id # key /\ m.slot[i].next = IdMap!NIL)
                   /\ (~Words!IsNil(t, i) => m.slot[i].id = t.node[i].key)
                   /\ m.slot[i].next = t.node[i].next
                   /\ (t.node[i].next < 0 <=> m.slot[i].next = IdMap!NIL)
  <2> TAKE i \in D
  <2>1. m.slot[i].id = (IF Words!IsNil(t, i) THEN IdMap!INVALID ELSE t.node[i].key)
        /\ m.slot[i].next = t.node[i].next
    BY ImageFacts
  <2>2. t.node[i].next \in DOMAIN t.node \cup {-1} /\ DOMAIN t.node = 0 .. t.capacity - 1
        /\ t.capacity \in Nat
    BY SoundFacts
  <2>3. ASSUME Words!IsNil(t, i) PROVE m.slot[i].next = IdMap!NIL
    <3>1. i \in Vacant(m)
      BY <2>3, SoundFacts DEF TakenNodes
    <3> QED  BY <3>1, SoundFacts, TableFacts
  <2> QED  BY <2>1, <2>2, <2>3, IdsFit DEF IdMap!INVALID, IdMap!NIL
<1> HIDE DEF m
<1>6. \A f : Is(f) <=> IsM(f)
  <2> TAKE f
  <2>1. \A i \in D : (IF Words!IsNil(t, i) THEN -1
                      ELSE IF t.node[i].key = key THEN i
                      ELSE IF t.node[i].next < 0 THEN -1
                      ELSE f[t.node[i].next])
                     = (IF m.slot[i].id = key THEN i
                        ELSE IF m.slot[i].next = IdMap!NIL THEN IdMap!NIL
                        ELSE f[m.slot[i].next])
    BY <1>5 DEF IdMap!NIL
  <2>2. [i \in D |-> IF Words!IsNil(t, i) THEN -1
                     ELSE IF t.node[i].key = key THEN i
                     ELSE IF t.node[i].next < 0 THEN -1
                     ELSE f[t.node[i].next]]
        = [i \in DOMAIN m.slot |-> IF m.slot[i].id = key THEN i
                     ELSE IF m.slot[i].next = IdMap!NIL THEN IdMap!NIL
                     ELSE f[m.slot[i].next]]
    BY <1>4, <2>1
  <2> QED  BY <2>2
<1>7. (CHOOSE f : Is(f)) = (CHOOSE f : IsM(f))
  <2> HIDE DEF Is, IsM
  <2> QED  BY <1>6
<1> QED  BY <1>1, <1>2, <1>3, <1>7 DEF m

\* A key that the table has is found at its node, another one nowhere.
LEMMA Gets ==
    ASSUME NEW t, SoundTable(t), NEW key \in Uint32
    PROVE  /\ \A i \in TakenNodes(t) : t.node[i].key = key => Words!table_get(t, key) = i
           /\ key \notin Keys(t) => Words!table_get(t, key) = -1
           /\ key \in Keys(t) => /\ Words!table_get(t, key) \in TakenNodes(t)
                                 /\ Words!table_get(t, key) >= 0
                                 /\ t.node[Words!table_get(t, key)].key = key
           /\ Words!table_get(t, key) < 0 <=> key \notin Keys(t)
<1> DEFINE m == AsMap(t)
<1>1. Words!table_get(t, key) = IdMap!Find(m, key)
  BY GetIs
<1>2. IdMap!WellMade(m) /\ IdMap!Used(m) = TakenNodes(t) /\ Ids(m) = Keys(t)
  BY SoundFacts
<1>3. \A i \in TakenNodes(t) : m.slot[i].id = t.node[i].key /\ i \in DOMAIN t.node /\ i \in Nat
  BY ImageFacts, SoundFacts DEF TakenNodes
<1> HIDE DEF m
<1>4. \A i \in TakenNodes(t) : t.node[i].key = key => Words!table_get(t, key) = i
  BY <1>1, <1>2, <1>3, Found
<1>5. key \notin Keys(t) => Words!table_get(t, key) = -1
  BY <1>1, <1>2, Found DEF IdMap!NIL
<1>6. ASSUME key \in Keys(t)
      PROVE  \E i \in TakenNodes(t) : t.node[i].key = key
  BY <1>6 DEF Keys
<1> QED  BY <1>3, <1>4, <1>5, <1>6

\* The search may start anywhere above the vacant slots.
LEMMA LastMoved ==
    ASSUME NEW m, IdMap!WellMade(m), NEW last \in Int, last < m.size,
           \A s \in Vacant(m) : s <= last
    PROVE  LET m1 == [m EXCEPT !.lastfree = last]
           IN  /\ IdMap!WellMade(m1) /\ m1.size = m.size /\ m1.slot = m.slot
               /\ IdMap!Objects(m1) = IdMap!Objects(m) /\ Ids(m1) = Ids(m)
               /\ Vacant(m1) = Vacant(m)
<1> DEFINE m1 == [m EXCEPT !.lastfree = last]
<1>1. m \in IdMap!Table(m.size)
  BY DEF IdMap!WellMade
<1>2. m1.size = m.size /\ m1.slot = m.slot /\ m1.lastfree = last /\ m1 \in IdMap!Table(m.size)
  BY <1>1 DEF IdMap!Table
<1> HIDE DEF m1
<1>3. IdMap!Used(m1) = IdMap!Used(m) /\ IdMap!Objects(m1) = IdMap!Objects(m)
  BY <1>2 DEF IdMap!Used, IdMap!Objects
<1>4. Ids(m1) = Ids(m) /\ Vacant(m1) = Vacant(m)
  BY <1>2, <1>3 DEF Ids, Vacant
<1>5. \A s \in DOMAIN m.slot : IdMap!Home(m1, s) = IdMap!Home(m, s)
  BY <1>2 DEF IdMap!Home, IdMap!mainposition
<1>6. \A s \in IdMap!Used(m) : s \in DOMAIN m.slot
  BY DEF IdMap!Used
<1>7. PICK behind \in [DOMAIN m.slot -> Nat] : IdMap!Chained(m, behind)
  BY DEF IdMap!WellMade
<1>8. IdMap!Chained(m1, behind)
  <2>1. ASSUME NEW s \in IdMap!Used(m)
        PROVE  LET next == m1.slot[s].next
                   head == IdMap!Home(m1, s)
               IN  /\ head \in IdMap!Used(m1) /\ IdMap!Home(m1, head) = head
                   /\ behind[s] <= behind[head]
                   /\ next = IdMap!NIL => behind[s] = 0
                   /\ next # IdMap!NIL => /\ next \in IdMap!Used(m1)
                                          /\ IdMap!Home(m1, next) = head
                                          /\ behind[s] = behind[next] + 1
                   /\ s # head => \E p \in IdMap!Used(m1) : m1.slot[p].next = s
                   /\ \A u \in IdMap!Used(m1) :
                         IdMap!Home(m1, u) = head /\ behind[u] = behind[s] => u = s
    BY <1>2, <1>3, <1>5, <1>6, <1>7 DEF IdMap!Chained
  <2> QED  BY <1>3, <2>1 DEF IdMap!Chained
<1>9. \A s \in DOMAIN m1.slot \ IdMap!Used(m1) :
         s <= m1.lastfree /\ m1.slot[s].next = IdMap!NIL /\ ~m1.slot[s].obj
  BY <1>2, <1>3, TableFacts DEF Vacant
<1>10. \A s, t \in IdMap!Used(m1) : m1.slot[s].id = m1.slot[t].id => s = t
  BY <1>2, <1>3, TableFacts
<1>11. IdMap!WellMade(m1)
  BY <1>2, <1>7, <1>8, <1>9, <1>10, TableFacts DEF IdMap!WellMade
<1> QED  BY <1>2, <1>3, <1>4, <1>11 DEF m1

\* The slot of an id that is away from home moves to a free one, whose place in the
\* chain it keeps, and the new id begins a chain in its stead.
MovedAway(m, last, s, free, id) ==
    [m EXCEPT !.lastfree = free,
              !.slot = [m.slot EXCEPT
                          ![last] = [m.slot[last] EXCEPT !.next = free],
                          ![free] = m.slot[s],
                          ![s] = [id |-> id, obj |-> TRUE, next |-> IdMap!NIL]]]

LEMMA MovedGrows ==
    ASSUME NEW m, IdMap!WellMade(m), NEW id \in Uint32, id \notin Ids(m),
           IdMap!mainposition(m, id) \in IdMap!Used(m),
           IdMap!Home(m, IdMap!mainposition(m, id)) # IdMap!mainposition(m, id),
           NEW free \in Vacant(m), \A s \in Vacant(m) : s <= free
    PROVE  LET s == IdMap!mainposition(m, id)
               last == CHOOSE i \in DOMAIN m.slot : m.slot[i].next = s
           IN  /\ OneMore(m, MovedAway(m, last, s, free, id), id)
               /\ last \in IdMap!Used(m) /\ last # s
<1> DEFINE s == IdMap!mainposition(m, id)
           h == IdMap!Home(m, s)
           last == CHOOSE i \in DOMAIN m.slot : m.slot[i].next = s
           old == m.slot[s]
           ss == [id |-> id, obj |-> TRUE, next |-> IdMap!NIL]
           ps == [m.slot[last] EXCEPT !.next = free]
           f == [m.slot EXCEPT ![last] = ps, ![free] = old, ![s] = ss]
           m1 == [m EXCEPT !.lastfree = free, !.slot = f]
<1>1. PICK behind \in [DOMAIN m.slot -> Nat] : IdMap!Chained(m, behind)
  BY DEF IdMap!WellMade
<1> DEFINE b1 == [behind EXCEPT ![free] = behind[s], ![s] = 0]
<1>2. s \in DOMAIN m.slot /\ s \in IdMap!Used(m) /\ h # s
  BY TableFacts
<1>3. \A t \in IdMap!Used(m) : behind[t] \in Nat /\ t \in DOMAIN m.slot
  BY TableFacts
<1>4. last \in IdMap!Used(m) /\ m.slot[last].next = s
  <2>1. \E p \in IdMap!Used(m) : m.slot[p].next = s
    BY <1>1, <1>2 DEF IdMap!Chained
  <2>2. last \in DOMAIN m.slot /\ m.slot[last].next = s
    BY <1>3, <2>1
  <2> HIDE DEF last
  <2>3. m.slot[last].next # IdMap!NIL
    BY <1>2, <2>2, TableFacts
  <2> QED  BY <2>2, <2>3, TableFacts DEF Vacant
<1>5. IdMap!Home(m, last) = h /\ behind[last] = behind[s] + 1 /\ last # s
  <2> HIDE DEF last
  <2>1. IdMap!Home(m, last) = h /\ behind[last] = behind[s] + 1
    BY <1>1, <1>2, <1>4, TableFacts DEF IdMap!Chained
  <2> QED  BY <1>2, <1>3, <2>1
<1>6. \A t \in IdMap!Used(m) : m.slot[t].next = s => t = last
  <2> TAKE t \in IdMap!Used(m)
  <2> HAVE m.slot[t].next = s
  <2>1. IdMap!Home(m, t) = h /\ behind[t] = behind[s] + 1
    BY <1>1, <1>2, TableFacts DEF IdMap!Chained
  <2> QED  BY <1>1, <1>4, <1>5, <2>1 DEF IdMap!Chained
<1>7. /\ free \in DOMAIN m.slot /\ free \notin IdMap!Used(m) /\ free # s /\ free # last
      /\ free # IdMap!NIL /\ s # IdMap!NIL
  <2> HIDE DEF last
  <2> QED  BY <1>2, <1>4, TableFacts DEF Vacant
<1>8. /\ m.slot \in [DOMAIN m.slot -> IdMap!Slots(m.size)] /\ DOMAIN m.slot = 0 .. m.size - 1
      /\ m \in IdMap!Table(m.size)
      /\ old \in IdMap!Slots(m.size) /\ m.slot[last] \in IdMap!Slots(m.size)
  <2> HIDE DEF last, s
  <2> QED  BY <1>2, <1>3, <1>4, TableFacts DEF IdMap!WellMade
<1>9. ss \in IdMap!Slots(m.size) /\ ps \in IdMap!Slots(m.size)
      /\ ps.id = m.slot[last].id /\ ps.obj = m.slot[last].obj /\ ps.next = free
      /\ ss.id = id /\ ss.obj = TRUE /\ ss.next = IdMap!NIL
  <2> HIDE DEF last
  <2> QED  BY <1>7, <1>8 DEF IdMap!Slots
<1>10. f \in [DOMAIN m.slot -> IdMap!Slots(m.size)]
  <2> DEFINE g == [m.slot EXCEPT ![last] = ps]
             k == [g EXCEPT ![free] = old]
  <2> HIDE DEF last, ss, ps, s, old
  <2>1. g \in [DOMAIN m.slot -> IdMap!Slots(m.size)]
    BY <1>8, <1>9
  <2>2. k \in [DOMAIN m.slot -> IdMap!Slots(m.size)]
    <3> HIDE DEF g
    <3> QED  BY <1>8, <2>1
  <2>3. f = [k EXCEPT ![s] = ss]
    OBVIOUS
  <2> HIDE DEF f, k
  <2> QED  BY <1>8, <1>9, <2>2, <2>3
<1>11. m1 \in IdMap!Table(m.size) /\ m1.size = m.size /\ m1.lastfree = free
       /\ m1.slot = f /\ DOMAIN m1.slot = DOMAIN m.slot /\ free \in Int /\ free < m.size
  <2>2. free \in Int /\ free < m.size
    BY <1>7, TableFacts
  <2>3. m1 = [m EXCEPT !.lastfree = free, !.slot = f]
    OBVIOUS
  <2> HIDE DEF f, m1
  <2>1. m1.size = m.size /\ m1.lastfree = free /\ m1.slot = f
    BY <1>8, <2>3 DEF IdMap!Table
  <2>4. DOMAIN m1.slot = DOMAIN m.slot
    BY <1>10, <2>1
  <2> QED  BY <1>8, <1>10, <2>1, <2>2, <2>3, <2>4 DEF IdMap!Table
<1>12. f[s] = ss /\ f[last] = ps /\ f[free] = old
       /\ \A t \in DOMAIN m.slot : t # s /\ t # last /\ t # free => f[t] = m.slot[t]
  <2> HIDE DEF last, ss, ps, old, s
  <2>1. s \in DOMAIN m.slot /\ last \in DOMAIN m.slot /\ free \in DOMAIN m.slot
        /\ last # s /\ free # s /\ free # last
    BY <1>2, <1>3, <1>4, <1>5, <1>7
  <2> QED  BY <2>1
<1>13. b1 \in [DOMAIN m1.slot -> Nat]
  <2> HIDE DEF m1
  <2> QED  BY <1>2, <1>3, <1>11
<1>14. b1[s] = 0 /\ b1[free] = behind[s] /\ \A t \in IdMap!Used(m) : t # s => b1[t] = behind[t]
  BY <1>2, <1>3, <1>7
<1>15. m1 = MovedAway(m, last, s, free, id)
  BY DEF MovedAway
<1> DEFINE To(u) == IF u = s THEN free ELSE u
<1> HIDE DEF m1, f, ss, ps, b1, last
<1>16. \A u \in IdMap!Used(m) :
          /\ m1.slot[To(u)].id = m.slot[u].id /\ m1.slot[To(u)].obj = m.slot[u].obj
          /\ m1.slot[To(u)].next = To(m.slot[u].next)
          /\ b1[To(u)] = behind[u] /\ To(u) \in DOMAIN m1.slot /\ To(u) # s
  <2> TAKE u \in IdMap!Used(m)
  <2>1. u \in DOMAIN m.slot /\ u # free
    BY <1>3, <1>7
  <2>2. CASE u = s
    <3>1. m.slot[s].next # s
      <4>1. ASSUME m.slot[s].next = s PROVE FALSE
        BY <1>2, <1>5, <1>6, <4>1
      <4> QED  BY <4>1
    <3> QED  BY <1>7, <1>11, <1>12, <1>14, <2>2, <3>1
  <2>3. CASE u = last
    BY <1>4, <1>5, <1>9, <1>11, <1>12, <1>14, <2>1, <2>3
  <2>4. CASE u # s /\ u # last
    BY <1>6, <1>11, <1>12, <1>14, <2>1, <2>4
  <2> QED  BY <2>2, <2>3, <2>4
<1>17. m1.slot[s].id = id /\ m1.slot[s].obj = TRUE /\ m1.slot[s].next = IdMap!NIL
  BY <1>9, <1>11, <1>12
<1>18. \A t \in IdMap!Used(m1) : t = s \/ \E u \in IdMap!Used(m) : t = To(u)
  <2> TAKE t \in IdMap!Used(m1)
  <2>1. t \in DOMAIN m.slot /\ m1.slot[t].id # IdMap!INVALID
    BY <1>11 DEF IdMap!Used
  <2>2. CASE t = free
    BY <1>2, <2>2
  <2>3. CASE t # free /\ t # s
    <3>1. m.slot[t].id # IdMap!INVALID
      BY <1>4, <1>9, <1>11, <1>12, <2>1, <2>3 DEF IdMap!Used
    <3>2. t \in IdMap!Used(m)
      BY <2>1, <3>1 DEF IdMap!Used
    <3> QED  BY <2>3, <3>2
  <2> QED  BY <2>2, <2>3
<1>19. s \in IdMap!Used(m1) /\ \A u \in IdMap!Used(m) : To(u) \in IdMap!Used(m1)
  <2>1. \A u \in IdMap!Used(m) : m.slot[u].id # IdMap!INVALID
    BY DEF IdMap!Used
  <2>2. id # IdMap!INVALID
    BY IdsFit DEF IdMap!INVALID
  <2> QED  BY <1>2, <1>11, <1>16, <1>17, <2>1, <2>2 DEF IdMap!Used
<1>20. \A u \in IdMap!Used(m) : IdMap!Home(m1, To(u)) = IdMap!Home(m, u)
  BY <1>11, <1>16 DEF IdMap!Home, IdMap!mainposition
<1>21. IdMap!Home(m1, s) = s
  BY <1>11, <1>17 DEF IdMap!Home, IdMap!mainposition
<1>22. \A u \in IdMap!Used(m) : /\ IdMap!Home(m, u) \in IdMap!Used(m) /\ IdMap!Home(m, u) # s
                                /\ IdMap!Home(m, IdMap!Home(m, u)) = IdMap!Home(m, u)
  BY <1>1, <1>2 DEF IdMap!Chained
<1>23. \A u, v \in IdMap!Used(m) : To(u) = To(v) => u = v
  BY <1>7
<1>24. \A u \in IdMap!Used(m) : u # s => To(u) = u
  OBVIOUS
<1>25. To(IdMap!NIL) = IdMap!NIL /\ \A u \in IdMap!Used(m) : To(u) # IdMap!NIL
  BY <1>7, TableFacts
<1> HIDE DEF To, h, s
<1>26. IdMap!Chained(m1, b1)
  <2>1. ASSUME NEW u \in IdMap!Used(m)
        PROVE  LET t == To(u)
                   next == m1.slot[t].next
                   head == IdMap!Home(m1, t)
               IN  /\ head \in IdMap!Used(m1) /\ IdMap!Home(m1, head) = head
                   /\ b1[t] <= b1[head]
                   /\ next = IdMap!NIL => b1[t] = 0
                   /\ next # IdMap!NIL => /\ next \in IdMap!Used(m1)
                                          /\ IdMap!Home(m1, next) = head
                                          /\ b1[t] = b1[next] + 1
                   /\ t # head => \E p \in IdMap!Used(m1) : m1.slot[p].next = t
                   /\ \A v \in IdMap!Used(m1) :
                         IdMap!Home(m1, v) = head /\ b1[v] = b1[t] => v = t
    <3> DEFINE k == IdMap!Home(m, u)
               nu == m.slot[u].next
    <3>1. /\ k \in IdMap!Used(m) /\ IdMap!Home(m, k) = k /\ behind[u] <= behind[k]
          /\ nu = IdMap!NIL => behind[u] = 0
          /\ nu # IdMap!NIL => /\ nu \in IdMap!Used(m) /\ IdMap!Home(m, nu) = k
                               /\ behind[u] = behind[nu] + 1
          /\ u # k => \E p \in IdMap!Used(m) : m.slot[p].next = u
          /\ \A v \in IdMap!Used(m) : IdMap!Home(m, v) = k /\ behind[v] = behind[u] => v = u
      BY <1>1 DEF IdMap!Chained
    <3>2. k # s /\ To(k) = k /\ IdMap!Home(m1, To(u)) = k /\ IdMap!Home(m1, k) = k
          /\ b1[To(u)] = behind[u] /\ b1[k] = behind[k] /\ k \in IdMap!Used(m1)
      BY <1>16, <1>19, <1>20, <1>22, <1>24, <3>1
    <3>3. m1.slot[To(u)].next = To(nu)
      BY <1>16
    <3> HIDE DEF k, nu
    <3>4. To(nu) = IdMap!NIL => b1[To(u)] = 0
      BY <1>25, <3>1, <3>2
    <3>5. To(nu) # IdMap!NIL => /\ To(nu) \in IdMap!Used(m1) /\ IdMap!Home(m1, To(nu)) = k
                                /\ b1[To(u)] = b1[To(nu)] + 1
      BY <1>16, <1>19, <1>20, <1>25, <3>1, <3>2
    <3>6. To(u) # k => \E p \in IdMap!Used(m1) : m1.slot[p].next = To(u)
      <4> HAVE To(u) # k
      <4>1. u # k
        BY <3>2
      <4>2. PICK p \in IdMap!Used(m) : m.slot[p].next = u
        BY <3>1, <4>1
      <4> QED  BY <1>16, <1>19, <4>2
    <3>7. \A v \in IdMap!Used(m1) : IdMap!Home(m1, v) = k /\ b1[v] = b1[To(u)] => v = To(u)
      <4> TAKE v \in IdMap!Used(m1)
      <4> HAVE IdMap!Home(m1, v) = k /\ b1[v] = b1[To(u)]
      <4>1. v # s
        BY <1>21, <3>2
      <4>2. PICK w \in IdMap!Used(m) : v = To(w)
        BY <1>18, <4>1
      <4>3. IdMap!Home(m, w) = k /\ behind[w] = behind[u]
        BY <1>16, <1>20, <3>2, <4>2
      <4> QED  BY <3>1, <4>2, <4>3
    <3> QED  BY <3>1, <3>2, <3>3, <3>4, <3>5, <3>6, <3>7
  <2>2. \A v \in IdMap!Used(m1) : IdMap!Home(m1, v) = s => v = s
    BY <1>18, <1>20, <1>22
  <2>3. ASSUME NEW t \in IdMap!Used(m1)
        PROVE  LET next == m1.slot[t].next
                   head == IdMap!Home(m1, t)
               IN  /\ head \in IdMap!Used(m1) /\ IdMap!Home(m1, head) = head
                   /\ b1[t] <= b1[head]
                   /\ next = IdMap!NIL => b1[t] = 0
                   /\ next # IdMap!NIL => /\ next \in IdMap!Used(m1)
                                          /\ IdMap!Home(m1, next) = head
                                          /\ b1[t] = b1[next] + 1
                   /\ t # head => \E p \in IdMap!Used(m1) : m1.slot[p].next = t
                   /\ \A v \in IdMap!Used(m1) :
                         IdMap!Home(m1, v) = head /\ b1[v] = b1[t] => v = t
    <3>1. CASE t = s
      BY <1>14, <1>17, <1>19, <1>21, <2>2, <3>1
    <3>2. CASE t # s
      <4>1. PICK u \in IdMap!Used(m) : t = To(u)
        BY <1>18, <3>2
      <4> QED  BY <2>1, <4>1
    <3> QED  BY <3>1, <3>2
  <2> QED  BY <2>3 DEF IdMap!Chained
<1>27. IdMap!WellMade(m1)
  <2>1. \A t \in DOMAIN m1.slot \ IdMap!Used(m1) :
           t <= m1.lastfree /\ m1.slot[t].next = IdMap!NIL /\ ~m1.slot[t].obj
    <3> TAKE t \in DOMAIN m1.slot \ IdMap!Used(m1)
    <3>1. t # s /\ t # free
      BY <1>2, <1>19 DEF To
    <3>2. t \notin IdMap!Used(m)
      BY <1>19, <1>24, <3>1
    <3>3. t \in Vacant(m) /\ t # last
      BY <1>4, <1>11, <3>2 DEF Vacant
    <3>4. m1.slot[t] = m.slot[t]
      BY <1>11, <1>12, <3>1, <3>3
    <3> QED  BY <1>11, <3>3, <3>4, TableFacts
  <2>2. \A t, u \in IdMap!Used(m1) : m1.slot[t].id = m1.slot[u].id => t = u
    <3>1. \A u, v \in IdMap!Used(m) : m.slot[u].id = m.slot[v].id => u = v
      BY TableFacts
    <3>2. \A u \in IdMap!Used(m) : m1.slot[To(u)].id # id
      BY <1>16 DEF Ids
    <3> QED  BY <1>16, <1>17, <1>18, <3>1, <3>2
  <2> QED  BY <1>11, <1>13, <1>26, <2>1, <2>2, TableFacts DEF IdMap!WellMade
<1>28. IdMap!Objects(m1) = IdMap!Objects(m) \cup {id}
  <2>1. \A t \in DOMAIN m1.slot : m1.slot[t].obj => t \in IdMap!Used(m1)
    BY <1>27, TableFacts DEF Vacant
  <2>2. \A t \in DOMAIN m.slot : m.slot[t].obj => t \in IdMap!Used(m)
    BY TableFacts DEF Vacant
  <2>3. ASSUME NEW x \in IdMap!Objects(m1) PROVE x \in IdMap!Objects(m) \cup {id}
    <3>1. PICK t \in DOMAIN m1.slot : m1.slot[t].obj /\ m1.slot[t].id = x
      BY DEF IdMap!Objects
    <3> QED  BY <1>3, <1>16, <1>17, <1>18, <2>1, <3>1 DEF IdMap!Objects
  <2>4. ASSUME NEW x \in IdMap!Objects(m) PROVE x \in IdMap!Objects(m1)
    <3>1. PICK t \in DOMAIN m.slot : m.slot[t].obj /\ m.slot[t].id = x
      BY DEF IdMap!Objects
    <3> QED  BY <1>16, <2>2, <3>1 DEF IdMap!Objects
  <2>5. id \in IdMap!Objects(m1)
    BY <1>2, <1>11, <1>17 DEF IdMap!Objects
  <2> QED  BY <2>3, <2>4, <2>5
<1>29. Ids(m1) \subseteq Ids(m) \cup {id}
  BY <1>16, <1>17, <1>18 DEF Ids
<1>30. Vacant(m) \subseteq Vacant(m1) \cup {free}
  <2> SUFFICES ASSUME NEW t \in Vacant(m) PROVE t \in Vacant(m1) \cup {free}
    OBVIOUS
  <2>1. t \in DOMAIN m.slot /\ t \notin IdMap!Used(m)
    BY DEF Vacant
  <2>2. CASE t # free
    <3>1. t # s
      BY <1>2, <2>1
    <3>2. t \notin IdMap!Used(m1)
      <4>1. ASSUME NEW u \in IdMap!Used(m), t = To(u) PROVE FALSE
        BY <2>1, <2>2, <4>1 DEF To
      <4> QED  BY <1>18, <3>1, <4>1
    <3> QED  BY <1>11, <2>1, <3>2 DEF Vacant
  <2> QED  BY <2>2
<1>31. OneMore(m, m1, id)
  BY <1>11, <1>27, <1>28, <1>29, <1>30 DEF OneMore
<1> QED  BY <1>4, <1>5, <1>15, <1>31 DEF s, last

-----------------------------------------------------------------------------
(* A new node in a table that has room.                                     *)

Image(node) ==
    [id |-> IF node.flag = "empty" THEN IdMap!INVALID ELSE node.key,
     obj |-> node.flag # "empty", next |-> node.next]

\* A table of aoi.c whose slots are the images of the nodes is the image.
LEMMA Matches ==
    ASSUME NEW c \in Nat, NEW t, t \in Tables(c), NEW m, m \in IdMap!Table(c),
           m.lastfree = t.lastfree, \A i \in 0 .. c - 1 : m.slot[i] = Image(t.node[i])
    PROVE  AsMap(t) = m
<1>1. t.capacity = c /\ DOMAIN t.node = 0 .. c - 1
  BY TypedFacts
<1>2. m.size = c /\ m.slot \in [0 .. c - 1 -> IdMap!Slots(c)]
      /\ m = [size |-> m.size, lastfree |-> m.lastfree, slot |-> m.slot]
  BY DEF IdMap!Table
<1>3. m.slot = [i \in 0 .. c - 1 |-> Image(t.node[i])]
  BY <1>2
<1>4. AsMap(t) = [size |-> c, lastfree |-> t.lastfree,
                  slot |-> [i \in 0 .. c - 1 |-> Image(t.node[i])]]
  BY <1>1 DEF AsMap, Image, Words!IsNil
<1> QED  BY <1>2, <1>3, <1>4

LEMMA ImageOf ==
    ASSUME NEW t, NEW i \in DOMAIN t.node
    PROVE  /\ AsMap(t).slot[i] = Image(t.node[i])
           /\ i \in TakenNodes(t) <=> t.node[i].flag # "empty"
  BY ImageFacts DEF Image, Words!IsNil, TakenNodes

LEMMA ImageFields ==
    ASSUME NEW x
    PROVE  /\ Image(x).id = (IF x.flag = "empty" THEN IdMap!INVALID ELSE x.key)
           /\ Image(x).obj = (x.flag # "empty") /\ Image(x).next = x.next
  BY DEF Image

\* What table_newkey makes of a table.
Grows(t, r, key) ==
    /\ SoundTable(r.table) /\ r.table.capacity = t.capacity
    /\ r.at \in TakenNodes(r.table) /\ Says(r.table, r.at) = <<key, "inner", 0>>
    /\ Holds(r.table) = Holds(t) \cup {<<key, "inner", 0>>}
    /\ \E x : Vacant(AsMap(t)) \subseteq Vacant(AsMap(r.table)) \cup {x}

\* The main position of the key is free.
LEMMA PlacedFree ==
    ASSUME NEW t, SoundTable(t), NEW key \in Uint32, key \notin Keys(t),
           Words!IsNil(t, Words!mainposition(t, key))
    PROVE  Grows(t, Words!Placed(t, key), key)
<1> DEFINE mp == Words!mainposition(t, key)
           c == t.capacity
           m == AsMap(t)
           m1 == [m EXCEPT !.slot[mp].id = key, !.slot[mp].obj = TRUE]
           x == Words!Node(key, t.node[mp].next, "inner", 0)
           node1 == [t.node EXCEPT ![mp] = x]
           t1 == [t EXCEPT !.node = node1]
<1>1. Words!Placed(t, key) = [table |-> t1, at |-> mp]
  BY DEF Words!Placed
<1>2. /\ t \in Tables(c) /\ c \in Nat /\ mp \in 0 .. c - 1 /\ DOMAIN t.node = 0 .. c - 1
      /\ t.node \in [0 .. c - 1 -> Nodes(c)]
      /\ t.node[mp].next \in 0 .. c - 1 \cup {-1} /\ t.node[mp].flag = "empty"
      /\ IdMap!WellMade(m) /\ Ids(m) = Keys(t) /\ m.size = c
  BY SoundFacts, ImageFacts, TypedFacts DEF Words!IsNil
<1>3. x.key = key /\ x.next = t.node[mp].next /\ x.flag = "inner" /\ x.value = 0
      /\ x \in Nodes(c)
  BY <1>2, NodeMade DEF Flags
<1> HIDE DEF x, c, mp
<1>4. t1 \in Tables(c) /\ t1.node = node1 /\ t1.lastfree = t.lastfree /\ t1.capacity = c
      /\ DOMAIN node1 = 0 .. c - 1
  <2>1. node1 \in [0 .. c - 1 -> Nodes(c)] /\ DOMAIN node1 = 0 .. c - 1
    BY <1>2, <1>3
  <2> HIDE DEF node1
  <2> QED  BY <1>2, <2>1 DEF Tables
<1>5. node1[mp] = x /\ \A i \in 0 .. c - 1 : i # mp => node1[i] = t.node[i]
  BY <1>2
<1> HIDE DEF node1, t1
<1>6. mp \in Vacant(m) /\ mp = IdMap!mainposition(m, key)
  <2>1. mp \notin TakenNodes(t) /\ mp \in DOMAIN t.node
    BY <1>2 DEF TakenNodes, Words!IsNil
  <2> QED  BY <2>1, SoundFacts DEF mp
<1>7. OneMore(m, m1, key)
  <2> HIDE DEF m
  <2> QED  BY <1>2, <1>6, PlacedGrows
<1>8. m1 \in IdMap!Table(c) /\ IdMap!WellMade(m1)
  <2> HIDE DEF m, m1
  <2> QED  BY <1>2, <1>7 DEF OneMore, IdMap!WellMade
<1>9. m \in IdMap!Table(c)
  BY <1>2 DEF IdMap!WellMade
<1>10. AsMap(t1) = m1
  <2>1. m1.lastfree = t1.lastfree
    <3>1. m1.lastfree = m.lastfree
      BY <1>9 DEF IdMap!Table
    <3> QED  BY <1>4, <3>1, ImageFacts
  <2>2. \A i \in 0 .. c - 1 : m.slot[i] = Image(t.node[i])
    BY <1>2, ImageOf
  <2>3. m1.slot[mp] = [m.slot[mp] EXCEPT !.id = key, !.obj = TRUE]
        /\ \A i \in 0 .. c - 1 : i # mp => m1.slot[i] = m.slot[i]
    <3> HIDE DEF m
    <3> QED  BY <1>2, <1>9 DEF IdMap!Table
  <2> HIDE DEF m, m1
  <2>4. m1.slot[mp] = Image(x)
    <3>1. m.slot[mp] = [id |-> IdMap!INVALID, obj |-> FALSE, next |-> t.node[mp].next]
      <4>1. (t.node[mp].flag # "empty") = FALSE
        BY <1>2
      <4>2. m.slot[mp] = Image(t.node[mp]) /\ t.node[mp].flag = "empty"
        BY <1>2, <2>2
      <4>3. Image(t.node[mp]) = [id |-> IdMap!INVALID, obj |-> FALSE, next |-> t.node[mp].next]
        BY <4>1, <4>2 DEF Image
      <4> QED  BY <4>2, <4>3
    <3>2. Image(x) = [id |-> key, obj |-> TRUE, next |-> t.node[mp].next]
      <4>1. (x.flag # "empty") = TRUE
        BY <1>3
      <4> QED  BY <1>3, <4>1 DEF Image
    <3>3. m.slot[mp] \in IdMap!Slots(c) /\ m1.slot[mp] \in IdMap!Slots(c)
      BY <1>2, <1>8, <1>9 DEF IdMap!Table
    <3>4. m1.slot[mp].id = key /\ m1.slot[mp].obj = TRUE /\ m1.slot[mp].next = m.slot[mp].next
      BY <2>3, <3>3 DEF IdMap!Slots
    <3>5. m.slot[mp].next = t.node[mp].next
      BY <3>1
    <3> QED  BY <3>2, <3>3, <3>4, <3>5 DEF IdMap!Slots
  <2>5. \A i \in 0 .. c - 1 : m1.slot[i] = Image(t1.node[i])
    BY <1>4, <1>5, <2>2, <2>3, <2>4
  <2> QED  BY <1>2, <1>4, <1>8, <2>1, <2>5, Matches
<1> HIDE DEF m1
<1>11. SoundTable(t1)
  BY <1>4, <1>8, <1>10 DEF SoundTable
<1>12. \A i \in DOMAIN t.node : i \in TakenNodes(t) <=> t.node[i].flag # "empty"
  BY ImageOf
<1>13. \A i \in DOMAIN t1.node : i \in TakenNodes(t1) <=> t1.node[i].flag # "empty"
  BY ImageOf
<1>14. TakenNodes(t1) = TakenNodes(t) \cup {mp} /\ mp \notin TakenNodes(t)
  <2>1. TakenNodes(t) \subseteq 0 .. c - 1 /\ TakenNodes(t1) \subseteq 0 .. c - 1
    BY <1>2, <1>4 DEF TakenNodes
  <2> QED  BY <1>2, <1>3, <1>4, <1>5, <1>12, <1>13, <2>1
<1>15. Says(t1, mp) = <<key, "inner", 0>> /\ \A i \in TakenNodes(t) : Says(t1, i) = Says(t, i)
  BY <1>2, <1>3, <1>4, <1>5, <1>14 DEF Says, TakenNodes
<1>16. Holds(t1) = Holds(t) \cup {<<key, "inner", 0>>}
  BY <1>14, <1>15 DEF Holds
<1> QED  BY <1>1, <1>4, <1>7, <1>10, <1>11, <1>14, <1>15, <1>16 DEF Grows, OneMore, c

\* The main position is taken by a key that belongs there.
LEMMA PlacedChained ==
    ASSUME NEW t, SoundTable(t), NEW key \in Uint32, key \notin Keys(t),
           ~Words!IsNil(t, Words!mainposition(t, key)), Words!getfreenode(t) # -1,
           Words!mainposition(t, t.node[Words!mainposition(t, key)].key)
              = Words!mainposition(t, key)
    PROVE  Grows(t, Words!Placed(t, key), key)
<1> DEFINE mp == Words!mainposition(t, key)
           n1 == Words!getfreenode(t)
           c == t.capacity
           m == AsMap(t)
           mc == IdMap!Chain(m, key)
           m1 == [mc EXCEPT !.lastfree = n1]
           x == Words!Node(key, t.node[mp].next, "inner", 0)
           y == [t.node[mp] EXCEPT !.next = n1]
           node1 == [t.node EXCEPT ![mp] = y, ![n1] = x]
           t1 == [t EXCEPT !.lastfree = n1, !.node = node1]
<1>1. Words!Placed(t, key) = [table |-> t1, at |-> n1]
  <2>1. [t.node EXCEPT ![mp].next = n1, ![n1] = x] = node1
    OBVIOUS
  <2> QED  BY <2>1 DEF Words!Placed
<1>2. /\ t \in Tables(c) /\ c \in Nat /\ mp \in 0 .. c - 1 /\ DOMAIN t.node = 0 .. c - 1
      /\ t.node \in [0 .. c - 1 -> Nodes(c)]
      /\ t.node[mp] \in Nodes(c)
      /\ t.node[mp].next \in 0 .. c - 1 \cup {-1} /\ t.node[mp].flag # "empty"
      /\ IdMap!WellMade(m) /\ Ids(m) = Keys(t) /\ m.size = c
  BY SoundFacts, ImageFacts, TypedFacts DEF Words!IsNil
<1>3. /\ n1 = IdMap!FreeSlot(m) /\ mp = IdMap!mainposition(m, key)
      /\ mp \in IdMap!Used(m) /\ IdMap!Used(m) = TakenNodes(t)
  <2>1. mp \in TakenNodes(t)
    BY <1>2 DEF TakenNodes, Words!IsNil
  <2> QED  BY <2>1, SoundFacts
<1>4. Vacant(m) # {} /\ n1 \in Vacant(m) /\ \A s \in Vacant(m) : s <= n1
  BY <1>2, <1>3, Vacancy DEF IdMap!NIL
<1>5. n1 \in 0 .. c - 1 /\ n1 # mp /\ t.node[n1].flag = "empty" /\ n1 \notin TakenNodes(t)
  <2>1. n1 \in DOMAIN t.node /\ n1 \notin TakenNodes(t)
    BY <1>3, <1>4, SoundFacts
  <2> HIDE DEF n1
  <2> QED  BY <1>2, <1>3, <2>1, ImageOf
<1>6. IdMap!Home(m, mp) = mp
  <2>1. m.slot[mp].id = t.node[mp].key
    <3>1. ~Words!IsNil(t, mp)
      BY <1>2 DEF Words!IsNil
    <3> HIDE DEF mp, m
    <3>2. m.slot[mp].id = (IF Words!IsNil(t, mp) THEN IdMap!INVALID ELSE t.node[mp].key)
      BY <1>2, ImageFacts DEF m
    <3> QED  BY <3>1, <3>2
  <2>2. t.node[mp].key \in Uint32
    BY <1>2, SoundFacts
  <2> QED  BY <2>1, <2>2, SoundFacts DEF IdMap!Home
<1>7. x.key = key /\ x.next = t.node[mp].next /\ x.flag = "inner" /\ x.value = 0
      /\ x \in Nodes(c)
  BY <1>2, NodeMade DEF Flags
<1>8. y.key = t.node[mp].key /\ y.next = n1 /\ y.flag = t.node[mp].flag
      /\ y.value = t.node[mp].value /\ y \in Nodes(c)
  <2> HIDE DEF mp, n1
  <2> QED  BY <1>2, <1>5 DEF Nodes
<1> HIDE DEF x, y, c, mp, n1
<1>9. t1 \in Tables(c) /\ t1.node = node1 /\ t1.lastfree = n1 /\ t1.capacity = c
      /\ DOMAIN node1 = 0 .. c - 1
  <2>1. node1 \in [0 .. c - 1 -> Nodes(c)] /\ DOMAIN node1 = 0 .. c - 1
    BY <1>2, <1>5, <1>7, <1>8
  <2>2. n1 \in Int
    BY <1>5
  <2> HIDE DEF node1
  <2> QED  BY <1>2, <2>1, <2>2 DEF Tables
<1>10. node1[mp] = y /\ node1[n1] = x
       /\ \A i \in 0 .. c - 1 : i # mp /\ i # n1 => node1[i] = t.node[i]
  BY <1>2, <1>5
<1> HIDE DEF node1, t1
<1>11. OneMore(m, mc, key)
  <2> HIDE DEF m, mc
  <2>1. OneMore(m, IdMap!Chain(m, key), key)
    BY <1>2, <1>3, <1>4, <1>6, ChainGrows
  <2> QED  BY <2>1 DEF mc
<1>12. m \in IdMap!Table(c)
  BY <1>2 DEF IdMap!WellMade
<1>13. /\ mc.size = c /\ mc.lastfree = n1 - 1
       /\ mc.slot = [m.slot EXCEPT ![n1] = [id |-> key, obj |-> TRUE, next |-> m.slot[mp].next],
                                   ![mp].next = n1]
  <2> HIDE DEF m
  <2> QED  BY <1>2, <1>3, <1>12 DEF IdMap!Chain, IdMap!Table
<1> HIDE DEF mc
<1>14. \A s \in Vacant(mc) : s <= n1
  <2> TAKE s \in Vacant(mc)
  <2>1. s \in Nat /\ s <= n1 - 1
    BY <1>11, <1>13, TableFacts DEF OneMore
  <2> QED  BY <1>5, <2>1
<1>15. IdMap!WellMade(m1) /\ m1.size = c /\ m1.slot = mc.slot /\ Vacant(m1) = Vacant(mc)
  <2>1. IdMap!WellMade(mc) /\ n1 \in Int /\ n1 < mc.size
    BY <1>2, <1>5, <1>11, <1>13 DEF OneMore
  <2> HIDE DEF m1
  <2> QED  BY <1>13, <1>14, <2>1, LastMoved DEF m1
<1>16. m1 \in IdMap!Table(c) /\ m1.lastfree = n1
  <2>1. m1 \in IdMap!Table(c)
    BY <1>15 DEF IdMap!WellMade
  <2>2. mc \in IdMap!Table(c)
    BY <1>11, <1>13 DEF OneMore, IdMap!WellMade
  <2>3. m1.lastfree = n1
    BY <2>2 DEF IdMap!Table
  <2> QED  BY <2>1, <2>3
<1> HIDE DEF m1
<1>17. AsMap(t1) = m1
  <2>2. \A i \in 0 .. c - 1 : m.slot[i] = Image(t.node[i])
    BY <1>2, ImageOf
  <2>3. /\ m.slot \in [0 .. c - 1 -> IdMap!Slots(c)]
    BY <1>12 DEF IdMap!Table
  <2> HIDE DEF m
  <2>4. /\ m1.slot[mp] = [m.slot[mp] EXCEPT !.next = n1]
        /\ m1.slot[n1] = [id |-> key, obj |-> TRUE, next |-> m.slot[mp].next]
        /\ \A i \in 0 .. c - 1 : i # mp /\ i # n1 => m1.slot[i] = m.slot[i]
    BY <1>2, <1>5, <1>13, <1>15, <2>3
  <2>5. m1.slot[mp] = Image(y)
    <3>1. m.slot[mp] = Image(t.node[mp])
      BY <1>2, <2>2
    <3>2. [Image(t.node[mp]) EXCEPT !.next = n1] = Image(y)
      BY <1>8 DEF Image
    <3> QED  BY <2>4, <3>1, <3>2
  <2>6. m1.slot[n1] = Image(x)
    <3>1. m.slot[mp].next = t.node[mp].next
      BY <1>2, <2>2, ImageFields
    <3>2. Image(x) = [id |-> key, obj |-> (x.flag # "empty"), next |-> t.node[mp].next]
      BY <1>7 DEF Image
    <3>3. (x.flag # "empty") = TRUE
      BY <1>7
    <3> QED  BY <2>4, <3>1, <3>2, <3>3
  <2>7. \A i \in 0 .. c - 1 : m1.slot[i] = Image(t1.node[i])
    BY <1>9, <1>10, <2>2, <2>4, <2>5, <2>6
  <2> QED  BY <1>2, <1>9, <1>16, <2>7, Matches
<1>18. SoundTable(t1)
  BY <1>9, <1>15, <1>17 DEF SoundTable
<1>19. TakenNodes(t1) = TakenNodes(t) \cup {n1}
  <2>1. \A i \in DOMAIN t.node : i \in TakenNodes(t) <=> t.node[i].flag # "empty"
    BY ImageOf
  <2>2. \A i \in DOMAIN t1.node : i \in TakenNodes(t1) <=> t1.node[i].flag # "empty"
    BY ImageOf
  <2>3. TakenNodes(t) \subseteq 0 .. c - 1 /\ TakenNodes(t1) \subseteq 0 .. c - 1
    BY <1>2, <1>9 DEF TakenNodes
  <2> QED  BY <1>2, <1>5, <1>7, <1>8, <1>9, <1>10, <2>1, <2>2, <2>3
<1>20. Says(t1, n1) = <<key, "inner", 0>> /\ \A i \in TakenNodes(t) : Says(t1, i) = Says(t, i)
  BY <1>2, <1>5, <1>7, <1>8, <1>9, <1>10 DEF Says, TakenNodes
<1>21. Holds(t1) = Holds(t) \cup {<<key, "inner", 0>>}
  BY <1>19, <1>20 DEF Holds
<1>22. \E z : Vacant(m) \subseteq Vacant(AsMap(t1)) \cup {z}
  BY <1>11, <1>15, <1>17 DEF OneMore
<1> QED  BY <1>1, <1>9, <1>18, <1>19, <1>20, <1>21, <1>22 DEF Grows, c

\* The main position is taken by a key that belongs elsewhere.
LEMMA PlacedMoved ==
    ASSUME NEW t, SoundTable(t), NEW key \in Uint32, key \notin Keys(t),
           ~Words!IsNil(t, Words!mainposition(t, key)), Words!getfreenode(t) # -1,
           Words!mainposition(t, t.node[Words!mainposition(t, key)].key)
              # Words!mainposition(t, key)
    PROVE  Grows(t, Words!Placed(t, key), key)
<1> DEFINE mp == Words!mainposition(t, key)
           n1 == Words!getfreenode(t)
           c == t.capacity
           m == AsMap(t)
           pre == CHOOSE i \in DOMAIN t.node : t.node[i].next = mp
           m1 == MovedAway(m, pre, mp, n1, key)
           x == Words!Node(key, -1, "inner", 0)
           y == [t.node[pre] EXCEPT !.next = n1]
           z == t.node[mp]
           node1 == [t.node EXCEPT ![pre] = y, ![n1] = z, ![mp] = x]
           t1 == [t EXCEPT !.lastfree = n1, !.node = node1]
<1>1. Words!Placed(t, key) = [table |-> t1, at |-> mp]
  <2>1. Words!Placed(t, key) =
           [table |-> [Words!Moved(t, pre, mp, n1) EXCEPT !.node[mp] = x], at |-> mp]
    BY DEF Words!Placed
  <2>2. Words!Moved(t, pre, mp, n1) =
           [t EXCEPT !.lastfree = n1, !.node = [t.node EXCEPT ![pre] = y, ![n1] = z]]
    <3>1. [t.node EXCEPT ![pre].next = n1, ![n1] = z] = [t.node EXCEPT ![pre] = y, ![n1] = z]
      OBVIOUS
    <3> HIDE DEF pre, mp, n1
    <3> QED  BY <3>1 DEF Words!Moved
  <2>3. t \in Tables(c)
    BY SoundFacts
  <2> DEFINE q == Words!Moved(t, pre, mp, n1)
             nq == [t.node EXCEPT ![pre] = y, ![n1] = z]
  <2>4. [q EXCEPT !.node[mp] = x] = [q EXCEPT !.node = [q.node EXCEPT ![mp] = x]]
    OBVIOUS
  <2>5. node1 = [nq EXCEPT ![mp] = x]
    OBVIOUS
  <2>6. q = [t EXCEPT !.lastfree = n1, !.node = nq]
    BY <2>2
  <2> HIDE DEF q, nq, x, y, z, pre, mp, n1, node1
  <2>7. q.node = nq /\ [q EXCEPT !.node = node1] = t1
    <3>1. t = [capacity |-> t.capacity, lastfree |-> t.lastfree, node |-> t.node]
      BY <2>3 DEF Tables
    <3>2. q = [capacity |-> t.capacity, lastfree |-> n1, node |-> nq]
      BY <2>6, <3>1
    <3>3. t1 = [capacity |-> t.capacity, lastfree |-> n1, node |-> node1]
      <4>1. t1 = [t EXCEPT !.lastfree = n1, !.node = node1]
        OBVIOUS
      <4> HIDE DEF t1, c
      <4> QED  BY <3>1, <4>1
    <3>4. [q EXCEPT !.node = node1] = [capacity |-> t.capacity, lastfree |-> n1, node |-> node1]
      BY <3>2
    <3> QED  BY <3>2, <3>3, <3>4
  <2>8. [q EXCEPT !.node[mp] = x] = t1
    BY <2>4, <2>5, <2>7
  <2> QED  BY <2>1, <2>8 DEF q
<1>2. /\ t \in Tables(c) /\ c \in Nat /\ mp \in 0 .. c - 1 /\ DOMAIN t.node = 0 .. c - 1
      /\ t.node \in [0 .. c - 1 -> Nodes(c)]
      /\ t.node[mp] \in Nodes(c) /\ t.node[mp].flag # "empty"
      /\ IdMap!WellMade(m) /\ Ids(m) = Keys(t) /\ m.size = c
  BY SoundFacts, ImageFacts, TypedFacts DEF Words!IsNil
<1>3. /\ n1 = IdMap!FreeSlot(m) /\ mp = IdMap!mainposition(m, key)
      /\ mp \in IdMap!Used(m) /\ IdMap!Used(m) = TakenNodes(t)
  <2>1. mp \in TakenNodes(t)
    BY <1>2 DEF TakenNodes, Words!IsNil
  <2> QED  BY <2>1, SoundFacts
<1>4. Vacant(m) # {} /\ n1 \in Vacant(m) /\ \A s \in Vacant(m) : s <= n1
  BY <1>2, <1>3, Vacancy DEF IdMap!NIL
<1>5. n1 \in 0 .. c - 1 /\ n1 # mp /\ t.node[n1].flag = "empty" /\ n1 \notin TakenNodes(t)
  <2>1. n1 \in DOMAIN t.node /\ n1 \notin TakenNodes(t)
    BY <1>3, <1>4, SoundFacts
  <2> HIDE DEF n1
  <2> QED  BY <1>2, <1>3, <2>1, ImageOf
<1>6. IdMap!Home(m, mp) # mp
  <2>1. m.slot[mp].id = t.node[mp].key
    <3>1. ~Words!IsNil(t, mp)
      BY <1>2 DEF Words!IsNil
    <3> HIDE DEF mp, m
    <3>2. m.slot[mp].id = (IF Words!IsNil(t, mp) THEN IdMap!INVALID ELSE t.node[mp].key)
      BY <1>2, ImageFacts DEF m
    <3> QED  BY <3>1, <3>2
  <2>2. t.node[mp].key \in Uint32
    BY <1>2, SoundFacts
  <2> QED  BY <2>1, <2>2, SoundFacts DEF IdMap!Home
<1>7. pre = CHOOSE i \in DOMAIN m.slot : m.slot[i].next = mp
  <2> DEFINE A(i) == t.node[i].next = mp
             B(i) == m.slot[i].next = mp
             D == DOMAIN t.node
             E == DOMAIN m.slot
  <2>1. D = E /\ \A i \in D : A(i) <=> B(i)
    BY ImageFacts
  <2>2. pre = CHOOSE i \in D : A(i)
    OBVIOUS
  <2> DEFINE other == CHOOSE i \in DOMAIN m.slot : m.slot[i].next = mp
  <2>3. other = CHOOSE i \in E : B(i)
    OBVIOUS
  <2> HIDE DEF A, B, D, E, pre, other
  <2>4. (CHOOSE i \in D : A(i)) = (CHOOSE i \in E : B(i))
    BY <2>1
  <2>5. pre = other
    BY <2>2, <2>3, <2>4
  <2> QED  BY <2>5 DEF other
<1>8. OneMore(m, m1, key) /\ pre \in IdMap!Used(m) /\ pre # mp
  <2> HIDE DEF m, pre, m1, n1
  <2>1. LET s == IdMap!mainposition(m, key)
            last == CHOOSE i \in DOMAIN m.slot : m.slot[i].next = s
        IN  OneMore(m, MovedAway(m, last, s, n1, key), key)
            /\ last \in IdMap!Used(m) /\ last # s
    BY <1>2, <1>3, <1>4, <1>6, MovedGrows
  <2> QED  BY <1>3, <1>7, <2>1 DEF m1
<1> HIDE DEF pre
<1>9. pre \in TakenNodes(t) /\ pre \in 0 .. c - 1 /\ pre # n1
      /\ t.node[pre] \in Nodes(c) /\ t.node[pre].flag # "empty"
  <2>1. pre \in TakenNodes(t) /\ pre \in DOMAIN t.node
    BY <1>3, <1>8 DEF TakenNodes
  <2> HIDE DEF n1
  <2> QED  BY <1>2, <1>5, <2>1, ImageOf
<1>10. x.key = key /\ x.next = -1 /\ x.flag = "inner" /\ x.value = 0 /\ x \in Nodes(c)
  <2>1. -1 \in 0 .. c - 1 \cup {-1} /\ 0 \in Nat
    OBVIOUS
  <2> HIDE DEF c
  <2> QED  BY <1>2, <2>1, NodeMade DEF Flags
<1>11. y.key = t.node[pre].key /\ y.next = n1 /\ y.flag = t.node[pre].flag
      /\ y.value = t.node[pre].value /\ y \in Nodes(c)
  <2> HIDE DEF mp, n1
  <2> QED  BY <1>5, <1>9 DEF Nodes
<1>12. z \in Nodes(c) /\ z = t.node[mp]
  BY <1>2
<1> HIDE DEF x, y, z, c, mp, n1
<1>13. node1 \in [0 .. c - 1 -> Nodes(c)] /\ DOMAIN node1 = 0 .. c - 1
       /\ node1[pre] = y /\ node1[n1] = z /\ node1[mp] = x
       /\ \A i \in 0 .. c - 1 : i # mp /\ i # n1 /\ i # pre => node1[i] = t.node[i]
  <2> DEFINE g == [t.node EXCEPT ![pre] = y]
             k == [g EXCEPT ![n1] = z]
  <2>1. g \in [0 .. c - 1 -> Nodes(c)]
    BY <1>2, <1>9, <1>11
  <2>2. k \in [0 .. c - 1 -> Nodes(c)]
    <3> HIDE DEF g
    <3> QED  BY <1>5, <1>12, <2>1
  <2>3. node1 = [k EXCEPT ![mp] = x]
    OBVIOUS
  <2>4. node1 \in [0 .. c - 1 -> Nodes(c)]
    <3> HIDE DEF k, node1
    <3> QED  BY <1>2, <1>10, <2>2, <2>3
  <2> QED  BY <1>2, <1>5, <1>8, <1>9, <2>4
<1> HIDE DEF node1
<1>14. t1 \in Tables(c) /\ t1.node = node1 /\ t1.lastfree = n1 /\ t1.capacity = c
  <2>1. n1 \in Int
    BY <1>5
  <2> QED  BY <1>2, <1>13, <2>1 DEF Tables
<1> HIDE DEF t1
<1>15. m \in IdMap!Table(c)
  BY <1>2 DEF IdMap!WellMade
<1>16. /\ m1 \in IdMap!Table(c) /\ IdMap!WellMade(m1)
  <2> HIDE DEF m, m1
  <2> QED  BY <1>2, <1>8 DEF OneMore, IdMap!WellMade
<1>17. m1.lastfree = n1
       /\ m1.slot = [m.slot EXCEPT
                       ![pre] = [m.slot[pre] EXCEPT !.next = n1],
                       ![n1] = m.slot[mp],
                       ![mp] = [id |-> key, obj |-> TRUE, next |-> IdMap!NIL]]
  <2> DEFINE sl1 == [m.slot EXCEPT
                       ![pre] = [m.slot[pre] EXCEPT !.next = n1],
                       ![n1] = m.slot[mp],
                       ![mp] = [id |-> key, obj |-> TRUE, next |-> IdMap!NIL]]
  <2>1. m1 = [m EXCEPT !.lastfree = n1, !.slot = sl1]
    BY DEF MovedAway
  <2> HIDE DEF m, m1, sl1
  <2>2. m1.lastfree = n1 /\ m1.slot = sl1
    BY <1>15, <2>1 DEF IdMap!Table
  <2> QED  BY <2>2 DEF sl1
<1> HIDE DEF m1
<1>18. AsMap(t1) = m1
  <2>2. \A i \in 0 .. c - 1 : m.slot[i] = Image(t.node[i])
    BY <1>2, ImageOf
  <2>3. /\ m.slot \in [0 .. c - 1 -> IdMap!Slots(c)]
    BY <1>15 DEF IdMap!Table
  <2> HIDE DEF m
  <2>4. /\ m1.slot[pre] = [m.slot[pre] EXCEPT !.next = n1]
        /\ m1.slot[n1] = m.slot[mp]
        /\ m1.slot[mp] = [id |-> key, obj |-> TRUE, next |-> IdMap!NIL]
        /\ \A i \in 0 .. c - 1 : i # mp /\ i # n1 /\ i # pre => m1.slot[i] = m.slot[i]
    <3> DEFINE a == [m.slot[pre] EXCEPT !.next = n1]
               b == m.slot[mp]
               d == [id |-> key, obj |-> TRUE, next |-> IdMap!NIL]
    <3>1. m1.slot = [m.slot EXCEPT ![pre] = a, ![n1] = b, ![mp] = d]
      BY <1>17
    <3> HIDE DEF a, b, d
    <3>2. m1.slot[pre] = a /\ m1.slot[n1] = b /\ m1.slot[mp] = d
          /\ \A i \in 0 .. c - 1 : i # mp /\ i # n1 /\ i # pre => m1.slot[i] = m.slot[i]
      BY <1>2, <1>5, <1>8, <1>9, <2>3, <3>1
    <3> QED  BY <3>2 DEF a, b, d
  <2>5. m1.slot[pre] = Image(y)
    <3>1. m.slot[pre] = Image(t.node[pre])
      BY <1>9, <2>2
    <3>2. [Image(t.node[pre]) EXCEPT !.next = n1] = Image(y)
      BY <1>11 DEF Image
    <3> QED  BY <2>4, <3>1, <3>2
  <2>6. m1.slot[n1] = Image(z)
    BY <1>2, <1>12, <2>2, <2>4
  <2>8. m1.slot[mp] = Image(x)
    <3>2. Image(x) = [id |-> key, obj |-> (x.flag # "empty"), next |-> -1]
      BY <1>10 DEF Image
    <3>3. (x.flag # "empty") = TRUE
      BY <1>10
    <3> QED  BY <2>4, <3>2, <3>3 DEF IdMap!NIL
  <2>7. \A i \in 0 .. c - 1 : m1.slot[i] = Image(t1.node[i])
    BY <1>13, <1>14, <2>2, <2>4, <2>5, <2>6, <2>8
  <2> QED  BY <1>2, <1>14, <1>16, <1>17, <2>7, Matches
<1>19. SoundTable(t1)
  BY <1>14, <1>16, <1>18 DEF SoundTable
<1>20. TakenNodes(t1) = TakenNodes(t) \cup {n1}
  <2>1. \A i \in DOMAIN t.node : i \in TakenNodes(t) <=> t.node[i].flag # "empty"
    BY ImageOf
  <2>2. \A i \in DOMAIN t1.node : i \in TakenNodes(t1) <=> t1.node[i].flag # "empty"
    BY ImageOf
  <2>3. TakenNodes(t) \subseteq 0 .. c - 1 /\ TakenNodes(t1) \subseteq 0 .. c - 1
    BY <1>2, <1>13, <1>14 DEF TakenNodes
  <2>4. ASSUME NEW i \in 0 .. c - 1 PROVE i \in TakenNodes(t1) <=> i \in TakenNodes(t) \cup {n1}
    <3>1. i \in TakenNodes(t1) <=> node1[i].flag # "empty"
      BY <1>13, <1>14, <2>2
    <3>2. i \in TakenNodes(t) <=> t.node[i].flag # "empty"
      BY <1>2, <2>1
    <3> QED  BY <1>2, <1>5, <1>9, <1>10, <1>11, <1>12, <1>13, <3>1, <3>2
  <2> QED  BY <1>5, <2>3, <2>4
<1>21. /\ Says(t1, mp) = <<key, "inner", 0>> /\ Says(t1, n1) = Says(t, mp)
       /\ \A i \in TakenNodes(t) : i # mp => Says(t1, i) = Says(t, i)
  <2>1. Says(t1, mp) = <<key, "inner", 0>> /\ Says(t1, n1) = Says(t, mp)
    BY <1>10, <1>12, <1>13, <1>14 DEF Says
  <2>2. ASSUME NEW i \in TakenNodes(t), i # mp PROVE Says(t1, i) = Says(t, i)
    <3>1. i \in 0 .. c - 1 /\ i # n1
      BY <1>2, <1>5 DEF TakenNodes
    <3> QED  BY <1>11, <1>13, <1>14, <2>2, <3>1 DEF Says
  <2> QED  BY <2>1, <2>2
<1>22. mp \in TakenNodes(t) /\ n1 \notin TakenNodes(t) /\ n1 # mp
  BY <1>3, <1>5
<1>23. Holds(t1) = Holds(t) \cup {<<key, "inner", 0>>}
  <2>1. ASSUME NEW v \in Holds(t1) PROVE v \in Holds(t) \cup {<<key, "inner", 0>>}
    <3>1. PICK i \in TakenNodes(t1) : v = Says(t1, i)
      BY DEF Holds
    <3> QED  BY <1>20, <1>21, <1>22, <3>1 DEF Holds
  <2>2. ASSUME NEW v \in Holds(t) PROVE v \in Holds(t1)
    <3>1. PICK i \in TakenNodes(t) : v = Says(t, i)
      BY DEF Holds
    <3>2. CASE i = mp
      BY <1>20, <1>21, <3>1, <3>2 DEF Holds
    <3>3. CASE i # mp
      BY <1>20, <1>21, <3>1, <3>3 DEF Holds
    <3> QED  BY <3>2, <3>3
  <2>3. <<key, "inner", 0>> \in Holds(t1)
    BY <1>20, <1>21, <1>22 DEF Holds
  <2> QED  BY <2>1, <2>2, <2>3
<1>24. \E v : Vacant(m) \subseteq Vacant(AsMap(t1)) \cup {v}
  BY <1>8, <1>18 DEF OneMore
<1> QED  BY <1>1, <1>14, <1>19, <1>20, <1>21, <1>22, <1>23, <1>24 DEF Grows, c

LEMMA PlacedGrowsAll ==
    ASSUME NEW t, SoundTable(t), NEW key \in Uint32, key \notin Keys(t),
           Words!IsNil(t, Words!mainposition(t, key)) \/ Words!getfreenode(t) # -1
    PROVE  Grows(t, Words!Placed(t, key), key)
  BY PlacedFree, PlacedChained, PlacedMoved

\* A taken node is filled.
LEMMA FilledSound ==
    ASSUME NEW t, SoundTable(t), NEW i \in TakenNodes(t), NEW flag \in Flags \ {"empty"},
           NEW value \in Nat
    PROVE  LET t1 == Words!Filled(t, i, flag, value)
           IN  /\ SoundTable(t1) /\ t1.capacity = t.capacity
               /\ AsMap(t1) = AsMap(t) /\ TakenNodes(t1) = TakenNodes(t) /\ Keys(t1) = Keys(t)
               /\ Says(t1, i) = <<t.node[i].key, flag, value>>
               /\ \A j \in TakenNodes(t) : j # i => Says(t1, j) = Says(t, j)
<1> DEFINE x == Words!Node(t.node[i].key, t.node[i].next, flag, value)
           node1 == [t.node EXCEPT ![i] = x]
           t1 == [t EXCEPT !.node = node1]
           c == t.capacity
<1>1. Words!Filled(t, i, flag, value) = t1
  BY DEF Words!Filled
<1>2. /\ t \in Tables(c) /\ c \in Nat /\ i \in 0 .. c - 1 /\ DOMAIN t.node = 0 .. c - 1
      /\ t.node \in [0 .. c - 1 -> Nodes(c)]
      /\ t.node[i].key \in Uint32 /\ t.node[i].next \in 0 .. c - 1 \cup {-1}
      /\ t.node[i].flag # "empty"
      /\ IdMap!WellMade(AsMap(t)) /\ Keys(t) = Ids(AsMap(t)) /\ TakenNodes(t) \subseteq 0 .. c - 1
  BY SoundFacts, TypedFacts DEF Words!IsNil, TakenNodes
<1>3. x.key = t.node[i].key /\ x.next = t.node[i].next /\ x.flag = flag /\ x.value = value
      /\ x \in Nodes(c)
  <2> HIDE DEF c
  <2> QED  BY <1>2, NodeMade
<1> HIDE DEF x
<1>4. t1 \in Tables(c) /\ t1.node = node1 /\ t1.lastfree = t.lastfree /\ t1.capacity = c
      /\ DOMAIN node1 = 0 .. c - 1
  <2>1. node1 \in [0 .. c - 1 -> Nodes(c)] /\ DOMAIN node1 = 0 .. c - 1
    BY <1>2, <1>3
  <2> HIDE DEF node1, c
  <2> QED  BY <1>2, <2>1 DEF Tables
<1>5. node1[i] = x /\ \A j \in 0 .. c - 1 : j # i => node1[j] = t.node[j]
  BY <1>2
<1> HIDE DEF node1, t1
<1>6. AsMap(t1) = AsMap(t)
  <2>1. AsMap(t) \in IdMap!Table(c)
    BY <1>2, ImageFacts DEF IdMap!WellMade
  <2>2. AsMap(t).lastfree = t1.lastfree
    BY <1>4, ImageFacts
  <2>3. \A j \in 0 .. c - 1 : AsMap(t).slot[j] = Image(t.node[j])
    BY <1>2, ImageOf
  <2>4. Image(x) = Image(t.node[i])
    <3>1. (x.flag # "empty") = TRUE /\ (t.node[i].flag # "empty") = TRUE
      BY <1>2, <1>3
    <3> QED  BY <1>2, <1>3, <3>1 DEF Image
  <2>5. \A j \in 0 .. c - 1 : AsMap(t).slot[j] = Image(t1.node[j])
    BY <1>4, <1>5, <2>3, <2>4
  <2> HIDE DEF c
  <2> QED  BY <1>2, <1>4, <2>1, <2>2, <2>5, Matches
<1>7. SoundTable(t1)
  BY <1>2, <1>4, <1>6 DEF SoundTable
<1>8. TakenNodes(t1) = TakenNodes(t) /\ Keys(t1) = Keys(t)
  BY <1>6, <1>7, SoundFacts
<1>9. Says(t1, i) = <<t.node[i].key, flag, value>>
      /\ \A j \in TakenNodes(t) : j # i => Says(t1, j) = Says(t, j)
  BY <1>2, <1>3, <1>4, <1>5 DEF Says
<1> QED  BY <1>1, <1>4, <1>6, <1>7, <1>8, <1>9

-----------------------------------------------------------------------------
(* Loops: a recursion over a .. b whose states stay in sets Allowed[i].        *)

LEMMA IntervalInd ==
    ASSUME NEW a \in Int, NEW b \in Int, a <= b, NEW S, a \in S,
           \A i \in a + 1 .. b : i - 1 \in S => i \in S
    PROVE  a .. b \subseteq S
<1> DEFINE T == {k \in 0 .. b - a : a + k \in S}
<1>1. b - a \in Nat /\ 0 \in T
  OBVIOUS
<1>2. \A k \in 1 .. b - a : k - 1 \in T => k \in T
  <2> TAKE k \in 1 .. b - a
  <2> HAVE k - 1 \in T
  <2>1. a + k \in a + 1 .. b /\ (a + k) - 1 \in S
    <3>1. (a + k) - 1 = a + (k - 1)
      OBVIOUS
    <3> QED  BY <3>1
  <2> QED  BY <2>1
<1>3. 0 .. b - a \subseteq T
  <2> HIDE DEF T
  <2> QED  BY <1>1, <1>2, BoundedInd
<1> SUFFICES ASSUME NEW i \in a .. b PROVE i \in S
  OBVIOUS
<1>4. i - a \in T /\ a + (i - a) = i
  BY <1>3
<1> QED  BY <1>4

Runs(f, a, b, Allowed, base, step) ==
    /\ f = [i \in a .. b |-> f[i]]
    /\ f[a] = base
    /\ \A i \in a + 1 .. b : f[i - 1] \in Allowed[i - 1] /\ f[i] = step[<<i, f[i - 1]>>]

LEMMA LoopMade ==
    ASSUME NEW a \in Int, NEW b \in Int, a <= b, NEW Allowed, NEW base, NEW step,
           base \in Allowed[a],
           \A i \in a + 1 .. b : \A x \in Allowed[i - 1] : step[<<i, x>>] \in Allowed[i]
    PROVE  \E f : Runs(f, a, b, Allowed, base, step)
<1> DEFINE Run(f, k) == /\ f[a] = base
                        /\ \A i \in a + 1 .. k : /\ f[i - 1] \in Allowed[i - 1]
                                                 /\ f[i] = step[<<i, f[i - 1]>>]
                        /\ f[k] \in Allowed[k]
           T == {k \in a .. b : \E f : Run(f, k)}
<1>1. a \in T
  <2>1. Run([i \in {a} |-> base], a)
    OBVIOUS
  <2> QED  BY <2>1
<1>2. \A k \in a + 1 .. b : k - 1 \in T => k \in T
  <2> TAKE k \in a + 1 .. b
  <2> HAVE k - 1 \in T
  <2>1. PICK f : Run(f, k - 1)
    OBVIOUS
  <2> DEFINE g == [i \in a .. k |-> IF i = k THEN step[<<k, f[k - 1]>>] ELSE f[i]]
  <2>2. g[k] = step[<<k, f[k - 1]>>] /\ \A i \in a .. k - 1 : g[i] = f[i]
    OBVIOUS
  <2>3. g[k - 1] = f[k - 1] /\ g[a] = f[a]
    BY <2>2
  <2> HIDE DEF g
  <2>4. g[k] \in Allowed[k] /\ g[k - 1] \in Allowed[k - 1]
    BY <2>1, <2>2, <2>3
  <2>5. ASSUME NEW i \in a + 1 .. k
        PROVE  g[i - 1] \in Allowed[i - 1] /\ g[i] = step[<<i, g[i - 1]>>]
    <3>1. CASE i = k
      BY <2>2, <2>3, <2>4, <3>1
    <3>2. CASE i # k
      <4>1. i \in a + 1 .. k - 1 /\ i \in a .. k - 1 /\ i - 1 \in a .. k - 1
        BY <3>2
      <4>2. g[i] = f[i] /\ g[i - 1] = f[i - 1]
        BY <2>2, <4>1
      <4> QED  BY <2>1, <4>1, <4>2
    <3> QED  BY <3>1, <3>2
  <2>6. Run(g, k)
    BY <2>1, <2>3, <2>4, <2>5
  <2>7. k \in a .. b
    OBVIOUS
  <2> HIDE DEF Run
  <2> QED  BY <2>6, <2>7
<1>3. b \in T
  <2> HIDE DEF T
  <2>1. a .. b \subseteq T
    BY <1>1, <1>2, IntervalInd
  <2> QED  BY <2>1
<1>4. PICK f : Run(f, b)
  <2> HIDE DEF Run
  <2> QED  BY <1>3
<1> DEFINE g == [i \in a .. b |-> f[i]]
<1>5. \A i \in a .. b : g[i] = f[i]
  OBVIOUS
<1>6. g = [i \in a .. b |-> g[i]]
  OBVIOUS
<1> HIDE DEF g
<1>7. g[a] = base
  BY <1>4, <1>5
<1>8. ASSUME NEW i \in a + 1 .. b
      PROVE  g[i - 1] \in Allowed[i - 1] /\ g[i] = step[<<i, g[i - 1]>>]
  <2>1. i \in a .. b /\ i - 1 \in a .. b
    OBVIOUS
  <2>2. g[i] = f[i] /\ g[i - 1] = f[i - 1]
    BY <1>5, <2>1
  <2> QED  BY <1>4, <2>2
<1> QED  BY <1>6, <1>7, <1>8 DEF Runs

LEMMA LoopKeeps ==
    ASSUME NEW a \in Int, NEW b \in Int, a <= b, NEW Allowed, NEW f,
           f[a] \in Allowed[a],
           \A i \in a + 1 .. b : f[i - 1] \in Allowed[i - 1] => f[i] \in Allowed[i]
    PROVE  \A i \in a .. b : f[i] \in Allowed[i]
<1> DEFINE T == {i \in a .. b : f[i] \in Allowed[i]}
<1>1. a \in T
  OBVIOUS
<1>2. \A i \in a + 1 .. b : i - 1 \in T => i \in T
  <2> TAKE i \in a + 1 .. b
  <2> HAVE i - 1 \in T
  <2>1. i \in a .. b
    OBVIOUS
  <2> QED  BY <2>1
<1>3. a .. b \subseteq T
  <2> HIDE DEF T
  <2> QED  BY <1>1, <1>2, IntervalInd
<1> QED  BY <1>3

-----------------------------------------------------------------------------
(* What a table says, as a set.                                             *)

LEMMA KeysHold ==
    ASSUME NEW t, SoundTable(t)
    PROVE  /\ \A key : key \in Keys(t) <=> \E v \in Holds(t) : v[1] = key
           /\ \A v, w \in Holds(t) : v[1] = w[1] => v = w
           /\ \A i \in TakenNodes(t) : Says(t, i) \in Holds(t) /\ Says(t, i)[1] = t.node[i].key
           /\ \A v \in Holds(t) : /\ v \in Uint32 \X (Flags \ {"empty"}) \X Nat
                                  /\ v = <<v[1], v[2], v[3]>>
<1>1. \A i \in TakenNodes(t) : Says(t, i) \in Holds(t) /\ Says(t, i)[1] = t.node[i].key
  BY DEF Holds, Says
<1>2. \A v \in Holds(t) : \E i \in TakenNodes(t) : v = Says(t, i)
  BY DEF Holds
<1>3. \A i, j \in TakenNodes(t) : t.node[i].key = t.node[j].key => i = j
  BY SoundFacts
<1>4. \A key : key \in Keys(t) <=> \E i \in TakenNodes(t) : t.node[i].key = key
  BY DEF Keys
<1>5. \A v, w \in Holds(t) : v[1] = w[1] => v = w
  BY <1>1, <1>2, <1>3
<1>6. ASSUME NEW v \in Holds(t)
      PROVE  v \in Uint32 \X (Flags \ {"empty"}) \X Nat /\ v = <<v[1], v[2], v[3]>>
  <2>1. PICK i \in TakenNodes(t) : v = Says(t, i)
    BY <1>2
  <2>2. i \in DOMAIN t.node /\ t.node[i].flag # "empty"
    BY DEF TakenNodes, Words!IsNil
  <2>3. t.node[i].key \in Uint32 /\ t.node[i].flag \in Flags \ {"empty"} /\ t.node[i].value \in Nat
    BY <2>2, SoundFacts
  <2> QED  BY <2>1, <2>3 DEF Says
<1>7. \A key : key \in Keys(t) <=> \E v \in Holds(t) : v[1] = key
  BY <1>1, <1>2, <1>4
<1> QED  BY <1>1, <1>5, <1>6, <1>7

LEMMA FilledHolds ==
    ASSUME NEW t, SoundTable(t), NEW i \in TakenNodes(t), NEW flag \in Flags \ {"empty"},
           NEW value \in Nat
    PROVE  Holds(Words!Filled(t, i, flag, value)) =
              (Holds(t) \ {Says(t, i)}) \cup {<<t.node[i].key, flag, value>>}
<1> DEFINE t1 == Words!Filled(t, i, flag, value)
<1>1. /\ TakenNodes(t1) = TakenNodes(t) /\ Says(t1, i) = <<t.node[i].key, flag, value>>
      /\ \A j \in TakenNodes(t) : j # i => Says(t1, j) = Says(t, j)
  BY FilledSound
<1> HIDE DEF t1
<1>2. \A j \in TakenNodes(t) : Says(t, j) = Says(t, i) => j = i
  <2> TAKE j \in TakenNodes(t)
  <2> HAVE Says(t, j) = Says(t, i)
  <2>1. Says(t, j)[1] = t.node[j].key /\ Says(t, i)[1] = t.node[i].key
    BY KeysHold
  <2>2. t.node[j].key = t.node[i].key
    BY <2>1
  <2> QED  BY <2>2, SoundFacts
<1>3. ASSUME NEW v \in Holds(t1)
      PROVE  v \in (Holds(t) \ {Says(t, i)}) \cup {<<t.node[i].key, flag, value>>}
  <2>1. PICK j \in TakenNodes(t) : v = Says(t1, j)
    BY <1>1 DEF Holds
  <2>2. CASE j = i
    BY <1>1, <2>1, <2>2
  <2>3. CASE j # i
    BY <1>1, <1>2, <2>1, <2>3 DEF Holds
  <2> QED  BY <2>2, <2>3
<1>4. ASSUME NEW v \in Holds(t) \ {Says(t, i)} PROVE v \in Holds(t1)
  <2>1. PICK j \in TakenNodes(t) : v = Says(t, j)
    BY DEF Holds
  <2> QED  BY <1>1, <2>1 DEF Holds
<1>5. <<t.node[i].key, flag, value>> \in Holds(t1)
  BY <1>1 DEF Holds
<1>6. Holds(t1) = (Holds(t) \ {Says(t, i)}) \cup {<<t.node[i].key, flag, value>>}
  BY <1>3, <1>4, <1>5
<1> QED  BY <1>6 DEF t1

\* A new node that is filled at once.
LEMMA PlacedFilled ==
    ASSUME NEW t, SoundTable(t), NEW key \in Uint32, key \notin Keys(t),
           NEW flag \in Flags \ {"empty"}, NEW value \in Nat,
           Words!getfreenode(t) # -1
    PROVE  LET r == Words!Placed(t, key)
               u == Words!Filled(r.table, r.at, flag, value)
           IN  /\ SoundTable(u) /\ u.capacity = t.capacity
               /\ Holds(u) = Holds(t) \cup {<<key, flag, value>>}
               /\ \E x : Vacant(AsMap(t)) \subseteq Vacant(AsMap(u)) \cup {x}
<1> DEFINE r == Words!Placed(t, key)
           u == Words!Filled(r.table, r.at, flag, value)
<1>1. Grows(t, r, key)
  BY PlacedGrowsAll
<1> HIDE DEF r
<1>2. /\ SoundTable(r.table) /\ r.table.capacity = t.capacity
      /\ r.at \in TakenNodes(r.table) /\ Says(r.table, r.at) = <<key, "inner", 0>>
      /\ Holds(r.table) = Holds(t) \cup {<<key, "inner", 0>>}
      /\ \E x : Vacant(AsMap(t)) \subseteq Vacant(AsMap(r.table)) \cup {x}
  BY <1>1 DEF Grows
<1>3. /\ SoundTable(u) /\ u.capacity = r.table.capacity /\ AsMap(u) = AsMap(r.table)
  BY <1>2, FilledSound
<1>4. Holds(u) = (Holds(r.table) \ {Says(r.table, r.at)}) \cup {<<r.table.node[r.at].key, flag, value>>}
  BY <1>2, FilledHolds
<1>5. r.table.node[r.at].key = key
  BY <1>2 DEF Says
<1>6. <<key, "inner", 0>> \notin Holds(t)
  <2>1. ASSUME <<key, "inner", 0>> \in Holds(t) PROVE FALSE
    <3>1. <<key, "inner", 0>>[1] = key
      OBVIOUS
    <3> QED  BY <2>1, <3>1, KeysHold
  <2> QED  BY <2>1
<1> HIDE DEF u
<1> QED  BY <1>2, <1>3, <1>4, <1>5, <1>6 DEF u, r

-----------------------------------------------------------------------------
(* table_expand and table_insert.                                           *)

\* What the nodes below i say.
Said(t, i) == {Says(t, j) : j \in {k \in 0 .. i - 1 : ~Words!IsNil(t, k)}}

\* The larger table u after the nodes below i of t, and the room that is left in it.
Twice(t, u, i) ==
    /\ SoundTable(u) /\ u.capacity = 2 * t.capacity
    /\ Holds(u) = Said(t, i)
    /\ Cardinality(Vacant(AsMap(u))) >= 2 * t.capacity - i

\* What the loop of table_expand does with node i - 1.
Refilled(t, u, i) ==
    IF Words!IsNil(t, i - 1) THEN u
    ELSE LET r == Words!Placed(u, t.node[i - 1].key)
         IN  Words!Filled(r.table, r.at, t.node[i - 1].flag, t.node[i - 1].value)

LEMMA TwiceStarted ==
    ASSUME NEW t, SoundTable(t)
    PROVE  Twice(t, Words!Table(2 * t.capacity), 0)
<1> DEFINE k == 2 * t.capacity
           u == Words!Table(k)
<1>1. k \in Nat \ {0}
  BY SoundFacts
<1>2. SoundTable(u) /\ u.capacity = k /\ Holds(u) = {} /\ TakenNodes(u) = {}
  <2> HIDE DEF k
  <2> QED  BY <1>1, FreshTable
<1> HIDE DEF u
<1>3. Vacant(AsMap(u)) = 0 .. k - 1
  BY <1>2, SoundFacts
<1>4. Cardinality(Vacant(AsMap(u))) >= k - 0
  <2> HIDE DEF k
  <2>1. Cardinality(0 .. k - 1) = (k - 1) - 0 + 1
    BY <1>1, FS_Interval
  <2> QED  BY <1>1, <1>3, <2>1
<1>5. Said(t, 0) = {}
  BY DEF Said
<1> QED  BY <1>2, <1>4, <1>5 DEF Twice, u

LEMMA RefilledOn ==
    ASSUME NEW t, SoundTable(t), NEW i \in 1 .. t.capacity, NEW u, Twice(t, u, i - 1)
    PROVE  Twice(t, Refilled(t, u, i), i)
<1> DEFINE c == t.capacity
           node == t.node[i - 1]
<1>1. /\ c \in Nat \ {0} /\ i - 1 \in DOMAIN t.node /\ DOMAIN t.node = 0 .. c - 1
      /\ i \in Nat /\ i <= c /\ i - 1 \in 0 .. i - 1
  BY SoundFacts
<1>2. \A s \in 0 .. i - 1 : s = i - 1 \/ s \in 0 .. (i - 1) - 1
  OBVIOUS
<1>3. 0 .. (i - 1) - 1 \subseteq 0 .. i - 1 /\ i - 1 \in 0 .. i - 1
      /\ i - 1 \notin 0 .. (i - 1) - 1
  OBVIOUS
<1>4. /\ SoundTable(u) /\ u.capacity = 2 * c /\ Holds(u) = Said(t, i - 1)
      /\ Cardinality(Vacant(AsMap(u))) >= 2 * c - (i - 1)
      /\ Cardinality(Vacant(AsMap(u))) \in Nat
  <2>1. IdMap!WellMade(AsMap(u))
    BY SoundFacts DEF Twice
  <2> QED  BY <2>1, VacantFinite DEF Twice
<1>5. CASE Words!IsNil(t, i - 1)
  <2>1. {s \in 0 .. i - 1 : ~Words!IsNil(t, s)} = {s \in 0 .. (i - 1) - 1 : ~Words!IsNil(t, s)}
    BY <1>2, <1>3, <1>5
  <2>2. Said(t, i) = Said(t, i - 1)
    BY <2>1 DEF Said
  <2>3. Refilled(t, u, i) = u
    BY <1>5 DEF Refilled
  <2>4. Cardinality(Vacant(AsMap(u))) >= 2 * c - i
    BY <1>1, <1>4
  <2> HIDE DEF c
  <2> QED  BY <1>4, <2>2, <2>3, <2>4 DEF Twice, c
<1>6. CASE ~Words!IsNil(t, i - 1)
  <2>1. i - 1 \in TakenNodes(t)
    BY <1>1, <1>6 DEF TakenNodes
  <2>2. /\ node.key \in Uint32 /\ node.flag \in Flags \ {"empty"} /\ node.value \in Nat
    BY <1>1, <1>6, SoundFacts DEF Words!IsNil
  <2>3. Says(t, i - 1) = <<node.key, node.flag, node.value>>
    BY DEF Says
  <2> DEFINE r == Words!Placed(u, node.key)
             u1 == Words!Filled(r.table, r.at, node.flag, node.value)
  <2>4. Refilled(t, u, i) = u1
    BY <1>6 DEF Refilled
  <2>5. {s \in 0 .. i - 1 : ~Words!IsNil(t, s)} =
           {s \in 0 .. (i - 1) - 1 : ~Words!IsNil(t, s)} \cup {i - 1}
    BY <1>2, <1>3, <1>6
  <2>6. Said(t, i) = Said(t, i - 1) \cup {Says(t, i - 1)}
    BY <2>5 DEF Said
  <2>7. node.key \notin Keys(u)
    <3> SUFFICES ASSUME node.key \in Keys(u) PROVE FALSE
      OBVIOUS
    <3>1. PICK v \in Holds(u) : v[1] = node.key
      BY <1>4, KeysHold
    <3>2. PICK s \in 0 .. (i - 1) - 1 : ~Words!IsNil(t, s) /\ v = Says(t, s)
      BY <1>4 DEF Said
    <3>3. s \in DOMAIN t.node /\ s # i - 1
      BY <1>1
    <3>4. s \in TakenNodes(t) /\ t.node[s].key = node.key
      BY <3>1, <3>2, <3>3 DEF TakenNodes, Says
    <3> QED  BY <2>1, <3>3, <3>4, SoundFacts
  <2>8. Words!getfreenode(u) # -1
    <3>1. 2 * c - (i - 1) > 0
      BY <1>1
    <3>2. IdMap!WellMade(AsMap(u)) /\ Words!getfreenode(u) = IdMap!FreeSlot(AsMap(u))
      BY <1>4, SoundFacts
    <3>3. Cardinality(Vacant(AsMap(u))) > 0
      BY <1>1, <1>4, <3>1
    <3>4. Vacant(AsMap(u)) # {}
      BY <3>2, <3>3, VacantFinite
    <3>5. IdMap!FreeSlot(AsMap(u)) \in Vacant(AsMap(u))
      BY <3>2, <3>4, Vacancy
    <3>6. IdMap!FreeSlot(AsMap(u)) # IdMap!NIL
      BY <3>2, <3>5, TableFacts
    <3> QED  BY <3>2, <3>6 DEF IdMap!NIL
  <2> HIDE DEF node
  <2>9. /\ SoundTable(u1) /\ u1.capacity = u.capacity
        /\ Holds(u1) = Holds(u) \cup {<<node.key, node.flag, node.value>>}
        /\ \E x : Vacant(AsMap(u)) \subseteq Vacant(AsMap(u1)) \cup {x}
    BY <1>4, <2>2, <2>7, <2>8, PlacedFilled
  <2> HIDE DEF u1, c
  <2>10. Cardinality(Vacant(AsMap(u1))) >= 2 * c - i
    <3> DEFINE V == Vacant(AsMap(u))
               V1 == Vacant(AsMap(u1))
    <3>1. PICK x : V \subseteq V1 \cup {x}
      BY <2>9
    <3>2. IsFiniteSet(V1) /\ Cardinality(V1) \in Nat /\ Cardinality(V) \in Nat
      BY <1>4, <2>9, SoundFacts, VacantFinite
    <3> HIDE DEF V, V1
    <3>3. IsFiniteSet(V1 \cup {x})
          /\ Cardinality(V1 \cup {x}) <= Cardinality(V1) + 1
      <4>2. /\ IsFiniteSet(V1 \cup {x})
            /\ Cardinality(V1 \cup {x}) =
                  IF x \in V1 THEN Cardinality(V1) ELSE Cardinality(V1) + 1
        BY <3>2, FS_AddElement
      <4> QED  BY <3>2, <4>2
    <3>4. Cardinality(V) <= Cardinality(V1 \cup {x})
      BY <3>1, <3>3, FS_Subset
    <3>5. Cardinality(V1 \cup {x}) \in Nat
      BY <3>3, FS_CardinalityType
    <3>6. Cardinality(V) >= 2 * c - (i - 1)
      BY <1>4 DEF V
    <3>7. Cardinality(V1) >= 2 * c - i
      BY <1>1, <3>2, <3>3, <3>4, <3>5, <3>6
    <3> QED  BY <3>7 DEF V1
  <2> QED  BY <1>4, <2>3, <2>4, <2>6, <2>9, <2>10 DEF Twice, c
<1> QED  BY <1>5, <1>6

\* table_expand: a table with room that says the same.
LEMMA Expanded ==
    ASSUME NEW t, SoundTable(t)
    PROVE  LET u == Words!table_expand(t)
           IN  /\ SoundTable(u) /\ u.capacity = 2 * t.capacity /\ Holds(u) = Holds(t)
               /\ Words!getfreenode(u) # -1
<1> DEFINE c == t.capacity
           base == Words!Table(2 * c)
           body(f, i) ==
              IF i = 0 THEN base
              ELSE IF Words!IsNil(t, i - 1) THEN f[i - 1]
              ELSE LET r == Words!Placed(f[i - 1], t.node[i - 1].key)
                   IN  Words!Filled(r.table, r.at, t.node[i - 1].flag, t.node[i - 1].value)
           Is(f) == f = [i \in 0 .. c |-> body(f, i)]
           upto == CHOOSE f : Is(f)
           Allowed == [i \in 0 .. c |-> {u \in Tables(2 * c) : Twice(t, u, i)}]
           step == [z \in (1 .. c) \X Tables(2 * c) |-> Refilled(t, z[2], z[1])]
<1>1. c \in Nat \ {0} /\ DOMAIN t.node = 0 .. c - 1
  BY SoundFacts
<1>2. Words!table_expand(t) = upto[c]
  BY DEF Words!table_expand
<1>3. \A f : \A i \in 1 .. c : body(f, i) = Refilled(t, f[i - 1], i)
  BY DEF Refilled
<1>4. \A f : body(f, 0) = base
  OBVIOUS
<1>5. \A i \in 0 .. c : \A u : u \in Allowed[i] <=> Twice(t, u, i)
  <2>1. \A i : \A u : Twice(t, u, i) => u \in Tables(2 * c)
    BY DEF Twice, SoundTable
  <2> QED  BY <2>1
<1>6. base \in Allowed[0]
  <2>1. Twice(t, base, 0)
    BY TwiceStarted
  <2> QED  BY <1>1, <1>5, <2>1
<1>7. \A i \in 1 .. c : i \in 0 .. c /\ i - 1 \in 0 .. c
  BY <1>1
<1>8. \A i \in 1 .. c : \A u \in Allowed[i - 1] :
         step[<<i, u>>] = Refilled(t, u, i) /\ Refilled(t, u, i) \in Allowed[i]
  <2> SUFFICES ASSUME NEW i \in 1 .. c, NEW u \in Allowed[i - 1]
               PROVE  step[<<i, u>>] = Refilled(t, u, i) /\ Refilled(t, u, i) \in Allowed[i]
    OBVIOUS
  <2>1. Twice(t, u, i - 1) /\ u \in Tables(2 * c)
    BY <1>5, <1>7 DEF Twice, SoundTable
  <2>2. Twice(t, Refilled(t, u, i), i)
    BY <2>1, RefilledOn
  <2>3. step[<<i, u>>] = Refilled(t, u, i)
    <3>1. <<i, u>> \in (1 .. c) \X Tables(2 * c)
      BY <2>1
    <3> QED  BY <3>1
  <2> QED  BY <1>5, <1>7, <2>2, <2>3
<1> HIDE DEF Allowed, step, base, body, c
<1>9. \E f : Is(f)
  <2>0. PICK f : Runs(f, 0, c, Allowed, base, step)
    <3>1. 0 \in Int /\ c \in Int /\ 0 <= c /\ 0 + 1 = 1
      BY <1>1
    <3>2. \A i \in 0 + 1 .. c : \A x \in Allowed[i - 1] : step[<<i, x>>] \in Allowed[i]
      BY <1>8, <3>1
    <3> QED  BY <1>6, <3>1, <3>2, LoopMade
  <2>1. /\ f = [i \in 0 .. c |-> f[i]] /\ f[0] = base
        /\ \A i \in 0 + 1 .. c : f[i - 1] \in Allowed[i - 1] /\ f[i] = step[<<i, f[i - 1]>>]
    BY <2>0 DEF Runs
  <2>2. \A i \in 0 .. c : f[i] = body(f, i)
    <3> TAKE i \in 0 .. c
    <3>1. CASE i = 0
      BY <1>4, <2>1, <3>1
    <3>2. CASE i # 0
      <4>1. i \in 1 .. c /\ i \in 0 + 1 .. c
        BY <1>1, <3>2
      <4>2. f[i - 1] \in Allowed[i - 1] /\ f[i] = step[<<i, f[i - 1]>>]
        BY <2>1, <4>1
      <4>3. f[i] = Refilled(t, f[i - 1], i)
        BY <1>8, <4>1, <4>2
      <4>4. body(f, i) = Refilled(t, f[i - 1], i)
        BY <1>3, <4>1
      <4> QED  BY <4>3, <4>4
    <3> QED  BY <3>1, <3>2
  <2>3. Is(f)
    BY <2>1, <2>2
  <2> QED  BY <2>3
<1>10. Is(upto)
  <2> HIDE DEF Is
  <2> QED  BY <1>9
<1> HIDE DEF upto
<1>11. upto[0] = base /\ \A i \in 1 .. c : upto[i] = Refilled(t, upto[i - 1], i)
  <2>1. \A i \in 0 .. c : upto[i] = body(upto, i)
    BY <1>10
  <2>2. 0 \in 0 .. c
    BY <1>1
  <2>3. upto[0] = base
    BY <1>4, <2>1, <2>2
  <2>4. ASSUME NEW i \in 1 .. c PROVE upto[i] = Refilled(t, upto[i - 1], i)
    <3>1. upto[i] = body(upto, i)
      BY <1>7, <2>1
    <3>2. body(upto, i) = Refilled(t, upto[i - 1], i)
      BY <1>3
    <3> QED  BY <3>1, <3>2
  <2> QED  BY <2>3, <2>4
<1>12. \A i \in 0 .. c : upto[i] \in Allowed[i]
  <2>1. 0 \in Int /\ c \in Int /\ 0 <= c /\ 0 + 1 = 1
    BY <1>1
  <2>2. \A i \in 1 .. c : upto[i - 1] \in Allowed[i - 1] => upto[i] \in Allowed[i]
    BY <1>8, <1>11
  <2>3. upto[0] \in Allowed[0]
    BY <1>6, <1>11
  <2> QED  BY <2>1, <2>2, <2>3, LoopKeeps
<1> DEFINE u == upto[c]
<1>13. Twice(t, u, c)
  BY <1>1, <1>5, <1>12
<1> HIDE DEF u
<1>14. SoundTable(u) /\ u.capacity = 2 * c /\ Holds(u) = Said(t, c)
       /\ Cardinality(Vacant(AsMap(u))) >= 2 * c - c
  BY <1>13 DEF Twice, c
<1>15. Said(t, c) = Holds(t)
  BY <1>1 DEF Said, Holds, TakenNodes
<1>16. Words!getfreenode(u) # -1
  <2>1. IdMap!WellMade(AsMap(u)) /\ Words!getfreenode(u) = IdMap!FreeSlot(AsMap(u))
    BY <1>14, SoundFacts
  <2>2. Cardinality(Vacant(AsMap(u))) \in Nat
    BY <2>1, VacantFinite
  <2>3. Cardinality(Vacant(AsMap(u))) > 0
    BY <1>1, <1>14, <2>2
  <2>4. Vacant(AsMap(u)) # {}
    BY <2>1, <2>3, VacantFinite
  <2>5. IdMap!FreeSlot(AsMap(u)) # IdMap!NIL
    BY <2>1, <2>4, Vacancy, TableFacts
  <2> QED  BY <2>1, <2>5 DEF IdMap!NIL
<1> QED  BY <1>2, <1>14, <1>15, <1>16 DEF u, c

\* table_insert: the node of a key that the table has, or a new one.
LEMMA InsertedKey ==
    ASSUME NEW t, SoundTable(t), NEW key \in Uint32
    PROVE  LET r == Words!table_insert(t, key)
           IN  /\ SoundTable(r.table) /\ r.at \in TakenNodes(r.table)
               /\ r.table.node[r.at].key = key
               /\ key \in Keys(t) => r.table = t
               /\ key \notin Keys(t) => /\ Says(r.table, r.at) = <<key, "inner", 0>>
                                        /\ Holds(r.table) = Holds(t) \cup {<<key, "inner", 0>>}
<1> DEFINE r == Words!table_insert(t, key)
           i == Words!table_get(t, key)
<1>1. CASE key \in Keys(t)
  <2>1. i \in TakenNodes(t) /\ i >= 0 /\ t.node[i].key = key
    BY <1>1, Gets
  <2>2. r = [table |-> t, at |-> i]
    BY <2>1 DEF Words!table_insert
  <2> HIDE DEF r, i
  <2>3. r.table = t /\ r.at = i
    BY <2>2
  <2> QED  BY <1>1, <2>1, <2>3 DEF r
<1>2. CASE key \notin Keys(t)
  <2>1. i = -1
    BY <1>2, Gets
  <2>2. r = Words!table_newkey(t, key)
    BY <2>1 DEF Words!table_insert
  <2>3. \A u : Grows(u, r, key) /\ Holds(u) = Holds(t) =>
           /\ SoundTable(r.table) /\ r.at \in TakenNodes(r.table)
           /\ r.table.node[r.at].key = key
           /\ Says(r.table, r.at) = <<key, "inner", 0>>
           /\ Holds(r.table) = Holds(t) \cup {<<key, "inner", 0>>}
    <3> HIDE DEF r
    <3> QED  BY DEF Grows, Says
  <2>4. CASE Words!IsNil(t, Words!mainposition(t, key)) \/ Words!getfreenode(t) # -1
    <3>1. r = Words!Placed(t, key)
      BY <2>2, <2>4 DEF Words!table_newkey
    <3>2. Grows(t, r, key)
      BY <1>2, <2>4, <3>1, PlacedGrowsAll
    <3> HIDE DEF r
    <3> QED  BY <1>2, <2>3, <3>2 DEF r
  <2>5. CASE ~(Words!IsNil(t, Words!mainposition(t, key)) \/ Words!getfreenode(t) # -1)
    <3> DEFINE u == Words!table_expand(t)
    <3>1. r = Words!Placed(u, key)
      BY <2>2, <2>5 DEF Words!table_newkey
    <3>2. SoundTable(u) /\ Holds(u) = Holds(t) /\ Words!getfreenode(u) # -1
      BY Expanded
    <3> HIDE DEF u
    <3>3. key \notin Keys(u)
      BY <1>2, <3>2, KeysHold
    <3>4. Grows(u, r, key)
      BY <3>1, <3>2, <3>3, PlacedGrowsAll
    <3> HIDE DEF r
    <3> QED  BY <1>2, <2>3, <3>2, <3>4 DEF r
  <2> QED  BY <2>4, <2>5
<1> QED  BY <1>1, <1>2

-----------------------------------------------------------------------------
(* Sequences.                                                               *)

LEMMA Appended ==
    ASSUME NEW S, NEW s \in Seq(S), NEW x \in S
    PROVE  /\ Append(s, x) \in Seq(S) /\ Len(Append(s, x)) = Len(s) + 1 /\ Len(s) \in Nat
           /\ \A i \in 1 .. Len(s) : Append(s, x)[i] = s[i]
           /\ Append(s, x)[Len(s) + 1] = x
           /\ Append(s, x) # <<>>
  OBVIOUS

LEMMA Replaced ==
    ASSUME NEW S, NEW s \in Seq(S), NEW d \in 1 .. Len(s), NEW x \in S
    PROVE  LET s1 == [s EXCEPT ![d] = x]
           IN  /\ s1 \in Seq(S) /\ Len(s1) = Len(s) /\ s1[d] = x
               /\ \A i \in 1 .. Len(s) : i # d => s1[i] = s[i]
  OBVIOUS

LEMMA SameSeq ==
    ASSUME NEW S, NEW s \in Seq(S), NEW t \in Seq(S), Len(s) = Len(t),
           \A i \in 1 .. Len(s) : s[i] = t[i]
    PROVE  s = t
  OBVIOUS

LEMMA AppendOnce ==
    ASSUME NEW S, NEW s \in Seq(S), NEW t \in Seq(S), NEW x \in S, NEW y \in S,
           Append(s, x) = Append(t, y)
    PROVE  s = t /\ x = y
<1>1. Len(s) = Len(t) /\ x = y
  BY Appended
<1>2. \A i \in 1 .. Len(s) : s[i] = t[i]
  BY <1>1, Appended
<1> QED  BY <1>1, <1>2, SameSeq

\* The first k elements.
LEMMA Front ==
    ASSUME NEW S, NEW s \in Seq(S), NEW a \in 1 .. Len(s), NEW k \in a - 1 .. Len(s)
    PROVE  /\ SubSeq(s, a, k) \in Seq(S) /\ Len(SubSeq(s, a, k)) = k - a + 1
           /\ \A i \in 1 .. k - a + 1 : SubSeq(s, a, k)[i] = s[a + i - 1]
           /\ k = a - 1 => SubSeq(s, a, k) = <<>>
           /\ k >= a => SubSeq(s, a, k) = Append(SubSeq(s, a, k - 1), s[k])
<1>0. s \in [1 .. Len(s) -> S] /\ Len(s) \in Nat
  OBVIOUS
<1>1. ASSUME NEW j \in a - 1 .. Len(s)
      PROVE  /\ SubSeq(s, a, j) \in Seq(S) /\ Len(SubSeq(s, a, j)) = j - a + 1
             /\ \A i \in 1 .. j - a + 1 : SubSeq(s, a, j)[i] = s[a + i - 1]
  <2>1. \A i \in a .. j : i \in 1 .. Len(s)
    OBVIOUS
  <2>2. \A i \in 1 .. j - a + 1 : a + i - 1 \in 1 .. Len(s)
    BY <1>0
  <2> QED  BY <1>0, <2>1, <2>2
<1>2. k = a - 1 => SubSeq(s, a, k) = <<>>
  OBVIOUS
<1>3. ASSUME k >= a PROVE SubSeq(s, a, k) = Append(SubSeq(s, a, k - 1), s[k])
  <2> DEFINE u == SubSeq(s, a, k)
             v == SubSeq(s, a, k - 1)
             w == Append(v, s[k])
  <2>1. k - 1 \in a - 1 .. Len(s) /\ k \in 1 .. Len(s) /\ s[k] \in S
    BY <1>0, <1>3
  <2>2. /\ u \in Seq(S) /\ Len(u) = k - a + 1
        /\ \A i \in 1 .. k - a + 1 : u[i] = s[a + i - 1]
    BY <1>1
  <2>3. /\ v \in Seq(S) /\ Len(v) = (k - 1) - a + 1
        /\ \A i \in 1 .. (k - 1) - a + 1 : v[i] = s[a + i - 1]
    BY <1>1, <2>1
  <2> HIDE DEF u, v
  <2>4. w \in Seq(S) /\ Len(w) = Len(v) + 1 /\ w[Len(v) + 1] = s[k]
        /\ \A i \in 1 .. Len(v) : w[i] = v[i]
    <3> DEFINE x == s[k]
    <3>1. v \in Seq(S) /\ x \in S
      BY <2>1, <2>3
    <3> HIDE DEF x
    <3>2. Append(v, x) \in Seq(S) /\ Len(Append(v, x)) = Len(v) + 1
          /\ Append(v, x)[Len(v) + 1] = x /\ \A i \in 1 .. Len(v) : Append(v, x)[i] = v[i]
      BY <3>1, Appended
    <3> QED  BY <3>2 DEF x
  <2> HIDE DEF w
  <2>5. Len(w) = Len(u)
    BY <2>2, <2>3, <2>4
  <2>6. \A i \in 1 .. Len(u) : w[i] = u[i]
    <3> TAKE i \in 1 .. Len(u)
    <3>1. CASE i = Len(u)
      <4>1. i = Len(v) + 1 /\ a + i - 1 = k
        BY <1>0, <2>2, <2>3, <3>1
      <4> QED  BY <2>2, <2>4, <4>1
    <3>2. CASE i # Len(u)
      <4>1. i \in 1 .. Len(v) /\ i \in 1 .. (k - 1) - a + 1 /\ i \in 1 .. k - a + 1
        BY <1>0, <2>2, <2>3, <3>2
      <4> QED  BY <2>2, <2>3, <2>4, <4>1
    <3> QED  BY <3>1, <3>2
  <2>7. u = w
    BY <2>2, <2>4, <2>5, <2>6, SameSeq
  <2> QED  BY <2>7 DEF u, v, w
<1> QED  BY <1>1, <1>2, <1>3

LEMMA Fronts ==
    ASSUME NEW S, NEW s \in Seq(S), NEW k \in 0 .. Len(s)
    PROVE  /\ SubSeq(s, 1, k) \in Seq(S) /\ Len(SubSeq(s, 1, k)) = k
           /\ \A i \in 1 .. k : SubSeq(s, 1, k)[i] = s[i]
           /\ k = 0 => SubSeq(s, 1, k) = <<>>
           /\ k >= 1 => SubSeq(s, 1, k) = Append(SubSeq(s, 1, k - 1), s[k])
           /\ k = Len(s) => SubSeq(s, 1, k) = s
<1>1. CASE s = <<>>
  BY <1>1
<1>2. CASE s # <<>>
  <2>1. 1 \in 1 .. Len(s) /\ k \in 1 - 1 .. Len(s) /\ k - 1 + 1 = k /\ 1 - 1 = 0
        /\ \A i \in Nat : 1 + i - 1 = i
    BY <1>2
  <2>2. /\ SubSeq(s, 1, k) \in Seq(S) /\ Len(SubSeq(s, 1, k)) = k
        /\ \A i \in 1 .. k : SubSeq(s, 1, k)[i] = s[i]
        /\ k = 0 => SubSeq(s, 1, k) = <<>>
        /\ k >= 1 => SubSeq(s, 1, k) = Append(SubSeq(s, 1, k - 1), s[k])
    <3>1. /\ SubSeq(s, 1, k) \in Seq(S) /\ Len(SubSeq(s, 1, k)) = k - 1 + 1
          /\ \A i \in 1 .. k - 1 + 1 : SubSeq(s, 1, k)[i] = s[1 + i - 1]
          /\ k = 1 - 1 => SubSeq(s, 1, k) = <<>>
          /\ k >= 1 => SubSeq(s, 1, k) = Append(SubSeq(s, 1, k - 1), s[k])
      BY <2>1, Front
    <3> QED  BY <2>1, <3>1
  <2>3. k = Len(s) => SubSeq(s, 1, k) = s
    BY <2>2, SameSeq
  <2> QED  BY <2>2, <2>3
<1> QED  BY <1>1, <1>2

-----------------------------------------------------------------------------
(* The trie: table d stands for the runes path[d] on the way to it.         *)

AllTables == UNION {Tables(c) : c \in Nat}

\* There is a node for the runes p.
Entry(h, path, p) == \E d \in 1 .. Len(h) : \E key \in Keys(h[d]) : p = Append(path[d], key)

\* All nodes are kept.
Keeps(h, path, h1, path1) == \A p : Entry(h, path, p) => Entry(h1, path1, p)

\* Table d of h is replaced by t.
Updated(h, d, t, h1) == h1 = [h EXCEPT ![d] = t]

\* What a node of table d says of the words and of the k tables.
Right(k, path, W, d, v) ==
    LET p == Append(path[d], v[1])
    IN  /\ v[2] = "end" <=> p \in W
        /\ v[3] = 0 => \A e \in 1 .. k : path[e] # p
        /\ v[3] # 0 => v[3] \in 1 .. k /\ path[v[3]] = p

Trie(h, path, W) ==
    /\ h \in Seq(AllTables) /\ Len(h) >= 1
    /\ path \in [1 .. Len(h) -> Seq(Uint32)] /\ path[1] = <<>>
    /\ W \subseteq Seq(Uint32) \ {<<>>}
    /\ \A d \in 1 .. Len(h) : SoundTable(h[d])
    /\ \A d, e \in 1 .. Len(h) : path[d] = path[e] => d = e
    /\ \A d \in 1 .. Len(h) : \A v \in Holds(h[d]) : Right(Len(h), path, W, d, v)
    /\ \A e \in 2 .. Len(h) : Entry(h, path, path[e])
    /\ \A w \in W : \A k \in 1 .. Len(w) : Entry(h, path, SubSeq(w, 1, k))

LEMMA SoundTyped ==
    ASSUME NEW t, SoundTable(t)
    PROVE  t \in AllTables /\ Keys(t) \subseteq Uint32
<1>1. t \in Tables(t.capacity) /\ t.capacity \in Nat
  BY SoundFacts
<1>2. Keys(t) \subseteq Uint32
  BY SoundFacts DEF Keys, TakenNodes
<1> QED  BY <1>1, <1>2 DEF AllTables

\* There is a node for Append(path[d], key) if table d has the key, and only then.
LEMMA EntryIs ==
    ASSUME NEW h, NEW path, NEW W, Trie(h, path, W), NEW d \in 1 .. Len(h), NEW key \in Uint32
    PROVE  Entry(h, path, Append(path[d], key)) <=> key \in Keys(h[d])
<1>1. ASSUME Entry(h, path, Append(path[d], key)) PROVE key \in Keys(h[d])
  <2>1. PICK e \in 1 .. Len(h) : \E other \in Keys(h[e]) :
           Append(path[d], key) = Append(path[e], other)
    BY <1>1 DEF Entry
  <2>2. PICK other \in Keys(h[e]) : Append(path[d], key) = Append(path[e], other)
    BY <2>1
  <2>3. other \in Uint32 /\ path[d] \in Seq(Uint32) /\ path[e] \in Seq(Uint32)
    BY SoundTyped DEF Trie
  <2>4. path[d] = path[e] /\ key = other
    BY <2>2, <2>3, AppendOnce
  <2>5. d = e
    BY <2>4 DEF Trie
  <2> QED  BY <2>4, <2>5
<1> QED  BY <1>1 DEF Entry

\* A word has a node.
LEMMA WordEntry ==
    ASSUME NEW h, NEW path, NEW W, Trie(h, path, W), NEW w \in W
    PROVE  Entry(h, path, w)
<1>1. w \in Seq(Uint32) /\ w # <<>>
  BY DEF Trie
<1>2. Len(w) \in 1 .. Len(w) /\ Len(w) \in 0 .. Len(w)
  BY <1>1
<1>3. SubSeq(w, 1, Len(w)) = w
  BY <1>1, <1>2, Fronts
<1>4. Entry(h, path, SubSeq(w, 1, Len(w)))
  BY <1>2 DEF Trie
<1> QED  BY <1>3, <1>4

\* A new key.
LEMMA TrieKeyed ==
    ASSUME NEW h, NEW path, NEW W, Trie(h, path, W), NEW d \in 1 .. Len(h), NEW key \in Uint32,
           key \notin Keys(h[d]), NEW t, SoundTable(t),
           Holds(t) = Holds(h[d]) \cup {<<key, "inner", 0>>},
           NEW h1, Updated(h, d, t, h1)
    PROVE  /\ Trie(h1, path, W) /\ Len(h1) = Len(h) /\ h1[d] = t
           /\ Keeps(h, path, h1, path)
<1> DEFINE x == <<key, "inner", 0>>
           p == Append(path[d], key)
<1>1. /\ h \in Seq(AllTables) /\ Len(h) >= 1
      /\ path \in [1 .. Len(h) -> Seq(Uint32)] /\ path[1] = <<>>
      /\ \A e \in 1 .. Len(h) : SoundTable(h[e]) /\ path[e] \in Seq(Uint32)
  BY DEF Trie
<1>2. h1 \in Seq(AllTables) /\ Len(h1) = Len(h) /\ h1[d] = t
      /\ \A e \in 1 .. Len(h) : e # d => h1[e] = h[e]
  BY <1>1, SoundTyped, Replaced DEF Updated
<1>3. \A e \in 1 .. Len(h) : SoundTable(h1[e]) /\ Keys(h[e]) \subseteq Keys(h1[e])
  <2>1. Keys(h[d]) \subseteq Keys(t)
    <3> SUFFICES ASSUME NEW k \in Keys(h[d]) PROVE k \in Keys(t)
      OBVIOUS
    <3>1. \E v \in Holds(h[d]) : v[1] = k
      BY <1>1, KeysHold
    <3> QED  BY <3>1, KeysHold
  <2> QED  BY <1>1, <1>2, <2>1
<1>4. ASSUME NEW q, Entry(h, path, q) PROVE Entry(h1, path, q)
  BY <1>2, <1>3, <1>4 DEF Entry
<1>5. ~Entry(h, path, p)
  BY EntryIs
<1>6. p \notin W
  BY <1>5, WordEntry
<1>7. \A e \in 1 .. Len(h) : path[e] # p
  <2> TAKE e \in 1 .. Len(h)
  <2>0. path[d] \in Seq(Uint32)
    BY <1>1
  <2>1. p # <<>>
    BY <2>0, Appended
  <2>2. CASE e = 1
    BY <1>1, <2>1, <2>2
  <2>3. CASE e # 1
    <3>1. e \in 2 .. Len(h)
      BY <2>3
    <3>2. Entry(h, path, path[e])
      BY <3>1 DEF Trie
    <3> QED  BY <1>5, <3>2
  <2> QED  BY <2>2, <2>3
<1>8. ASSUME NEW e \in 1 .. Len(h1), NEW v \in Holds(h1[e])
      PROVE  Right(Len(h1), path, W, e, v)
  <2>1. CASE v \in Holds(h[e])
    BY <1>2, <2>1 DEF Trie
  <2>2. CASE v \notin Holds(h[e])
    <3>1. e = d /\ v = x
      BY <1>2, <2>2
    <3>2. v[1] = key /\ v[2] = "inner" /\ v[3] = 0
      BY <3>1
    <3> QED  BY <1>2, <1>6, <1>7, <3>1, <3>2 DEF Right
  <2> QED  BY <2>1, <2>2
<1>9. \A e \in 2 .. Len(h1) : Entry(h1, path, path[e])
  BY <1>2, <1>4 DEF Trie
<1>10. \A w \in W : \A k \in 1 .. Len(w) : Entry(h1, path, SubSeq(w, 1, k))
  BY <1>4 DEF Trie
<1>11. W \subseteq Seq(Uint32) \ {<<>>}
       /\ \A e, f \in 1 .. Len(h1) : path[e] = path[f] => e = f
  BY <1>2 DEF Trie
<1>12. Trie(h1, path, W)
  BY <1>1, <1>2, <1>3, <1>8, <1>9, <1>10, <1>11 DEF Trie
<1>13. Keeps(h, path, h1, path)
  BY <1>4 DEF Keeps
<1> QED  BY <1>2, <1>12, <1>13

\* A node's flag is set: its runes are a word.
LEMMA TrieMarked ==
    ASSUME NEW h, NEW path, NEW W, Trie(h, path, W), NEW d \in 1 .. Len(h),
           NEW i \in TakenNodes(h[d]),
           \A k \in 1 .. Len(path[d]) : Entry(h, path, SubSeq(path[d], 1, k))
    PROVE  Trie([h EXCEPT ![d] = Words!Filled(h[d], i, "end", h[d].node[i].value)], path,
                W \cup {Append(path[d], h[d].node[i].key)})
<1> DEFINE key == h[d].node[i].key
           value == h[d].node[i].value
           t == Words!Filled(h[d], i, "end", value)
           h1 == [h EXCEPT ![d] = t]
           x == <<key, "end", value>>
           p == Append(path[d], key)
           W1 == W \cup {p}
<1>1. /\ h \in Seq(AllTables) /\ Len(h) >= 1
      /\ path \in [1 .. Len(h) -> Seq(Uint32)] /\ path[1] = <<>>
      /\ \A e \in 1 .. Len(h) : SoundTable(h[e]) /\ path[e] \in Seq(Uint32)
  BY DEF Trie
<1>2. key \in Uint32 /\ value \in Nat /\ key \in Keys(h[d])
  BY <1>1, SoundFacts DEF TakenNodes, Keys
<1>3. "end" \in Flags \ {"empty"}
  BY DEF Flags
<1>4. SoundTable(t) /\ Keys(t) = Keys(h[d]) /\ Holds(t) = (Holds(h[d]) \ {Says(h[d], i)}) \cup {x}
  <2> DEFINE tab == h[d]
  <2>1. SoundTable(tab) /\ i \in TakenNodes(tab)
    BY <1>1
  <2>2. key = tab.node[i].key /\ t = Words!Filled(tab, i, "end", value)
    OBVIOUS
  <2> HIDE DEF value, tab, key, t
  <2>3. SoundTable(t) /\ Keys(t) = Keys(tab)
    BY <1>2, <1>3, <2>1, <2>2, FilledSound
  <2>4. Holds(t) = (Holds(tab) \ {Says(tab, i)}) \cup {x}
    BY <1>2, <1>3, <2>1, <2>2, FilledHolds
  <2> QED  BY <2>3, <2>4 DEF tab
<1> HIDE DEF t
<1>5. h1 \in Seq(AllTables) /\ Len(h1) = Len(h) /\ h1[d] = t
      /\ \A e \in 1 .. Len(h) : e # d => h1[e] = h[e]
  BY <1>1, <1>4, SoundTyped, Replaced
<1> HIDE DEF h1
<1>6. \A e \in 1 .. Len(h) : SoundTable(h1[e]) /\ Keys(h1[e]) = Keys(h[e])
  BY <1>1, <1>4, <1>5
<1>7. \A q : Entry(h1, path, q) <=> Entry(h, path, q)
  BY <1>5, <1>6 DEF Entry
<1>8. p \in Seq(Uint32) /\ p # <<>> /\ Len(p) = Len(path[d]) + 1 /\ Len(path[d]) \in Nat
  BY <1>1, <1>2, Appended
<1>9. Says(h[d], i) \in Holds(h[d]) /\ Says(h[d], i) = <<key, h[d].node[i].flag, value>>
  BY <1>1, KeysHold DEF Says
<1> HIDE DEF key, value
<1>10. ASSUME NEW e \in 1 .. Len(h), NEW k \in Uint32, Append(path[e], k) = p
       PROVE  e = d /\ k = key
  <2>0. path[e] \in Seq(Uint32) /\ path[d] \in Seq(Uint32) /\ key \in Uint32
        /\ Append(path[e], k) = Append(path[d], key)
    BY <1>1, <1>2, <1>10
  <2> DEFINE a == path[e]
             b == path[d]
  <2>1. a = b /\ k = key
    <3> HIDE DEF a, b
    <3>1. a \in Seq(Uint32) /\ b \in Seq(Uint32) /\ Append(a, k) = Append(b, key)
      BY <2>0 DEF a, b
    <3>2. key \in Uint32
      BY <2>0
    <3> QED  BY <3>1, <3>2, AppendOnce
  <2> QED  BY <2>1 DEF Trie
<1>11. ASSUME NEW e \in 1 .. Len(h1), NEW v \in Holds(h1[e])
       PROVE  Right(Len(h1), path, W1, e, v)
  <2>0. SoundTable(h1[e]) /\ e \in 1 .. Len(h)
    BY <1>5, <1>6
  <2>1. v[1] \in Uint32
    <3>1. v \in Uint32 \X (Flags \ {"empty"}) \X Nat
      BY <2>0, KeysHold
    <3> QED  BY <3>1
  <2>2. CASE e = d /\ v = x
    <3>1. v[1] = key /\ v[2] = "end" /\ v[3] = value
      BY <2>2
    <3>2. Right(Len(h), path, W, d, Says(h[d], i))
      BY <1>9 DEF Trie
    <3>3. Says(h[d], i)[1] = key /\ Says(h[d], i)[3] = value
      BY <1>9
    <3> QED  BY <1>5, <2>2, <3>1, <3>2, <3>3 DEF Right
  <2>3. CASE ~(e = d /\ v = x)
    <3>1. v \in Holds(h[e]) /\ (e = d => v # Says(h[d], i))
      BY <1>4, <1>5, <2>0, <2>3
    <3>2. Append(path[e], v[1]) # p
      <4> SUFFICES ASSUME Append(path[e], v[1]) = p PROVE FALSE
        OBVIOUS
      <4>1. e = d /\ v[1] = key
        BY <1>10, <2>0, <2>1
      <4>2. Says(h[d], i)[1] = key
        BY <1>9
      <4>3. v = Says(h[d], i)
        BY <1>1, <1>9, <3>1, <4>1, <4>2, KeysHold
      <4> QED  BY <3>1, <4>1, <4>3
    <3>3. Right(Len(h), path, W, e, v)
      BY <2>0, <3>1 DEF Trie
    <3> QED  BY <1>5, <3>2, <3>3 DEF Right
  <2> QED  BY <2>2, <2>3
<1>12. \A e \in 2 .. Len(h1) : Entry(h1, path, path[e])
  BY <1>5, <1>7 DEF Trie
<1>13. \A w \in W1 : \A k \in 1 .. Len(w) : Entry(h1, path, SubSeq(w, 1, k))
  <2>1. ASSUME NEW k \in 1 .. Len(p) PROVE Entry(h, path, SubSeq(p, 1, k))
    <3>1. CASE k = Len(p)
      <4>1. SubSeq(p, 1, k) = p
        BY <1>8, <3>1, Fronts
      <4>2. Entry(h, path, p)
        BY <1>2, EntryIs
      <4> QED  BY <4>1, <4>2
    <3>2. CASE k # Len(p)
      <4>1. k \in 1 .. Len(path[d]) /\ k \in 0 .. Len(path[d]) /\ k \in 0 .. Len(p)
        BY <1>8, <3>2
      <4> DEFINE u == SubSeq(p, 1, k)
                 v == SubSeq(path[d], 1, k)
      <4>2. u \in Seq(Uint32) /\ Len(u) = k /\ \A j \in 1 .. k : u[j] = p[j]
        BY <1>8, <4>1, Fronts
      <4>3. v \in Seq(Uint32) /\ Len(v) = k /\ \A j \in 1 .. k : v[j] = path[d][j]
        BY <1>1, <4>1, Fronts
      <4>4. \A j \in 1 .. k : p[j] = path[d][j]
        BY <1>1, <1>2, <4>1, Appended
      <4> HIDE DEF u, v
      <4>5. u = v
        BY <4>2, <4>3, <4>4, SameSeq
      <4> QED  BY <4>1, <4>5 DEF u, v
    <3> QED  BY <3>1, <3>2
  <2>2. \A w \in W : \A k \in 1 .. Len(w) : Entry(h, path, SubSeq(w, 1, k))
    BY DEF Trie
  <2> QED  BY <1>7, <2>1, <2>2
<1>14. W1 \subseteq Seq(Uint32) \ {<<>>}
       /\ \A e, f \in 1 .. Len(h1) : path[e] = path[f] => e = f
  BY <1>5, <1>8 DEF Trie
<1>15. Trie(h1, path, W1)
  BY <1>1, <1>5, <1>6, <1>11, <1>12, <1>13, <1>14 DEF Trie
<1> QED  BY <1>15 DEF h1, t, key, value

\* An empty table, the last of h2, is linked to node i of table d of h.
Linked(h, path, d, i, h2, path2) ==
    LET new == Len(h) + 1
    IN  /\ h2 = Append([h EXCEPT ![d] = Words!Filled(h[d], i, h[d].node[i].flag, new)],
                       Words!Table(1))
        /\ path2 = [e \in 1 .. new |-> IF e = new THEN Append(path[d], h[d].node[i].key)
                                       ELSE path[e]]

LEMMA TrieLinked ==
    ASSUME NEW h, NEW path, NEW W, Trie(h, path, W), NEW d \in 1 .. Len(h),
           NEW i \in TakenNodes(h[d]), h[d].node[i].value = 0,
           NEW h2, NEW path2, Linked(h, path, d, i, h2, path2)
    PROVE  /\ Trie(h2, path2, W) /\ Len(h) + 1 \in 1 .. Len(h2)
           /\ path2[Len(h) + 1] = Append(path[d], h[d].node[i].key)
           /\ Keeps(h, path, h2, path2)
<1> DEFINE tab == h[d]
           key == tab.node[i].key
           flag == tab.node[i].flag
           new == Len(h) + 1
           t == Words!Filled(tab, i, flag, new)
           h1 == [h EXCEPT ![d] = t]
           last == Words!Table(1)
           x == <<key, flag, new>>
           p == Append(path[d], key)
<1>0. h2 = Append(h1, last) /\ path2 = [e \in 1 .. new |-> IF e = new THEN p ELSE path[e]]
  BY DEF Linked
<1>1. /\ h \in Seq(AllTables) /\ Len(h) \in Nat /\ Len(h) >= 1
      /\ path \in [1 .. Len(h) -> Seq(Uint32)] /\ path[1] = <<>>
      /\ \A e \in 1 .. Len(h) : SoundTable(h[e]) /\ path[e] \in Seq(Uint32)
  <2>1. /\ h \in Seq(AllTables) /\ Len(h) >= 1
        /\ path \in [1 .. Len(h) -> Seq(Uint32)] /\ path[1] = <<>>
        /\ \A e \in 1 .. Len(h) : SoundTable(h[e]) /\ path[e] \in Seq(Uint32)
    BY DEF Trie
  <2>2. Len(h) \in Nat
    BY <2>1
  <2> QED  BY <2>1, <2>2
<1>2. key \in Uint32 /\ key \in Keys(tab) /\ new \in Nat /\ new # 0
      /\ flag \in Flags \ {"empty"}
  BY <1>1, SoundFacts DEF TakenNodes, Keys, Words!IsNil
<1>3. SoundTable(t) /\ Keys(t) = Keys(tab) /\ Holds(t) = (Holds(tab) \ {Says(tab, i)}) \cup {x}
  <2>1. SoundTable(tab) /\ i \in TakenNodes(tab)
    BY <1>1
  <2>2. key = tab.node[i].key /\ t = Words!Filled(tab, i, flag, new)
    OBVIOUS
  <2> HIDE DEF tab, key, t, flag, new
  <2>3. SoundTable(t) /\ Keys(t) = Keys(tab)
    BY <1>2, <2>1, <2>2, FilledSound
  <2>4. Holds(t) = (Holds(tab) \ {Says(tab, i)}) \cup {x}
    BY <1>2, <2>1, <2>2, FilledHolds
  <2> QED  BY <2>3, <2>4
<1>4. SoundTable(last) /\ Keys(last) = {} /\ Holds(last) = {}
  BY FreshTable
<1> HIDE DEF t, last
<1>5. h1 \in Seq(AllTables) /\ Len(h1) = Len(h) /\ h1[d] = t
      /\ \A e \in 1 .. Len(h) : e # d => h1[e] = h[e]
  BY <1>1, <1>3, SoundTyped, Replaced
<1> HIDE DEF h1
<1>6. h2 \in Seq(AllTables) /\ Len(h2) = new /\ h2[new] = last /\ h2[d] = t
      /\ \A e \in 1 .. Len(h) : e # d => h2[e] = h[e]
  <2>1. last \in AllTables
    BY <1>4, SoundTyped
  <2> QED  BY <1>0, <1>5, <2>1, Appended
<1>7. \A e \in 1 .. Len(h) : SoundTable(h2[e]) /\ Keys(h2[e]) = Keys(h[e])
  BY <1>1, <1>3, <1>6
<1>8. Says(tab, i) \in Holds(tab) /\ Says(tab, i) = <<key, flag, 0>>
  BY <1>1, KeysHold DEF Says
<1>9. p \in Seq(Uint32) /\ p # <<>>
  <2> DEFINE a == path[d]
  <2>1. a \in Seq(Uint32) /\ p = Append(a, key)
    BY <1>1
  <2> HIDE DEF a, key, p
  <2> QED  BY <1>2, <2>1, Appended
<1>10. /\ path2 \in [1 .. new -> Seq(Uint32)] /\ path2[new] = p
       /\ \A e \in 1 .. Len(h) : path2[e] = path[e]
       /\ \A e \in 1 .. new : e \in 1 .. Len(h) \/ e = new
       /\ \A e \in 1 .. Len(h) : e \in 1 .. new /\ e # new
  <2>1. path2 = [e \in 1 .. new |-> IF e = new THEN p ELSE path[e]]
    BY <1>0
  <2>2. /\ new \in 1 .. new
        /\ \A e \in 1 .. new : e \in 1 .. Len(h) \/ e = new
        /\ \A e \in 1 .. Len(h) : e \in 1 .. new /\ e # new
    BY <1>1
  <2> HIDE DEF p, new
  <2> QED  BY <1>1, <1>9, <2>1, <2>2
<1> HIDE DEF new
<1>11. \A q : Entry(h2, path2, q) <=> Entry(h, path, q)
  <2>1. ASSUME NEW q, Entry(h, path, q) PROVE Entry(h2, path2, q)
    BY <1>6, <1>7, <1>10, <2>1 DEF Entry
  <2>2. ASSUME NEW q, Entry(h2, path2, q) PROVE Entry(h, path, q)
    <3>1. PICK e \in 1 .. new : \E k \in Keys(h2[e]) : q = Append(path2[e], k)
      BY <1>6, <2>2 DEF Entry
    <3>2. e # new
      BY <1>4, <1>6, <3>1
    <3> QED  BY <1>7, <1>10, <3>1, <3>2 DEF Entry
  <2> QED  BY <2>1, <2>2
<1> HIDE DEF key, flag
<1>12. Right(Len(h), path, W, d, <<key, flag, 0>>)
  BY <1>8 DEF Trie
<1>13. \A e \in 1 .. Len(h) : path[e] # p
  BY <1>0, <1>12 DEF Right
<1>14. ASSUME NEW e \in 1 .. Len(h), NEW k \in Uint32, Append(path[e], k) = p
       PROVE  e = d /\ k = key
  <2> DEFINE a == path[e]
             b == path[d]
  <2>1. a = b /\ k = key
    <3>0. path[e] \in Seq(Uint32) /\ path[d] \in Seq(Uint32) /\ key \in Uint32
          /\ Append(path[e], k) = Append(path[d], key)
      BY <1>0, <1>1, <1>2, <1>14
    <3> HIDE DEF a, b
    <3>1. a \in Seq(Uint32) /\ b \in Seq(Uint32) /\ Append(a, k) = Append(b, key)
      BY <3>0 DEF a, b
    <3> QED  BY <3>0, <3>1, AppendOnce
  <2> QED  BY <2>1 DEF Trie
<1>15. ASSUME NEW e \in 1 .. Len(h2), NEW v \in Holds(h2[e])
       PROVE  Right(Len(h2), path2, W, e, v)
  <2>0. e \in 1 .. Len(h) /\ SoundTable(h2[e]) /\ path2[e] = path[e]
    <3>1. e # new
      BY <1>4, <1>6
    <3> QED  BY <1>6, <1>7, <1>10, <3>1
  <2>1. v[1] \in Uint32
    <3>1. v \in Uint32 \X (Flags \ {"empty"}) \X Nat
      BY <2>0, KeysHold
    <3> QED  BY <3>1
  <2>2. CASE e = d /\ v = x
    <3>1. v[1] = key /\ v[2] = flag /\ v[3] = new
      BY <2>2
    <3>2. flag = "end" <=> p \in W
      BY <1>0, <1>12 DEF Right
    <3>3. new \in 1 .. Len(h2)
      BY <1>1, <1>6 DEF new
    <3> QED  BY <1>0, <1>2, <1>10, <2>0, <2>2, <3>1, <3>2, <3>3 DEF Right
  <2>3. CASE ~(e = d /\ v = x)
    <3>1. v \in Holds(h[e]) /\ (e = d => v # Says(tab, i))
      BY <1>3, <1>6, <2>0, <2>3
    <3>2. Append(path[e], v[1]) # p
      <4> SUFFICES ASSUME Append(path[e], v[1]) = p PROVE FALSE
        OBVIOUS
      <4>1. e = d /\ v[1] = key
        BY <1>14, <2>0, <2>1
      <4>2. Says(tab, i)[1] = key
        BY <1>8
      <4>3. v = Says(tab, i)
        BY <1>1, <1>8, <3>1, <4>1, <4>2, KeysHold
      <4> QED  BY <3>1, <4>1, <4>3
    <3>3. Right(Len(h), path, W, e, v)
      BY <2>0, <3>1 DEF Trie
    <3>4. (v[3] = 0) => \A f \in 1 .. Len(h2) : path2[f] # Append(path2[e], v[1])
      <4> HAVE v[3] = 0
      <4> TAKE f \in 1 .. Len(h2)
      <4>1. CASE f = new
        BY <1>10, <2>0, <3>2, <4>1
      <4>2. CASE f # new
        <5>1. f \in 1 .. Len(h) /\ path2[f] = path[f]
          BY <1>6, <1>10, <4>2
        <5> QED  BY <2>0, <3>3, <5>1 DEF Right
      <4> QED  BY <4>1, <4>2
    <3>5. (v[3] # 0) => v[3] \in 1 .. Len(h2) /\ path2[v[3]] = Append(path2[e], v[1])
      <4> HAVE v[3] # 0
      <4>1. v[3] \in 1 .. Len(h) /\ path[v[3]] = Append(path[e], v[1])
        BY <3>3 DEF Right
      <4> QED  BY <1>6, <1>10, <2>0, <4>1
    <3>6. v[2] = "end" <=> Append(path2[e], v[1]) \in W
      BY <2>0, <3>3 DEF Right
    <3> QED  BY <3>4, <3>5, <3>6 DEF Right
  <2> QED  BY <2>2, <2>3
<1>16. \A e \in 2 .. Len(h2) : Entry(h2, path2, path2[e])
  <2> TAKE e \in 2 .. Len(h2)
  <2>1. CASE e = new
    <3>1. Entry(h, path, p)
      BY <1>0, <1>2 DEF Entry
    <3> QED  BY <1>10, <1>11, <2>1, <3>1
  <2>2. CASE e # new
    <3>1. e \in 2 .. Len(h)
      BY <1>1, <1>6, <2>2 DEF new
    <3>2. Entry(h, path, path[e]) /\ path2[e] = path[e]
      BY <1>10, <3>1 DEF Trie
    <3> QED  BY <1>11, <3>2
  <2> QED  BY <2>1, <2>2
<1>17. \A w \in W : \A k \in 1 .. Len(w) : Entry(h2, path2, SubSeq(w, 1, k))
  BY <1>11 DEF Trie
<1>18. W \subseteq Seq(Uint32) \ {<<>>} /\ path2[1] = <<>> /\ Len(h2) >= 1
       /\ 1 \in 1 .. Len(h)
  BY <1>1, <1>6, <1>10 DEF Trie, new
<1>19. \A e, f \in 1 .. Len(h2) : path2[e] = path2[f] => e = f
  <2> TAKE e, f \in 1 .. Len(h2)
  <2> HAVE path2[e] = path2[f]
  <2>1. CASE e = new \/ f = new
    BY <1>6, <1>10, <1>13, <2>1
  <2>2. CASE e # new /\ f # new
    <3>1. e \in 1 .. Len(h) /\ f \in 1 .. Len(h) /\ path[e] = path[f]
      BY <1>6, <1>10, <2>2
    <3> QED  BY <3>1 DEF Trie
  <2> QED  BY <2>1, <2>2
<1>20. \A e \in 1 .. Len(h2) : SoundTable(h2[e])
  BY <1>4, <1>6, <1>7, <1>10
<1>21. path2 \in [1 .. Len(h2) -> Seq(Uint32)] /\ new \in 1 .. Len(h2)
  BY <1>1, <1>6, <1>10 DEF new
<1>22. Trie(h2, path2, W)
  BY <1>6, <1>15, <1>16, <1>17, <1>18, <1>19, <1>20, <1>21 DEF Trie
<1>23. Keeps(h, path, h2, path2)
  BY <1>11 DEF Keeps
<1> QED  BY <1>10, <1>21, <1>22, <1>23 DEF new, p, key

-----------------------------------------------------------------------------
(* A word is entered rune by rune.                                          *)

\* Table d of h has the key in the node r.at.
InsertedIn(h, d, key, r, h1) ==
    r = Words!table_insert(h[d], key) /\ h1 = [h EXCEPT ![d] = r.table]

LEMMA KeyInserted ==
    ASSUME NEW h, NEW path, NEW W, Trie(h, path, W), NEW d \in 1 .. Len(h), NEW key \in Uint32,
           NEW r, NEW h1, InsertedIn(h, d, key, r, h1)
    PROVE  /\ Trie(h1, path, W) /\ Len(h1) = Len(h) /\ h1[d] = r.table
           /\ r.at \in TakenNodes(h1[d]) /\ h1[d].node[r.at].key = key
           /\ Entry(h1, path, Append(path[d], key))
           /\ Keeps(h, path, h1, path)
<1> DEFINE tab == h[d]
<1>0. r = Words!table_insert(tab, key) /\ h1 = [h EXCEPT ![d] = r.table]
  BY DEF InsertedIn
<1>1. h \in Seq(AllTables) /\ SoundTable(tab)
  BY DEF Trie
<1>2. /\ SoundTable(r.table) /\ r.at \in TakenNodes(r.table)
      /\ r.table.node[r.at].key = key
      /\ key \in Keys(tab) => r.table = tab
      /\ key \notin Keys(tab) => Holds(r.table) = Holds(tab) \cup {<<key, "inner", 0>>}
  <2> HIDE DEF tab
  <2> QED  BY <1>0, <1>1, InsertedKey
<1>3. /\ Trie(h1, path, W) /\ Len(h1) = Len(h) /\ h1[d] = r.table
      /\ Keeps(h, path, h1, path)
  <2>1. CASE key \in Keys(tab)
    <3>1. h1 = h
      BY <1>0, <1>1, <1>2, <2>1
    <3> QED  BY <1>2, <2>1, <3>1 DEF Keeps
  <2>2. CASE key \notin Keys(tab)
    <3>1. SoundTable(r.table) /\ Holds(r.table) = Holds(h[d]) \cup {<<key, "inner", 0>>}
          /\ key \notin Keys(h[d])
      BY <1>2, <2>2
    <3> DEFINE t == r.table
    <3>2. SoundTable(t) /\ Holds(t) = Holds(h[d]) \cup {<<key, "inner", 0>>} /\ Updated(h, d, t, h1)
      BY <1>0, <3>1 DEF Updated
    <3> HIDE DEF t, tab
    <3>3. /\ Trie(h1, path, W) /\ Len(h1) = Len(h) /\ h1[d] = t
          /\ Keeps(h, path, h1, path)
      BY <3>1, <3>2, TrieKeyed
    <3> QED  BY <3>3 DEF t
  <2> QED  BY <2>1, <2>2
<1>4. r.at \in TakenNodes(h1[d]) /\ h1[d].node[r.at].key = key
  BY <1>2, <1>3
<1>5. Entry(h1, path, Append(path[d], key))
  <2>1. key \in Keys(h1[d])
    BY <1>4 DEF Keys
  <2> QED  BY <1>3, <2>1 DEF Entry
<1> QED  BY <1>3, <1>4, <1>5

\* A state of _dict_insert's loop: table d stands for the first k runes.
Reached(s, W, word, k) ==
    \E path :
        /\ Trie(s.heap, path, W) /\ s.d \in 1 .. Len(s.heap)
        /\ path[s.d] = SubSeq(word, 1, k)
        /\ \A j \in 1 .. k : Entry(s.heap, path, SubSeq(word, 1, j))

LEMMA DeeperOn ==
    ASSUME NEW s, NEW W, NEW word \in Seq(Uint32), NEW k \in 1 .. Len(word),
           Reached(s, W, word, k - 1)
    PROVE  Reached(Words!Deeper(s.heap, s.d, word[k]), W, word, k)
<1> DEFINE h == s.heap
           d == s.d
           key == word[k]
           r == Words!table_insert(h[d], key)
           h1 == [h EXCEPT ![d] = r.table]
           node == r.table.node[r.at]
           p == SubSeq(word, 1, k)
           res == Words!Deeper(h, d, key)
           new == Len(h) + 1
<1>1. PICK path :
        /\ Trie(h, path, W) /\ d \in 1 .. Len(h)
        /\ path[d] = SubSeq(word, 1, k - 1)
        /\ \A j \in 1 .. k - 1 : Entry(h, path, SubSeq(word, 1, j))
  BY DEF Reached
<1>2. key \in Uint32 /\ p = Append(path[d], key) /\ k \in Nat
      /\ \A j \in 1 .. k : j = k \/ j \in 1 .. k - 1
  <2>1. key \in Uint32 /\ k \in 0 .. Len(word) /\ k >= 1 /\ k \in Nat
    OBVIOUS
  <2>2. p = Append(SubSeq(word, 1, k - 1), key)
    BY <2>1, Fronts
  <2> QED  BY <1>1, <2>1, <2>2
<1>3. res = IF node.value # 0
            THEN [heap |-> h1, d |-> node.value]
            ELSE [heap |-> Append([h EXCEPT ![d] = Words!Filled(r.table, r.at, node.flag, new)],
                                  Words!Table(1)),
                  d |-> new]
  BY DEF Words!Deeper
<1> HIDE DEF h, d, key, p, res
<1>4. /\ Trie(h1, path, W) /\ Len(h1) = Len(h) /\ h1[d] = r.table
      /\ r.at \in TakenNodes(h1[d]) /\ h1[d].node[r.at].key = key
      /\ Entry(h1, path, p)
      /\ Keeps(h, path, h1, path)
  <2>1. InsertedIn(h, d, key, r, h1)
    BY DEF InsertedIn
  <2> HIDE DEF r, h1
  <2>2. Trie(h, path, W) /\ d \in 1 .. Len(h) /\ key \in Uint32
    BY <1>1, <1>2
  <2>3. /\ Trie(h1, path, W) /\ Len(h1) = Len(h) /\ h1[d] = r.table
        /\ r.at \in TakenNodes(h1[d]) /\ h1[d].node[r.at].key = key
        /\ Entry(h1, path, Append(path[d], key))
        /\ Keeps(h, path, h1, path)
    BY <2>1, <2>2, KeyInserted
  <2> QED  BY <1>2, <2>3
<1>5. \A j \in 1 .. k : Entry(h1, path, SubSeq(word, 1, j))
  BY <1>1, <1>2, <1>4 DEF Keeps, p
<1>6. h1 = [h EXCEPT ![d] = r.table]
  OBVIOUS
<1> HIDE DEF r, h1
<1>7. SoundTable(h1[d]) /\ node = h1[d].node[r.at]
  BY <1>1, <1>4 DEF Trie
<1>8. Says(h1[d], r.at) = <<key, node.flag, node.value>> /\ Says(h1[d], r.at) \in Holds(h1[d])
  BY <1>4, <1>7, KeysHold DEF Says
<1>9. CASE node.value # 0
  <2>1. Right(Len(h1), path, W, d, <<key, node.flag, node.value>>)
    BY <1>1, <1>4, <1>8 DEF Trie
  <2>2. node.value \in 1 .. Len(h1) /\ path[node.value] = p
    BY <1>2, <1>9, <2>1 DEF Right
  <2>3. res.heap = h1 /\ res.d = node.value
    BY <1>3, <1>9
  <2>4. Reached(res, W, word, k)
    BY <1>4, <1>5, <2>2, <2>3 DEF Reached, p
  <2> QED  BY <2>4 DEF res, h, d, key
<1>10. CASE node.value = 0
  <2> DEFINE h2 == Append([h1 EXCEPT ![d] = Words!Filled(h1[d], r.at, h1[d].node[r.at].flag, new)],
                          Words!Table(1))
             path2 == [e \in 1 .. new |-> IF e = new THEN p ELSE path[e]]
  <2>1. d \in 1 .. Len(h1) /\ h1[d].node[r.at].value = 0 /\ new = Len(h1) + 1
        /\ p = Append(path[d], h1[d].node[r.at].key)
    BY <1>1, <1>2, <1>4, <1>7, <1>10
  <2>2. /\ Trie(h2, path2, W) /\ new \in 1 .. Len(h2) /\ path2[new] = p
        /\ Keeps(h1, path, h2, path2)
    <3> HIDE DEF new, node
    <3> DEFINE i == r.at
    <3>1. Linked(h1, path, d, i, h2, path2) /\ i \in TakenNodes(h1[d]) /\ h1[d].node[i].value = 0
      BY <1>4, <2>1 DEF Linked
    <3> HIDE DEF h2, path2, i
    <3>2. /\ Trie(h2, path2, W) /\ Len(h1) + 1 \in 1 .. Len(h2)
          /\ path2[Len(h1) + 1] = Append(path[d], h1[d].node[i].key)
          /\ Keeps(h1, path, h2, path2)
      BY <1>4, <2>1, <3>1, TrieLinked
    <3> QED  BY <2>1, <3>2 DEF i
  <2>3. [h EXCEPT ![d] = Words!Filled(r.table, r.at, node.flag, new)]
        = [h1 EXCEPT ![d] = Words!Filled(h1[d], r.at, h1[d].node[r.at].flag, new)]
    <3> DEFINE t == Words!Filled(r.table, r.at, node.flag, new)
    <3>1. t = Words!Filled(h1[d], r.at, h1[d].node[r.at].flag, new)
      BY <1>4, <1>7
    <3> HIDE DEF t
    <3>2. [h EXCEPT ![d] = t] = [h1 EXCEPT ![d] = t]
      <4>1. h \in Seq(AllTables)
        BY <1>1 DEF Trie
      <4> QED  BY <1>6, <4>1
    <3> QED  BY <3>1, <3>2 DEF t
  <2>4. res.heap = h2 /\ res.d = new
    BY <1>3, <1>10, <2>3
  <2>5. \A j \in 1 .. k : Entry(h2, path2, SubSeq(word, 1, j))
    BY <1>5, <2>2 DEF Keeps
  <2> HIDE DEF h2, path2
  <2>6. Reached(res, W, word, k)
    BY <2>2, <2>4, <2>5 DEF Reached, p
  <2> QED  BY <2>6 DEF res, h, d, key
<1> QED  BY <1>9, <1>10

LEMMA FrontOfFront ==
    ASSUME NEW S, NEW s \in Seq(S), NEW j \in 0 .. Len(s), NEW k \in 0 .. j
    PROVE  SubSeq(SubSeq(s, 1, j), 1, k) = SubSeq(s, 1, k)
<1> DEFINE a == SubSeq(s, 1, j)
           b == SubSeq(a, 1, k)
           c == SubSeq(s, 1, k)
<1>1. k \in 0 .. Len(s) /\ \A i \in 1 .. k : i \in 1 .. j
  OBVIOUS
<1>2. a \in Seq(S) /\ Len(a) = j /\ \A i \in 1 .. j : a[i] = s[i]
  BY Fronts
<1> HIDE DEF a
<1>3. b \in Seq(S) /\ Len(b) = k /\ \A i \in 1 .. k : b[i] = a[i]
  BY <1>2, Fronts
<1>4. c \in Seq(S) /\ Len(c) = k /\ \A i \in 1 .. k : c[i] = s[i]
  BY <1>1, Fronts
<1> HIDE DEF b, c
<1>5. b = c
  BY <1>1, <1>2, <1>3, <1>4, SameSeq
<1> QED  BY <1>5 DEF a, b, c

IsTrie(h, W) == \E path : Trie(h, path, W)

States == [heap : Seq(AllTables), d : Nat]

LEMMA ReachedTyped ==
    ASSUME NEW s, NEW W, NEW word, NEW k, Reached(s, W, word, k),
           s = [heap |-> s.heap, d |-> s.d]
    PROVE  s \in States
<1>1. s.heap \in Seq(AllTables) /\ s.d \in 1 .. Len(s.heap)
  BY DEF Reached, Trie
<1>2. s.d \in Nat
  BY <1>1
<1> QED  BY <1>1, <1>2 DEF States

LEMMA ReachedFirst ==
    ASSUME NEW h, NEW W, IsTrie(h, W), NEW word \in Seq(Uint32)
    PROVE  Reached([heap |-> h, d |-> 1], W, word, 0)
<1>1. PICK path : Trie(h, path, W)
  BY DEF IsTrie
<1>2. path[1] = <<>> /\ 1 \in 1 .. Len(h)
  BY <1>1 DEF Trie
<1>3. SubSeq(word, 1, 0) = <<>>
  OBVIOUS
<1>4. \A j \in 1 .. 0 : Entry(h, path, SubSeq(word, 1, j))
  OBVIOUS
<1> QED  BY <1>1, <1>2, <1>3, <1>4 DEF Reached

LEMMA DeeperRecord ==
    ASSUME NEW h, NEW d, NEW key
    PROVE  LET s == Words!Deeper(h, d, key) IN s = [heap |-> s.heap, d |-> s.d]
  BY DEF Words!Deeper

\* The last rune of a word is marked.
LEMMA WordMarked ==
    ASSUME NEW s, NEW W, NEW word \in Seq(Uint32), word # <<>>,
           Reached(s, W, word, Len(word) - 1)
    PROVE  LET r == Words!table_insert(s.heap[s.d], word[Len(word)])
           IN  IsTrie([s.heap EXCEPT ![s.d] =
                          Words!Filled(r.table, r.at, "end", r.table.node[r.at].value)],
                      W \cup {word})
<1> DEFINE h == s.heap
           d == s.d
           top == Len(word)
           key == word[top]
           r == Words!table_insert(h[d], key)
           h1 == [h EXCEPT ![d] = r.table]
           i == r.at
           t == Words!Filled(h1[d], i, "end", h1[d].node[i].value)
<1>1. PICK path :
        /\ Trie(h, path, W) /\ d \in 1 .. Len(h)
        /\ path[d] = SubSeq(word, 1, top - 1)
        /\ \A j \in 1 .. top - 1 : Entry(h, path, SubSeq(word, 1, j))
  BY DEF Reached
<1>2. /\ key \in Uint32 /\ top \in Nat /\ top >= 1 /\ word = Append(path[d], key)
      /\ Len(path[d]) = top - 1
      /\ \A k \in 1 .. top - 1 : SubSeq(path[d], 1, k) = SubSeq(word, 1, k)
  <2>1. key \in Uint32 /\ top \in 0 .. Len(word) /\ top >= 1 /\ top \in Nat
        /\ top - 1 \in 0 .. Len(word)
    OBVIOUS
  <2>2. SubSeq(word, 1, top) = Append(SubSeq(word, 1, top - 1), key) /\ SubSeq(word, 1, top) = word
    BY <2>1, Fronts
  <2>3. Len(SubSeq(word, 1, top - 1)) = top - 1
    BY <2>1, Fronts
  <2>4. \A k \in 1 .. top - 1 : SubSeq(SubSeq(word, 1, top - 1), 1, k) = SubSeq(word, 1, k)
    <3> TAKE k \in 1 .. top - 1
    <3>1. k \in 0 .. top - 1
      OBVIOUS
    <3> HIDE DEF top
    <3> QED  BY <2>1, <3>1, FrontOfFront
  <2> QED  BY <1>1, <2>1, <2>2, <2>3, <2>4
<1> HIDE DEF h, d, key, top
<1>3. /\ Trie(h1, path, W) /\ Len(h1) = Len(h) /\ h1[d] = r.table
      /\ i \in TakenNodes(h1[d]) /\ h1[d].node[i].key = key
      /\ Keeps(h, path, h1, path)
  <2>1. InsertedIn(h, d, key, r, h1)
    BY DEF InsertedIn
  <2> HIDE DEF r, h1
  <2>2. Trie(h, path, W) /\ d \in 1 .. Len(h) /\ key \in Uint32
    BY <1>1, <1>2
  <2>3. /\ Trie(h1, path, W) /\ Len(h1) = Len(h) /\ h1[d] = r.table
        /\ r.at \in TakenNodes(h1[d]) /\ h1[d].node[r.at].key = key
        /\ Entry(h1, path, Append(path[d], key))
        /\ Keeps(h, path, h1, path)
    BY <2>1, <2>2, KeyInserted
  <2> QED  BY <2>3
<1>4. h1 = [h EXCEPT ![d] = r.table]
  OBVIOUS
<1> HIDE DEF r, h1
<1>5. \A k \in 1 .. Len(path[d]) : Entry(h1, path, SubSeq(path[d], 1, k))
  BY <1>1, <1>2, <1>3 DEF Keeps
<1>6. Trie([h1 EXCEPT ![d] = t], path, W \cup {word})
  <2> HIDE DEF i
  <2>1. Trie([h1 EXCEPT ![d] = Words!Filled(h1[d], i, "end", h1[d].node[i].value)], path,
             W \cup {Append(path[d], h1[d].node[i].key)})
    BY <1>1, <1>3, <1>5, TrieMarked
  <2> QED  BY <1>2, <1>3, <2>1
<1>7. t = Words!Filled(r.table, r.at, "end", r.table.node[r.at].value)
  BY <1>3
<1> HIDE DEF t
<1>8. [h1 EXCEPT ![d] = t] = [h EXCEPT ![d] = t]
  <2>1. h \in Seq(AllTables)
    BY <1>1 DEF Trie
  <2> QED  BY <1>4, <2>1
<1>9. IsTrie([h EXCEPT ![d] = t], W \cup {word})
  BY <1>6, <1>8 DEF IsTrie
<1> QED  BY <1>7, <1>9 DEF h, d, r, key, top

\* _dict_insert: the trie of the words with one more.
LEMMA WordEntered ==
    ASSUME NEW h, NEW W, IsTrie(h, W), NEW word \in Seq(Uint32), word # <<>>
    PROVE  IsTrie(Words!DictInsert(h, word), W \cup {word})
<1> DEFINE top == Len(word) - 1
           base == [heap |-> h, d |-> 1]
           body(f, i) == IF i = 0 THEN base
                         ELSE Words!Deeper(f[i - 1].heap, f[i - 1].d, word[i])
           Is(f) == f = [i \in 0 .. top |-> body(f, i)]
           enter == CHOOSE f : Is(f)
           next(s, i) == Words!Deeper(s.heap, s.d, word[i])
           Allowed == [i \in 0 .. top |-> {s \in States : Reached(s, W, word, i)}]
           step == [z \in (1 .. top) \X States |-> next(z[2], z[1])]
           fin(s) == LET r == Words!table_insert(s.heap[s.d], word[Len(word)])
                     IN  [s.heap EXCEPT ![s.d] =
                             Words!Filled(r.table, r.at, "end", r.table.node[r.at].value)]
<1>1. top \in Nat /\ \A i \in 1 .. top : i \in 1 .. Len(word)
  OBVIOUS
<1>2. Words!DictInsert(h, word) = fin(enter[top])
  BY DEF Words!DictInsert
<1>3. \A f : \A i \in 1 .. top : body(f, i) = next(f[i - 1], i)
  OBVIOUS
<1>4. \A f : body(f, 0) = base
  OBVIOUS
<1>5. \A i \in 0 .. top : \A s : s \in Allowed[i] <=> s \in States /\ Reached(s, W, word, i)
  OBVIOUS
<1>6. base \in Allowed[0]
  <2>1. Reached(base, W, word, 0)
    BY ReachedFirst
  <2>2. base = [heap |-> base.heap, d |-> base.d]
    OBVIOUS
  <2> HIDE DEF base, Allowed
  <2>3. base \in States
    BY <2>1, <2>2, ReachedTyped
  <2> QED  BY <1>1, <1>5, <2>1, <2>3
<1>7. \A i \in 1 .. top : i \in 0 .. top /\ i - 1 \in 0 .. top
  BY <1>1
<1>8. \A i \in 1 .. top : \A s \in Allowed[i - 1] :
         step[<<i, s>>] = next(s, i) /\ next(s, i) \in Allowed[i]
  <2> SUFFICES ASSUME NEW i \in 1 .. top, NEW s \in Allowed[i - 1]
               PROVE  step[<<i, s>>] = next(s, i) /\ next(s, i) \in Allowed[i]
    OBVIOUS
  <2>1. Reached(s, W, word, i - 1) /\ s \in States /\ i \in 1 .. Len(word)
    BY <1>1, <1>5, <1>7
  <2>2. Reached(next(s, i), W, word, i)
    BY <2>1, DeeperOn
  <2>3. next(s, i) = [heap |-> next(s, i).heap, d |-> next(s, i).d]
    BY DeeperRecord
  <2>4. step[<<i, s>>] = next(s, i)
    <3>1. <<i, s>> \in (1 .. top) \X States
      BY <2>1
    <3> QED  BY <3>1
  <2> HIDE DEF Allowed, next, step
  <2>5. next(s, i) \in States
    BY <2>2, <2>3, ReachedTyped
  <2> QED  BY <1>5, <1>7, <2>2, <2>4, <2>5
<1> HIDE DEF Allowed, step, base, body, next, top, fin
<1>9. \E f : Is(f)
  <2>0. PICK f : Runs(f, 0, top, Allowed, base, step)
    <3>1. 0 \in Int /\ top \in Int /\ 0 <= top /\ 0 + 1 = 1
      BY <1>1
    <3>2. \A i \in 0 + 1 .. top : \A x \in Allowed[i - 1] : step[<<i, x>>] \in Allowed[i]
      BY <1>8, <3>1
    <3> QED  BY <1>6, <3>1, <3>2, LoopMade
  <2>1. /\ f = [i \in 0 .. top |-> f[i]] /\ f[0] = base
        /\ \A i \in 0 + 1 .. top : f[i - 1] \in Allowed[i - 1] /\ f[i] = step[<<i, f[i - 1]>>]
    BY <2>0 DEF Runs
  <2>2. \A i \in 0 .. top : f[i] = body(f, i)
    <3> TAKE i \in 0 .. top
    <3>1. CASE i = 0
      BY <1>4, <2>1, <3>1
    <3>2. CASE i # 0
      <4>1. i \in 1 .. top /\ i \in 0 + 1 .. top
        BY <1>1, <3>2
      <4>2. f[i - 1] \in Allowed[i - 1] /\ f[i] = step[<<i, f[i - 1]>>]
        BY <2>1, <4>1
      <4>3. f[i] = next(f[i - 1], i)
        BY <1>8, <4>1, <4>2
      <4>4. body(f, i) = next(f[i - 1], i)
        BY <1>3, <4>1
      <4> QED  BY <4>3, <4>4
    <3> QED  BY <3>1, <3>2
  <2>3. Is(f)
    BY <2>1, <2>2
  <2> QED  BY <2>3
<1>10. Is(enter)
  <2> HIDE DEF Is
  <2> QED  BY <1>9
<1> HIDE DEF enter
<1>11. enter[0] = base /\ \A i \in 1 .. top : enter[i] = next(enter[i - 1], i)
  <2>1. \A i \in 0 .. top : enter[i] = body(enter, i)
    BY <1>10
  <2>2. 0 \in 0 .. top
    BY <1>1
  <2>3. enter[0] = base
    BY <1>4, <2>1, <2>2
  <2>4. ASSUME NEW i \in 1 .. top PROVE enter[i] = next(enter[i - 1], i)
    <3>1. enter[i] = body(enter, i)
      BY <1>7, <2>1
    <3>2. body(enter, i) = next(enter[i - 1], i)
      BY <1>3
    <3> QED  BY <3>1, <3>2
  <2> QED  BY <2>3, <2>4
<1>12. \A i \in 0 .. top : enter[i] \in Allowed[i]
  <2>1. 0 \in Int /\ top \in Int /\ 0 <= top /\ 0 + 1 = 1
    BY <1>1
  <2>2. \A i \in 1 .. top : enter[i - 1] \in Allowed[i - 1] => enter[i] \in Allowed[i]
    BY <1>8, <1>11
  <2>3. enter[0] \in Allowed[0]
    BY <1>6, <1>11
  <2> QED  BY <2>1, <2>2, <2>3, LoopKeeps
<1>13. Reached(enter[top], W, word, top)
  BY <1>1, <1>5, <1>12
<1>14. IsTrie(fin(enter[top]), W \cup {word})
  BY <1>13, WordMarked DEF top, fin
<1> QED  BY <1>2, <1>14

LEMMA TrieStarted ==
    IsTrie(<<Words!Table(1)>>, {})
<1> DEFINE t == Words!Table(1)
           h == <<t>>
           path == [e \in 1 .. 1 |-> <<>>]
<1>1. SoundTable(t) /\ Holds(t) = {} /\ Keys(t) = {}
  BY FreshTable
<1>2. t \in AllTables
  BY <1>1, SoundTyped
<1> HIDE DEF t
<1>3. h \in Seq(AllTables) /\ Len(h) = 1 /\ h[1] = t
  BY <1>2
<1>4. path \in [1 .. 1 -> Seq(Uint32)] /\ path[1] = <<>>
  OBVIOUS
<1> HIDE DEF h, path
<1>5. \A d \in 1 .. Len(h) : d = 1 /\ h[d] = t
  BY <1>3
<1>6. \A d \in 1 .. Len(h) : \A v \in Holds(h[d]) : Right(Len(h), path, {}, d, v)
  BY <1>1, <1>5
<1>7. \A e \in 2 .. Len(h) : Entry(h, path, path[e])
  BY <1>3
<1>8. Trie(h, path, {})
  BY <1>1, <1>3, <1>4, <1>5, <1>6, <1>7 DEF Trie
<1>9. IsTrie(h, {})
  BY <1>8 DEF IsTrie
<1> QED  BY <1>9 DEF h, t

-----------------------------------------------------------------------------
(* What is found at a position of a message.                                *)

Spelt(W) == W \subseteq Seq(Uint32) \ {<<>>}

LEMMA FoundFacts ==
    ASSUME NEW w \in Seq(Uint32), w # <<>>, NEW msg \in Seq(Uint32), NEW i \in 1 .. Len(msg),
           Words!At(msg, i, w)
    PROVE  /\ Len(w) \in Nat /\ Len(w) >= 1 /\ i + Len(w) - 1 <= Len(msg)
           /\ \A k \in 1 .. Len(w) : SubSeq(w, 1, k) = SubSeq(msg, i, i + k - 1)
           /\ w = SubSeq(msg, i, i + Len(w) - 1)
<1>1. Len(w) \in Nat /\ Len(w) >= 1 /\ Len(msg) \in Nat /\ i \in Nat /\ i >= 1
  OBVIOUS
<1>2. i + Len(w) - 1 <= Len(msg) /\ SubSeq(msg, i, i + Len(w) - 1) = w
  BY DEF Words!At
<1>3. \A k \in 1 .. Len(w) : SubSeq(w, 1, k) = SubSeq(msg, i, i + k - 1)
  <2> TAKE k \in 1 .. Len(w)
  <2> DEFINE top == i + Len(w) - 1
             b == SubSeq(w, 1, k)
             c == SubSeq(msg, i, i + k - 1)
  <2>1. /\ top \in i - 1 .. Len(msg) /\ i + k - 1 \in i - 1 .. Len(msg) /\ k \in 0 .. Len(w)
        /\ (i + k - 1) - i + 1 = k /\ top - i + 1 = Len(w)
    BY <1>1, <1>2
  <2>2. \A j \in 1 .. Len(w) : w[j] = msg[i + j - 1]
    <3> HIDE DEF top
    <3>1. \A j \in 1 .. top - i + 1 : SubSeq(msg, i, top)[j] = msg[i + j - 1]
      BY <2>1, Front
    <3> QED  BY <1>2, <2>1, <3>1 DEF top
  <2>3. b \in Seq(Uint32) /\ Len(b) = k /\ \A j \in 1 .. k : b[j] = w[j]
    BY <2>1, Fronts
  <2>4. c \in Seq(Uint32) /\ Len(c) = k /\ \A j \in 1 .. k : c[j] = msg[i + j - 1]
    <3> DEFINE e == i + k - 1
    <3>1. e \in i - 1 .. Len(msg) /\ e - i + 1 = k
      BY <2>1
    <3> HIDE DEF e
    <3>2. /\ SubSeq(msg, i, e) \in Seq(Uint32) /\ Len(SubSeq(msg, i, e)) = e - i + 1
          /\ \A j \in 1 .. e - i + 1 : SubSeq(msg, i, e)[j] = msg[i + j - 1]
      BY <3>1, Front
    <3> QED  BY <3>1, <3>2 DEF e
  <2> HIDE DEF b, c
  <2>5. \A j \in 1 .. k : j \in 1 .. Len(w)
    BY <1>1
  <2>6. b = c
    BY <2>2, <2>3, <2>4, <2>5, SameSeq
  <2> QED  BY <2>6 DEF b, c
<1> QED  BY <1>1, <1>2, <1>3

\* The longest word at i has k runes, or there is none and k is 0.
IsLongest(W, msg, i, k) ==
    /\ k = 0 \/ \E w \in W : Words!At(msg, i, w) /\ Len(w) = k
    /\ \A w \in W : Words!At(msg, i, w) => Len(w) <= k

LEMMA LongestIs ==
    ASSUME NEW W, Spelt(W), NEW msg, NEW i, NEW k \in Nat, IsLongest(W, msg, i, k)
    PROVE  Words!Longest(W, msg, i) = k
<1> DEFINE hits == {w \in W : Words!At(msg, i, w)}
           best == CHOOSE w \in hits : \A v \in hits : Len(v) <= Len(w)
<1>1. Words!Longest(W, msg, i) = IF hits = {} THEN 0 ELSE Len(best)
  BY DEF Words!Longest
<1>2. \A w \in hits : Len(w) \in Nat /\ Len(w) >= 1 /\ Len(w) <= k
  <2>1. \A w \in W : w \in Seq(Uint32) /\ w # <<>>
    BY DEF Spelt
  <2>2. \A w \in Seq(Uint32) : w # <<>> => Len(w) \in Nat /\ Len(w) >= 1
    OBVIOUS
  <2> QED  BY <2>1, <2>2 DEF IsLongest
<1>3. k = 0 \/ \E w \in hits : Len(w) = k
  BY DEF IsLongest
<1> HIDE DEF hits
<1>4. CASE hits = {}
  BY <1>1, <1>3, <1>4
<1>5. CASE hits # {}
  <2>1. k # 0
    BY <1>2, <1>5
  <2>2. PICK w \in hits : Len(w) = k
    BY <1>3, <2>1
  <2>3. \A v \in hits : Len(v) <= Len(w)
    BY <1>2, <2>2
  <2>4. best \in hits /\ \A v \in hits : Len(v) <= Len(best)
    BY <2>3
  <2> HIDE DEF best
  <2>5. Len(best) = k
    BY <1>2, <2>2, <2>4
  <2> QED  BY <1>1, <1>5, <2>5
<1> QED  BY <1>4, <1>5

-----------------------------------------------------------------------------
(* The search in the trie.                                                  *)

\* A state of dict_filter's inner loop before the rune at j + 1.
Scanned(h, path, W, msg, i, j, s) ==
    /\ s.step = 0 \/ \E w \in W : Words!At(msg, i, w) /\ Len(w) = s.step
    /\ \A w \in W : Words!At(msg, i, w) /\ (s.d = 0 \/ Len(w) <= j - i + 1) => Len(w) <= s.step
    /\ s.d # 0 => s.d \in 1 .. Len(h) /\ path[s.d] = SubSeq(msg, i, j)

ScanStates == [d : Nat, step : Nat]

\* What the loop does with the rune at j.
Scans(h, msg, i, s, j) ==
    LET k == IF s.d = 0 THEN -1 ELSE Words!table_get(h[s.d], msg[j])
    IN  IF k < 0 THEN [d |-> 0, step |-> s.step]
        ELSE [d |-> h[s.d].node[k].value,
              step |-> IF h[s.d].node[k].flag = "end" THEN j - i + 1 ELSE s.step]

LEMMA ScannedFirst ==
    ASSUME NEW h, NEW path, NEW W, Trie(h, path, W), NEW msg \in Seq(Uint32),
           NEW i \in 1 .. Len(msg)
    PROVE  Scanned(h, path, W, msg, i, i - 1, [d |-> 1, step |-> 0])
<1> DEFINE s == [d |-> 1, step |-> 0]
<1>1. s.d = 1 /\ s.step = 0
  OBVIOUS
<1> HIDE DEF s
<1>2. 1 \in 1 .. Len(h) /\ path[1] = <<>> /\ W \subseteq Seq(Uint32) \ {<<>>}
  BY DEF Trie
<1>3. SubSeq(msg, i, i - 1) = <<>> /\ (i - 1) - i + 1 = 0
  <2>1. i - 1 \in i - 1 .. Len(msg)
    OBVIOUS
  <2> QED  BY <2>1, Front
<1>4. \A w \in W : Len(w) \in Nat /\ Len(w) >= 1
  <2>1. \A w \in Seq(Uint32) : w # <<>> => Len(w) \in Nat /\ Len(w) >= 1
    OBVIOUS
  <2> QED  BY <1>2, <2>1
<1>5. \A w \in W : ~(s.d = 0 \/ Len(w) <= (i - 1) - i + 1)
  BY <1>1, <1>3, <1>4
<1>6. Scanned(h, path, W, msg, i, i - 1, s)
  BY <1>1, <1>2, <1>3, <1>5 DEF Scanned
<1> QED  BY <1>6 DEF s

LEMMA ScannedOn ==
    ASSUME NEW h, NEW path, NEW W, Trie(h, path, W), NEW msg \in Seq(Uint32),
           NEW i \in 1 .. Len(msg), NEW j \in i .. Len(msg), NEW s \in ScanStates,
           Scanned(h, path, W, msg, i, j - 1, s)
    PROVE  /\ Scans(h, msg, i, s, j) \in ScanStates
           /\ Scanned(h, path, W, msg, i, j, Scans(h, msg, i, s, j))
<1> DEFINE t == Scans(h, msg, i, s, j)
           d == s.d
           key == msg[j]
           p == SubSeq(msg, i, j)
           len == j - i + 1
<1>1. /\ d \in Nat /\ s.step \in Nat /\ key \in Uint32 /\ len \in Nat /\ len >= 1
      /\ i \in Nat /\ i >= 1 /\ j \in Nat /\ j >= i /\ j <= Len(msg) /\ Len(msg) \in Nat
      /\ (j - 1) - i + 1 = len - 1
  BY DEF ScanStates
<1>2. /\ s.step = 0 \/ \E w \in W : Words!At(msg, i, w) /\ Len(w) = s.step
      /\ \A w \in W : Words!At(msg, i, w) /\ (d = 0 \/ Len(w) <= len - 1) => Len(w) <= s.step
      /\ d # 0 => d \in 1 .. Len(h) /\ path[d] = SubSeq(msg, i, j - 1)
  BY <1>1 DEF Scanned
<1>3. \A w \in W : Words!At(msg, i, w) =>
         /\ Len(w) \in Nat /\ Len(w) >= 1 /\ i + Len(w) - 1 <= Len(msg)
         /\ \A k \in 1 .. Len(w) : SubSeq(w, 1, k) = SubSeq(msg, i, i + k - 1)
                                   /\ Entry(h, path, SubSeq(msg, i, i + k - 1))
         /\ w = SubSeq(msg, i, i + Len(w) - 1)
  <2> TAKE w \in W
  <2> HAVE Words!At(msg, i, w)
  <2>1. w \in Seq(Uint32) /\ w # <<>>
    BY DEF Trie
  <2>2. /\ Len(w) \in Nat /\ Len(w) >= 1 /\ i + Len(w) - 1 <= Len(msg)
        /\ \A k \in 1 .. Len(w) : SubSeq(w, 1, k) = SubSeq(msg, i, i + k - 1)
        /\ w = SubSeq(msg, i, i + Len(w) - 1)
    BY <2>1, FoundFacts
  <2>3. \A k \in 1 .. Len(w) : Entry(h, path, SubSeq(w, 1, k))
    BY DEF Trie
  <2> QED  BY <2>2, <2>3
<1>4. p \in Seq(Uint32) /\ p = Append(SubSeq(msg, i, j - 1), key) /\ Len(p) = len
  <2>1. j \in i - 1 .. Len(msg) /\ j >= i
    BY <1>1
  <2> QED  BY <2>1, Front
<1>5. \A w \in W : Words!At(msg, i, w) /\ Len(w) >= len => Entry(h, path, p)
  <2> TAKE w \in W
  <2> HAVE Words!At(msg, i, w) /\ Len(w) >= len
  <2>1. len \in 1 .. Len(w) /\ i + len - 1 = j
    BY <1>1, <1>3
  <2> HIDE DEF len
  <2> QED  BY <1>3, <2>1
<1>6. \A w \in W : Words!At(msg, i, w) /\ Len(w) = len => w = p
  <2>1. i + len - 1 = j
    BY <1>1
  <2> HIDE DEF len
  <2> QED  BY <1>3, <2>1
<1>7. \A e \in i .. Len(msg) : SubSeq(msg, i, e) = Append(SubSeq(msg, i, e - 1), msg[e])
                               /\ msg[e] \in Uint32
  <2> TAKE e \in i .. Len(msg)
  <2>1. e \in i - 1 .. Len(msg) /\ e >= i /\ e \in 1 .. Len(msg)
    BY <1>1
  <2>2. SubSeq(msg, i, e) = Append(SubSeq(msg, i, e - 1), msg[e])
    BY <2>1, Front
  <2> QED  BY <2>1, <2>2
<1>8. \A a \in Seq(Uint32) : \A x, y \in Uint32 : Append(a, x) = Append(p, y) => a = p
  <2>1. p \in Seq(Uint32)
    BY <1>4
  <2> HIDE DEF p
  <2>2. ASSUME NEW a \in Seq(Uint32), NEW x \in Uint32, NEW y \in Uint32,
               Append(a, x) = Append(p, y)
        PROVE  a = p
    BY <2>1, <2>2, AppendOnce
  <2> QED  BY <2>2
<1>9. CASE d = 0
  <2>1. t = [d |-> 0, step |-> s.step]
    BY <1>9 DEF Scans
  <2> HIDE DEF t
  <2>2. t.d = 0 /\ t.step = s.step /\ t \in ScanStates
    BY <1>1, <2>1 DEF ScanStates
  <2>3. Scanned(h, path, W, msg, i, j, t)
    BY <1>2, <1>9, <2>2 DEF Scanned
  <2> QED  BY <2>2, <2>3 DEF t
<1>10. CASE d # 0
  <2> DEFINE tab == h[d]
             k == Words!table_get(tab, key)
  <2>1. d \in 1 .. Len(h) /\ SoundTable(tab) /\ p = Append(path[d], key)
    BY <1>2, <1>4, <1>10 DEF Trie
  <2>2. t = IF k < 0 THEN [d |-> 0, step |-> s.step]
            ELSE [d |-> tab.node[k].value,
                  step |-> IF tab.node[k].flag = "end" THEN j - i + 1 ELSE s.step]
    BY <1>10 DEF Scans
  <2>3. /\ k < 0 <=> key \notin Keys(tab)
        /\ key \in Keys(tab) => k \in TakenNodes(tab) /\ tab.node[k].key = key
    <3> HIDE DEF tab, key
    <3> QED  BY <1>1, <2>1, Gets
  <2>4. Entry(h, path, p) <=> key \in Keys(tab)
    <3> HIDE DEF key, p
    <3>1. Entry(h, path, Append(path[d], key)) <=> key \in Keys(h[d])
      BY <1>1, <2>1, EntryIs
    <3> QED  BY <2>1, <3>1
  <2> HIDE DEF t, k
  <2>5. CASE key \notin Keys(tab)
    <3>1. t = [d |-> 0, step |-> s.step]
      BY <2>2, <2>3, <2>5
    <3>2. t.d = 0 /\ t.step = s.step /\ t \in ScanStates
      BY <1>1, <3>1 DEF ScanStates
    <3>3. \A w \in W : Words!At(msg, i, w) => Len(w) <= s.step
      <4> TAKE w \in W
      <4> HAVE Words!At(msg, i, w)
      <4>1. ~(Len(w) >= len)
        BY <1>5, <2>4, <2>5
      <4>2. Len(w) <= len - 1
        BY <1>1, <1>3, <4>1
      <4> QED  BY <1>2, <4>2
    <3>4. Scanned(h, path, W, msg, i, j, t)
      BY <1>2, <3>2, <3>3 DEF Scanned
    <3> QED  BY <3>2, <3>4 DEF t
  <2>6. CASE key \in Keys(tab)
    <3> DEFINE flag == tab.node[k].flag
               value == tab.node[k].value
    <3>1. t = [d |-> value, step |-> IF flag = "end" THEN len ELSE s.step]
      BY <2>2, <2>3, <2>6
    <3>2. Says(tab, k) \in Holds(tab) /\ Says(tab, k) = <<key, flag, value>>
      BY <2>1, <2>3, <2>6, KeysHold DEF Says
    <3>3. Right(Len(h), path, W, d, <<key, flag, value>>)
      BY <2>1, <3>2 DEF Trie
    <3>4. value \in Nat
      <4>1. Says(tab, k) \in Uint32 \X (Flags \ {"empty"}) \X Nat
        BY <2>1, <3>2, KeysHold
      <4> QED  BY <3>2, <4>1
    <3> HIDE DEF flag, value, len, tab
    <3>5. t.d = value /\ t.step = (IF flag = "end" THEN len ELSE s.step) /\ t \in ScanStates
      BY <1>1, <3>1, <3>4 DEF ScanStates
    <3>6. /\ flag = "end" <=> p \in W
          /\ value = 0 => \A e \in 1 .. Len(h) : path[e] # p
          /\ value # 0 => value \in 1 .. Len(h) /\ path[value] = p
      BY <2>1, <3>3 DEF Right
    <3>7. t.step = 0 \/ \E w \in W : Words!At(msg, i, w) /\ Len(w) = t.step
      <4>1. CASE flag = "end"
        <5>1. Words!At(msg, i, p)
          <6>1. i + Len(p) - 1 = j
            BY <1>1, <1>4 DEF len
          <6> QED  BY <1>1, <6>1 DEF Words!At
        <5> QED  BY <1>4, <3>5, <3>6, <4>1, <5>1
      <4>2. CASE flag # "end"
        BY <1>2, <3>5, <4>2
      <4> QED  BY <4>1, <4>2
    <3>8. \A w \in W : Words!At(msg, i, w) /\ Len(w) <= len => Len(w) <= t.step
      <4> TAKE w \in W
      <4> HAVE Words!At(msg, i, w) /\ Len(w) <= len
      <4>1. CASE flag = "end"
        BY <3>5, <4>1
      <4>2. CASE flag # "end"
        <5>1. Len(w) # len
          BY <1>6, <3>6, <4>2
        <5>2. Len(w) <= len - 1
          BY <1>1, <1>3, <5>1
        <5> QED  BY <1>2, <3>5, <4>2, <5>2
      <4> QED  BY <4>1, <4>2
    <3>9. \A w \in W : Words!At(msg, i, w) /\ t.d = 0 => Len(w) <= len
      <4> TAKE w \in W
      <4> HAVE Words!At(msg, i, w) /\ t.d = 0
      <4> SUFFICES ASSUME ~(Len(w) <= len) PROVE FALSE
        OBVIOUS
      <4>1. len + 1 \in 1 .. Len(w) /\ i + (len + 1) - 1 = j + 1 /\ j + 1 <= Len(msg)
            /\ j + 1 \in i - 1 .. Len(msg) /\ j + 1 >= i /\ (j + 1) - 1 = j
        <5>1. Len(w) >= len + 1
          BY <1>1, <1>3
        <5>2. i + Len(w) - 1 <= Len(msg) /\ Len(w) \in Nat
          BY <1>3
        <5> QED  BY <1>1, <5>1, <5>2 DEF len
      <4>2. Entry(h, path, SubSeq(msg, i, j + 1))
        BY <1>3, <4>1
      <4>3. SubSeq(msg, i, j + 1) = Append(p, msg[j + 1]) /\ msg[j + 1] \in Uint32
        <5>1. j + 1 \in i .. Len(msg)
          BY <1>1, <4>1
        <5> QED  BY <1>7, <4>1, <5>1
      <4>4. PICK e \in 1 .. Len(h) : \E other \in Keys(h[e]) :
               SubSeq(msg, i, j + 1) = Append(path[e], other)
        BY <4>2 DEF Entry
      <4>5. PICK other \in Keys(h[e]) : SubSeq(msg, i, j + 1) = Append(path[e], other)
        BY <4>4
      <4>6. path[e] \in Seq(Uint32) /\ other \in Uint32
        BY SoundTyped DEF Trie
      <4> DEFINE a == path[e]
                 b == msg[j + 1]
      <4>7. a \in Seq(Uint32) /\ b \in Uint32 /\ Append(a, other) = Append(p, b)
        BY <4>3, <4>5, <4>6
      <4> HIDE DEF a, b, p
      <4>8. a = p
        BY <1>8, <4>6, <4>7
      <4> QED  BY <3>5, <3>6, <4>8 DEF a
    <3>10. \A w \in W : Words!At(msg, i, w) /\ (t.d = 0 \/ Len(w) <= len) => Len(w) <= t.step
      BY <3>8, <3>9
    <3>11. Scanned(h, path, W, msg, i, j, t)
      BY <3>5, <3>6, <3>7, <3>10 DEF Scanned, len
    <3> QED  BY <3>5, <3>11 DEF t
  <2> QED  BY <2>5, <2>6
<1> QED  BY <1>9, <1>10

\* dict_filter's inner loop finds the longest word.
LEMMA StepIsLongest ==
    ASSUME NEW h, NEW W, IsTrie(h, W), NEW msg \in Seq(Uint32), NEW i \in 1 .. Len(msg)
    PROVE  Words!Step(h, msg, i) = Words!Longest(W, msg, i)
<1> DEFINE a == i - 1
           b == Len(msg)
           base == [d |-> 1, step |-> 0]
           body(f, j) ==
              IF j = i - 1 THEN base
              ELSE LET s == f[j - 1]
                       k == IF s.d = 0 THEN -1 ELSE Words!table_get(h[s.d], msg[j])
                   IN  IF k < 0 THEN [d |-> 0, step |-> s.step]
                       ELSE [d |-> h[s.d].node[k].value,
                             step |-> IF h[s.d].node[k].flag = "end" THEN j - i + 1 ELSE s.step]
           Is(f) == f = [j \in i - 1 .. Len(msg) |-> body(f, j)]
           scan == CHOOSE f : Is(f)
<1>1. Words!Step(h, msg, i) = scan[Len(msg)].step
  BY DEF Words!Step
<1>2. PICK path : Trie(h, path, W)
  BY DEF IsTrie
<1>3. /\ a \in Int /\ b \in Int /\ a <= b /\ a + 1 = i /\ b \in Nat
      /\ \A j \in i .. b : j # a /\ j \in a .. b /\ j - 1 \in a .. b /\ j \in a + 1 .. b
      /\ a \in a .. b /\ b \in a .. b
      /\ \A j \in a .. b : j = a \/ j \in i .. b
  OBVIOUS
<1> DEFINE Allowed == [j \in a .. b |-> {s \in ScanStates : Scanned(h, path, W, msg, i, j, s)}]
           step == [z \in (i .. b) \X ScanStates |-> Scans(h, msg, i, z[2], z[1])]
<1>4. \A f : \A j \in i .. b : body(f, j) = Scans(h, msg, i, f[j - 1], j)
  BY <1>3 DEF Scans
<1>5. \A f : body(f, a) = base
  OBVIOUS
<1>6. \A f : Is(f) <=> f = [j \in a .. b |-> body(f, j)]
  OBVIOUS
<1>7. \A j \in a .. b : \A s : s \in Allowed[j] <=> s \in ScanStates /\ Scanned(h, path, W, msg, i, j, s)
  OBVIOUS
<1>8. base \in Allowed[a]
  <2>1. Scanned(h, path, W, msg, i, a, base)
    BY <1>2, ScannedFirst
  <2>2. base \in ScanStates
    BY DEF ScanStates
  <2> HIDE DEF base, Allowed, a, b
  <2> QED  BY <1>3, <1>7, <2>1, <2>2
<1>9. \A j \in i .. b : \A s \in Allowed[j - 1] :
         step[<<j, s>>] = Scans(h, msg, i, s, j) /\ Scans(h, msg, i, s, j) \in Allowed[j]
  <2> SUFFICES ASSUME NEW j \in i .. b, NEW s \in Allowed[j - 1]
               PROVE  step[<<j, s>>] = Scans(h, msg, i, s, j) /\ Scans(h, msg, i, s, j) \in Allowed[j]
    OBVIOUS
  <2>1. s \in ScanStates /\ Scanned(h, path, W, msg, i, j - 1, s)
    <3> HIDE DEF Allowed, a, b
    <3> QED  BY <1>3, <1>7
  <2>2. /\ Scans(h, msg, i, s, j) \in ScanStates
        /\ Scanned(h, path, W, msg, i, j, Scans(h, msg, i, s, j))
    BY <1>2, <2>1, ScannedOn
  <2>3. step[<<j, s>>] = Scans(h, msg, i, s, j)
    <3>1. <<j, s>> \in (i .. b) \X ScanStates
      BY <2>1
    <3> QED  BY <3>1
  <2> HIDE DEF Allowed, step, a, b
  <2> QED  BY <1>3, <1>7, <2>2, <2>3
<1> HIDE DEF Allowed, step, base, body, a, b, Is
<1>10. \E f : Is(f)
  <2>0. PICK f : Runs(f, a, b, Allowed, base, step)
    <3>1. \A j \in a + 1 .. b : \A x \in Allowed[j - 1] : step[<<j, x>>] \in Allowed[j]
      BY <1>3, <1>9
    <3> QED  BY <1>3, <1>8, <3>1, LoopMade
  <2>1. /\ f = [j \in a .. b |-> f[j]] /\ f[a] = base
        /\ \A j \in a + 1 .. b : f[j - 1] \in Allowed[j - 1] /\ f[j] = step[<<j, f[j - 1]>>]
    BY <2>0 DEF Runs
  <2>2. \A j \in a .. b : f[j] = body(f, j)
    <3> TAKE j \in a .. b
    <3>1. CASE j = a
      BY <1>5, <2>1, <3>1
    <3>2. CASE j # a
      <4>1. j \in i .. b /\ j \in a + 1 .. b
        BY <1>3, <3>2
      <4>2. f[j - 1] \in Allowed[j - 1] /\ f[j] = step[<<j, f[j - 1]>>]
        BY <2>1, <4>1
      <4>3. f[j] = Scans(h, msg, i, f[j - 1], j)
        BY <1>9, <4>1, <4>2
      <4>4. body(f, j) = Scans(h, msg, i, f[j - 1], j)
        BY <1>4, <4>1
      <4> QED  BY <4>3, <4>4
    <3> QED  BY <3>1, <3>2
  <2>3. Is(f)
    BY <1>6, <2>1, <2>2
  <2> QED  BY <2>3
<1>11. Is(scan)
  BY <1>10
<1> HIDE DEF scan
<1>12. scan[a] = base /\ \A j \in i .. b : scan[j] = Scans(h, msg, i, scan[j - 1], j)
  <2>0. scan = [j \in a .. b |-> body(scan, j)]
    BY <1>6, <1>11
  <2>1. \A j \in a .. b : scan[j] = body(scan, j)
    BY <2>0
  <2>3. scan[a] = base
    BY <1>3, <1>5, <2>1
  <2>4. ASSUME NEW j \in i .. b PROVE scan[j] = Scans(h, msg, i, scan[j - 1], j)
    <3>1. scan[j] = body(scan, j)
      BY <1>3, <2>1
    <3>2. body(scan, j) = Scans(h, msg, i, scan[j - 1], j)
      BY <1>4
    <3> QED  BY <3>1, <3>2
  <2> QED  BY <2>3, <2>4
<1>13. \A j \in a .. b : scan[j] \in Allowed[j]
  <2>1. \A j \in a + 1 .. b : scan[j - 1] \in Allowed[j - 1] => scan[j] \in Allowed[j]
    BY <1>3, <1>9, <1>12
  <2>2. scan[a] \in Allowed[a]
    BY <1>8, <1>12
  <2> QED  BY <1>3, <2>1, <2>2, LoopKeeps
<1> DEFINE s == scan[b]
<1>14. s \in ScanStates /\ Scanned(h, path, W, msg, i, b, s)
  BY <1>3, <1>7, <1>13
<1> HIDE DEF s
<1>15. Spelt(W)
  BY <1>2 DEF Trie, Spelt
<1>16. \A w \in W : Words!At(msg, i, w) => Len(w) <= b - i + 1
  <2> TAKE w \in W
  <2> HAVE Words!At(msg, i, w)
  <2>1. w \in Seq(Uint32) /\ w # <<>>
    BY <1>15 DEF Spelt
  <2>2. Len(w) \in Nat /\ i + Len(w) - 1 <= Len(msg)
    BY <2>1, FoundFacts
  <2> QED  BY <2>2 DEF b
<1>17. IsLongest(W, msg, i, s.step) /\ s.step \in Nat
  BY <1>14, <1>16 DEF Scanned, IsLongest, ScanStates
<1>18. Words!Longest(W, msg, i) = s.step
  BY <1>15, <1>17, LongestIs
<1> QED  BY <1>1, <1>18 DEF s, b

-----------------------------------------------------------------------------
(* The lists of crab.c.                                                     *)

Spellings == Seq(Uint32) \ {<<>>}

Has(list, w) == \E k \in 1 .. Len(list) : list[k] = w

\* A list of words, the longest first.
Sorted(list) ==
    /\ list \in Seq(Spellings)
    /\ \A j, k \in 1 .. Len(list) : j < k => Len(list[j]) >= Len(list[k])

Listed(ls, W) ==
    /\ W \subseteq Spellings
    /\ ls = [x \in {Hash[rune] : rune \in Uint32} |-> ls[x]]
    /\ \A x \in {Hash[rune] : rune \in Uint32} :
          /\ Sorted(ls[x])
          /\ \A w : Has(ls[x], w) <=> w \in W /\ Hash[w[1]] = x

LEMMA Spelling ==
    ASSUME NEW w \in Spellings
    PROVE  w \in Seq(Uint32) /\ w # <<>> /\ Len(w) \in Nat /\ Len(w) >= 1 /\ w[1] \in Uint32
<1>1. w \in Seq(Uint32) /\ w # <<>>
  BY DEF Spellings
<1> QED  BY <1>1

\* add_word: the list stays sorted.
LEMMA WordAdded ==
    ASSUME NEW list, Sorted(list), NEW word \in Spellings
    PROVE  LET list1 == Words!add_word(list, word)
           IN  /\ Sorted(list1)
               /\ \A w : Has(list1, w) <=> Has(list, w) \/ w = word
<1> DEFINE top == Len(list)
           after == {k \in 1 .. top : ~Words!Precedes(list[k], word)}
           at == IF after = {} THEN top + 1 ELSE CHOOSE k \in after : \A j \in after : k <= j
           list1 == [k \in 1 .. top + 1 |->
                        IF k < at THEN list[k] ELSE IF k = at THEN word ELSE list[k - 1]]
<1>1. Words!add_word(list, word) = list1
  BY DEF Words!add_word
<1>2. /\ top \in Nat /\ list \in Seq(Spellings) /\ \A k \in 1 .. top : list[k] \in Spellings
      /\ \A j, k \in 1 .. top : j < k => Len(list[j]) >= Len(list[k])
  <2>1. list \in Seq(Spellings) /\ \A j, k \in 1 .. top : j < k => Len(list[j]) >= Len(list[k])
    BY DEF Sorted
  <2> QED  BY <2>1
<1>3. \A k \in 1 .. top : Len(list[k]) \in Nat /\ (k \in after <=> Len(list[k]) < Len(word))
  <2> TAKE k \in 1 .. top
  <2>1. Len(list[k]) \in Nat /\ Len(word) \in Nat
    BY <1>2, Spelling
  <2> QED  BY <2>1 DEF Words!Precedes
<1> HIDE DEF top
<1>4. /\ at \in 1 .. top + 1
      /\ \A k \in 1 .. top : k < at => Len(list[k]) >= Len(word)
      /\ \A k \in 1 .. top : k >= at => Len(list[k]) <= Len(word)
  <2>1. after \subseteq 1 .. top /\ after \subseteq Nat
    BY <1>2
  <2>2. Len(word) \in Nat
    BY Spelling
  <2>3. CASE after = {}
    <3>1. at = top + 1
      BY <2>3
    <3> HIDE DEF at, after
    <3> QED  BY <1>2, <1>3, <2>2, <2>3, <3>1
  <2>4. CASE after # {}
    <3> HIDE DEF after
    <3>1. at \in after /\ \A j \in after : at <= j
      <4>1. \E k \in after : \A j \in after : k <= j
        BY <2>1, <2>4, LeastNat
      <4> QED  BY <2>4, <4>1
    <3> HIDE DEF at
    <3>2. at \in 1 .. top /\ Len(list[at]) < Len(word)
      BY <1>3, <2>1, <3>1
    <3>3. \A k \in 1 .. top : k < at => k \notin after
      BY <2>1, <3>1, <3>2
    <3>4. \A k \in 1 .. top : k < at => Len(list[k]) >= Len(word)
      BY <1>3, <2>2, <3>3
    <3>5. \A k \in 1 .. top : k >= at => Len(list[k]) <= Len(word)
      BY <1>2, <1>3, <2>2, <3>2
    <3> QED  BY <1>2, <3>2, <3>4, <3>5
  <2> QED  BY <2>3, <2>4
<1> HIDE DEF at, after
<1>5. /\ \A k \in 1 .. top + 1 : k < at => k \in 1 .. top /\ list1[k] = list[k]
      /\ list1[at] = word
      /\ \A k \in 1 .. top + 1 : k > at => k - 1 \in 1 .. top /\ list1[k] = list[k - 1]
      /\ \A k \in 1 .. top : k >= at => k + 1 \in 1 .. top + 1 /\ list1[k + 1] = list[k]
  BY <1>2, <1>4
<1>6. list1 \in [1 .. top + 1 -> Spellings]
  BY <1>2, <1>4
<1>7. list1 \in Seq(Spellings) /\ Len(list1) = top + 1
  <2>1. top + 1 \in Nat
    BY <1>2
  <2> HIDE DEF list1
  <2> QED  BY <1>6, <2>1
<1> HIDE DEF list1
<1>8. \A j, k \in 1 .. top + 1 : j < k => Len(list1[j]) >= Len(list1[k])
  <2> TAKE j, k \in 1 .. top + 1
  <2> HAVE j < k
  <2>1. CASE k < at
    <3>1. j \in 1 .. top + 1 /\ k \in 1 .. top + 1 /\ j < at
      BY <1>4, <2>1
    <3>2. /\ j \in 1 .. top /\ k \in 1 .. top
          /\ list1[j] = list[j] /\ list1[k] = list[k]
      BY <1>5, <2>1, <3>1
    <3>3. Len(list[j]) >= Len(list[k])
      BY <1>2, <3>2
    <3> QED  BY <3>2, <3>3
  <2>2. CASE k = at
    BY <1>4, <1>5, <2>2
  <2>3. CASE k > at /\ j < at
    <3>1. j \in 1 .. top /\ k - 1 \in 1 .. top /\ j < at /\ k - 1 >= at
      BY <1>2, <1>4, <1>5, <2>3
    <3>2. Len(list[j]) >= Len(word) /\ Len(list[k - 1]) <= Len(word)
      BY <1>4, <3>1
    <3>3. Len(list[j]) \in Nat /\ Len(list[k - 1]) \in Nat /\ Len(word) \in Nat
      BY <1>3, <3>1, Spelling
    <3> QED  BY <1>5, <2>3, <3>2, <3>3
  <2>4. CASE k > at /\ j = at
    <3>1. k - 1 \in 1 .. top /\ k - 1 >= at
      BY <1>2, <1>4, <1>5, <2>4
    <3> QED  BY <1>4, <1>5, <2>4, <3>1
  <2>5. CASE k > at /\ j > at
    <3>1. k - 1 \in 1 .. top /\ j - 1 \in 1 .. top /\ j - 1 < k - 1
      BY <1>2, <1>4, <1>5, <2>5
    <3> QED  BY <1>2, <1>5, <2>5, <3>1
  <2> QED  BY <1>2, <1>4, <2>1, <2>2, <2>3, <2>4, <2>5
<1>9. Sorted(list1)
  BY <1>7, <1>8 DEF Sorted
<1>10. ASSUME NEW w PROVE Has(list1, w) <=> Has(list, w) \/ w = word
  <2>1. ASSUME Has(list1, w) PROVE Has(list, w) \/ w = word
    <3>1. PICK k \in 1 .. top + 1 : list1[k] = w
      BY <1>7, <2>1 DEF Has
    <3>2. k < at \/ k = at \/ k > at
      BY <1>2, <1>4
    <3> QED  BY <1>5, <3>1, <3>2 DEF Has, top
  <2>2. ASSUME Has(list, w) PROVE Has(list1, w)
    <3>1. PICK k \in 1 .. top : list[k] = w
      BY <2>2 DEF Has, top
    <3>2. CASE k < at
      <4>1. k \in 1 .. top + 1
        BY <1>2
      <4> QED  BY <1>5, <1>7, <3>1, <3>2, <4>1 DEF Has
    <3>3. CASE k >= at
      BY <1>5, <1>7, <3>1, <3>3 DEF Has
    <3> QED  BY <1>2, <1>4, <3>2, <3>3
  <2>3. Has(list1, word)
    BY <1>4, <1>5, <1>7 DEF Has
  <2> QED  BY <2>1, <2>2, <2>3
<1>11. Sorted(list1) /\ \A w : Has(list1, w) <=> Has(list, w) \/ w = word
  BY <1>9, <1>10
<1> QED  BY <1>1, <1>11

HashOf == {Hash[rune] : rune \in Uint32}

\* A word begins with the rune at which it is found.
LEMMA AtFirst ==
    ASSUME NEW w \in Spellings, NEW msg \in Seq(Uint32), NEW i \in 1 .. Len(msg),
           Words!At(msg, i, w)
    PROVE  w[1] = msg[i]
<1>1. w \in Seq(Uint32) /\ Len(w) \in Nat /\ Len(w) >= 1 /\ i + Len(w) - 1 <= Len(msg)
      /\ SubSeq(msg, i, i + Len(w) - 1) = w
  BY Spelling DEF Words!At
<1> DEFINE top == i + Len(w) - 1
<1>2. top \in i - 1 .. Len(msg) /\ 1 \in 1 .. top - i + 1 /\ i + 1 - 1 = i
  BY <1>1
<1> HIDE DEF top
<1>3. SubSeq(msg, i, top)[1] = msg[i + 1 - 1]
  BY <1>2, Front
<1> QED  BY <1>1, <1>2, <1>3 DEF top

\* find_word finds the longest word.
LEMMA FoundIsLongest ==
    ASSUME NEW ls, NEW W, Listed(ls, W), NEW msg \in Seq(Uint32), NEW i \in 1 .. Len(msg)
    PROVE  Words!find_word(ls, msg, i) = Words!Longest(W, msg, i)
<1> DEFINE x == Hash[msg[i]]
           list == ls[x]
           top == Len(list)
           hits == {k \in 1 .. top : Words!At(msg, i, list[k])}
           first == CHOOSE k \in hits : \A j \in hits : k <= j
           found == IF hits = {} THEN 0 ELSE Len(list[first])
<1>1. Words!find_word(ls, msg, i) = found
  BY DEF Words!find_word
<1>2. msg[i] \in Uint32 /\ x \in HashOf
  BY DEF HashOf
<1>3. Sorted(list) /\ \A w : Has(list, w) <=> w \in W /\ Hash[w[1]] = x
  BY <1>2 DEF Listed, HashOf
<1>4. W \subseteq Spellings
  BY DEF Listed
<1> HIDE DEF x, list
<1>5. /\ top \in Nat
      /\ \A k \in 1 .. top : list[k] \in Spellings
      /\ \A j, k \in 1 .. top : j < k => Len(list[j]) >= Len(list[k])
  BY <1>3 DEF Sorted
<1>6. \A w : Has(list, w) <=> \E k \in 1 .. top : list[k] = w
  BY DEF Has
<1> HIDE DEF top
<1>7. hits \subseteq 1 .. top /\ \A k \in hits : Words!At(msg, i, list[k])
  OBVIOUS
<1>8. ASSUME NEW w \in W, Words!At(msg, i, w) PROVE \E k \in hits : list[k] = w
  <2>1. Hash[w[1]] = x
    BY <1>4, <1>8, AtFirst DEF x
  <2>2. PICK k \in 1 .. top : list[k] = w
    BY <1>3, <1>6, <2>1
  <2> QED  BY <1>8, <2>2
<1> HIDE DEF hits
<1>9. IsLongest(W, msg, i, found) /\ found \in Nat
  <2>1. CASE hits = {}
    BY <1>8, <2>1 DEF IsLongest
  <2>2. CASE hits # {}
    <3>1. \E k \in hits : \A j \in hits : k <= j
      <4>1. hits \subseteq Nat
        BY <1>5, <1>7
      <4> QED  BY <2>2, <4>1, LeastNat
    <3>2. first \in hits /\ \A j \in hits : first <= j
      BY <3>1
    <3> HIDE DEF first
    <3>3. first \in 1 .. top /\ Words!At(msg, i, list[first]) /\ list[first] \in Spellings
      BY <1>5, <1>7, <3>2
    <3>4. list[first] \in W
      BY <1>3, <1>6, <3>3
    <3>5. Len(list[first]) \in Nat
      BY <3>3, Spelling
    <3>6. ASSUME NEW w \in W, Words!At(msg, i, w) PROVE Len(w) <= Len(list[first])
      <4>1. PICK k \in hits : list[k] = w
        BY <1>8, <3>6
      <4>2. k \in 1 .. top /\ first <= k
        BY <1>7, <3>2, <4>1
      <4>3. first = k \/ first < k
        BY <1>5, <3>3, <4>2
      <4>4. CASE first = k
        BY <3>5, <4>1, <4>4
      <4>5. CASE first < k
        <5>1. Len(list[first]) >= Len(list[k])
          BY <1>5, <3>3, <4>2, <4>5
        <5>2. Len(list[k]) \in Nat
          BY <1>5, <4>2, Spelling
        <5> QED  BY <3>5, <4>1, <5>1, <5>2
      <4> QED  BY <4>3, <4>4, <4>5
    <3>7. found = Len(list[first])
      BY <2>2
    <3> HIDE DEF found
    <3> QED  BY <3>3, <3>4, <3>5, <3>6, <3>7 DEF IsLongest
  <2> QED  BY <2>1, <2>2
<1> HIDE DEF found
<1>10. Spelt(W)
  BY <1>4 DEF Spelt, Spellings
<1>11. Words!Longest(W, msg, i) = found
  BY <1>9, <1>10, LongestIs
<1> QED  BY <1>1, <1>11

\* Insert puts the word into one list.
LEMMA ListedOn ==
    ASSUME NEW ls, NEW W, Listed(ls, W), NEW word \in Spellings
    PROVE  Listed([ls EXCEPT ![Hash[word[1]]] = Words!add_word(@, word)], W \cup {word})
<1> DEFINE y == Hash[word[1]]
           list == ls[y]
           list1 == Words!add_word(list, word)
           ls1 == [ls EXCEPT ![y] = list1]
           W1 == W \cup {word}
<1>1. y \in HashOf
  BY Spelling DEF HashOf
<1>2. /\ W \subseteq Spellings
      /\ ls = [x \in HashOf |-> ls[x]]
      /\ \A x \in HashOf : Sorted(ls[x]) /\ \A w : Has(ls[x], w) <=> w \in W /\ Hash[w[1]] = x
  BY DEF Listed, HashOf
<1>3. Sorted(list1) /\ \A w : Has(list1, w) <=> Has(list, w) \/ w = word
  <2>1. Sorted(list)
    BY <1>1, <1>2
  <2> HIDE DEF list
  <2> QED  BY <2>1, WordAdded
<1> HIDE DEF list1
<1>4. ls1 = [x \in HashOf |-> ls1[x]] /\ ls1[y] = list1
      /\ \A x \in HashOf : x # y => ls1[x] = ls[x]
  BY <1>1, <1>2
<1> HIDE DEF ls1
<1>5. ASSUME NEW x \in HashOf
      PROVE  Sorted(ls1[x]) /\ \A w : Has(ls1[x], w) <=> w \in W1 /\ Hash[w[1]] = x
  <2>1. CASE x = y
    <3>1. ASSUME NEW w PROVE Has(ls1[x], w) <=> w \in W1 /\ Hash[w[1]] = x
      <4>1. Has(ls1[x], w) <=> Has(list, w) \/ w = word
        BY <1>3, <1>4, <2>1
      <4>2. Has(list, w) <=> w \in W /\ Hash[w[1]] = x
        BY <1>1, <1>2, <2>1
      <4>3. w = word => Hash[w[1]] = x
        BY <2>1
      <4> QED  BY <4>1, <4>2, <4>3
    <3> QED  BY <1>3, <1>4, <2>1, <3>1
  <2>2. CASE x # y
    <3>1. ASSUME NEW w PROVE Has(ls1[x], w) <=> w \in W1 /\ Hash[w[1]] = x
      <4>1. Has(ls1[x], w) <=> w \in W /\ Hash[w[1]] = x
        BY <1>2, <1>4, <2>2
      <4>2. w = word => Hash[w[1]] # x
        BY <2>2
      <4> QED  BY <4>1, <4>2
    <3> QED  BY <1>2, <1>4, <2>2, <3>1
  <2> QED  BY <2>1, <2>2
<1>6. W1 \subseteq Spellings
  BY <1>2
<1>7. Listed(ls1, W1)
  BY <1>4, <1>5, <1>6 DEF Listed, HashOf
<1>8. [ls EXCEPT ![y] = Words!add_word(@, word)] = ls1
  BY DEF ls1, list1
<1> QED  BY <1>7, <1>8

LEMMA ListedFirst ==
    Listed([x \in {Hash[rune] : rune \in Uint32} |-> <<>>], {})
<1> DEFINE ls == [x \in HashOf |-> <<>>]
<1>1. \A x \in HashOf : ls[x] = <<>>
  OBVIOUS
<1>2. ls = [x \in HashOf |-> ls[x]]
  OBVIOUS
<1> HIDE DEF ls
<1>3. Sorted(<<>>) /\ \A w : ~Has(<<>>, w)
  BY DEF Sorted, Has
<1>4. Listed(ls, {})
  BY <1>1, <1>2, <1>3 DEF Listed, HashOf
<1> QED  BY <1>4 DEF ls, HashOf

-----------------------------------------------------------------------------
(* The filters.                                                             *)

WordsInv ==
    /\ added \in Seq(Word)
    /\ IsTrie(heap, Words!Words)
    /\ Listed(lists, Words!Words)

LEMMA WordsInit ==
    Words!Init => WordsInv
<1> SUFFICES ASSUME Words!Init PROVE WordsInv
  OBVIOUS
<1>1. added = <<>> /\ heap = <<Words!Table(1)>>
      /\ lists = [x \in {Hash[rune] : rune \in Uint32} |-> <<>>]
  BY DEF Words!Init
<1>2. Words!Words = {}
  BY <1>1 DEF Words!Words
<1>3. added \in Seq(Word)
  BY <1>1
<1>4. IsTrie(heap, {}) /\ Listed(lists, {})
  BY <1>1, TrieStarted, ListedFirst
<1> QED  BY <1>2, <1>3, <1>4 DEF WordsInv

LEMMA WordsInserted ==
    ASSUME WordsInv, NEW word \in Word, Words!Insert(word)
    PROVE  WordsInv'
<1>1. added \in Seq(Word) /\ IsTrie(heap, Words!Words) /\ Listed(lists, Words!Words)
  BY DEF WordsInv
<1>2. /\ added' = Append(added, word)
      /\ heap' = Words!DictInsert(heap, word)
      /\ lists' = [lists EXCEPT ![Hash[word[1]]] = Words!add_word(@, word)]
  BY DEF Words!Insert
<1>3. word \in Spellings /\ word \in Seq(Uint32) /\ word # <<>>
  BY WordsFit DEF Spellings
<1>4. added' \in Seq(Word)
  BY <1>1, <1>2
<1> DEFINE W == Words!Words
           W1 == W \cup {word}
<1>5. Words!Words' = W1
  <2>1. DOMAIN added = 1 .. Len(added) /\ Len(added) \in Nat
        /\ DOMAIN added' = 1 .. Len(added) + 1
        /\ added'[Len(added) + 1] = word
        /\ \A k \in 1 .. Len(added) : added'[k] = added[k]
    BY <1>1, <1>2
  <2>2. Words!Words' = {added'[k] : k \in DOMAIN added'}
    BY DEF Words!Words
  <2>3. W = {added[k] : k \in DOMAIN added}
    BY DEF Words!Words
  <2> HIDE DEF W
  <2> QED  BY <2>1, <2>2, <2>3
<1>6. IsTrie(heap', W1)
  <2> HIDE DEF W
  <2>1. IsTrie(heap, W)
    BY <1>1 DEF W
  <2> QED  BY <1>2, <1>3, <2>1, WordEntered
<1>7. Listed(lists', W1)
  <2> HIDE DEF W
  <2>1. Listed(lists, W)
    BY <1>1 DEF W
  <2>2. Listed([lists EXCEPT ![Hash[word[1]]] = Words!add_word(@, word)], W1)
    BY <1>3, <2>1, ListedOn
  <2> QED  BY <1>2, <2>2
<1> HIDE DEF W1
<1> QED  BY <1>4, <1>5, <1>6, <1>7 DEF WordsInv

LEMMA WordsKept ==
    ASSUME WordsInv, UNCHANGED Words!vars
    PROVE  WordsInv'
<1>1. added' = added /\ heap' = heap /\ lists' = lists
  BY DEF Words!vars
<1>2. Words!Words' = Words!Words
  BY <1>1 DEF Words!Words
<1> QED  BY <1>1, <1>2 DEF WordsInv

\* Where the words are found, the filters replace them.
LEMMA WordsFilter ==
    ASSUME WordsInv
    PROVE  Words!FiltersAll
<1> DEFINE W == Words!Words
<1>1. IsTrie(heap, W) /\ Listed(lists, W)
  BY DEF WordsInv
<1> SUFFICES ASSUME NEW msg \in Message
             PROVE  /\ Words!dict_filter(heap, msg) = Words!Filtered(W, msg)
                    /\ Words!ListFilter(lists, msg) = Words!Filtered(W, msg)
  BY DEF Words!FiltersAll
<1> HIDE DEF W
<1>2. \A p \in Words!Site : p[1] \in Seq(Uint32) /\ p[2] \in 1 .. Len(p[1])
  BY DEF Words!Site
<1>3. \A p \in Words!Site : Words!Step(heap, p[1], p[2]) = Words!Longest(W, p[1], p[2])
  <2> TAKE p \in Words!Site
  <2> DEFINE m == p[1]
             i == p[2]
  <2>1. m \in Seq(Uint32) /\ i \in 1 .. Len(m)
    BY <1>2
  <2> HIDE DEF m, i
  <2>2. Words!Step(heap, m, i) = Words!Longest(W, m, i)
    BY <1>1, <2>1, StepIsLongest
  <2> QED  BY <2>2 DEF m, i
<1>4. \A p \in Words!Site : Words!find_word(lists, p[1], p[2]) = Words!Longest(W, p[1], p[2])
  <2> TAKE p \in Words!Site
  <2> DEFINE m == p[1]
             i == p[2]
  <2>1. m \in Seq(Uint32) /\ i \in 1 .. Len(m)
    BY <1>2
  <2> HIDE DEF m, i
  <2>2. Words!find_word(lists, m, i) = Words!Longest(W, m, i)
    BY <1>1, <2>1, FoundIsLongest
  <2> QED  BY <2>2 DEF m, i
<1> DEFINE right == [p \in Words!Site |-> Words!Longest(W, p[1], p[2])]
<1>5. [p \in Words!Site |-> Words!Step(heap, p[1], p[2])] = right
  BY <1>3
<1>6. [p \in Words!Site |-> Words!find_word(lists, p[1], p[2])] = right
  BY <1>4
<1>7. Words!Filtered(W, msg) = Words!Sweep(right, msg)
  BY DEF Words!Filtered
<1> HIDE DEF right
<1>8. Words!dict_filter(heap, msg) = Words!Sweep(right, msg)
  BY <1>5 DEF Words!dict_filter
<1>9. Words!ListFilter(lists, msg) = Words!Sweep(right, msg)
  BY <1>6 DEF Words!ListFilter
<1> QED  BY <1>7, <1>8, <1>9

\* Whatever words were inserted in whatever order, the trie of lua-crab.c, with
\* its collisions, displaced nodes and tables that grow, and the sorted lists of
\* crab.c filter every message alike: from the left, the longest word that
\* begins at a position is replaced, also before there is any word.
THEOREM FiltersRight == Words!Spec => [](FiltersAll /\ Words!FiltersAll)
<1>1. Words!Init => WordsInv
  BY WordsInit
<1>2. WordsInv /\ [Words!Next]_Words!vars => WordsInv'
  <2> SUFFICES ASSUME WordsInv, [Words!Next]_Words!vars PROVE WordsInv'
    OBVIOUS
  <2>1. CASE Words!Next
    <3>1. PICK word \in Word : Words!Insert(word)
      BY <2>1 DEF Words!Next
    <3> QED  BY <3>1, WordsInserted
  <2>2. CASE UNCHANGED Words!vars
    BY <2>2, WordsKept
  <2> QED  BY <2>1, <2>2
<1>3. WordsInv => FiltersAll /\ Words!FiltersAll
  BY WordsFilter DEF FiltersAll
<1> QED  BY <1>1, <1>2, <1>3, PTL DEF Words!Spec
=============================================================================
