------------------------ MODULE CapabilityQuota_proofs ------------------------
(* Proofs about the rolling quota for every window, every limit, every      *)
(* policy and every number of principals and requests.                      *)
EXTENDS CapabilityQuota, FiniteSetTheorems, WellFoundedInduction, TLAPS

-----------------------------------------------------------------------------
(* Induction.  The set P stands for the property. *)

\* What holds of 0 and of the successor of whatever it holds of holds of all.
LEMMA NaturalInduction ==
    ASSUME NEW P, 0 \in P, \A n \in Nat : n \in P => n + 1 \in P
    PROVE  Nat \subseteq P
<1> DEFINE R == {ss \in Nat \X Nat : ss[1] < ss[2]}
           Bad == Nat \ P
<1>1. IsWellFoundedOn(R, Nat)
  BY NatLessThanWellFounded DEF OpToRel
<1> SUFFICES ASSUME Bad # {} PROVE FALSE
  OBVIOUS
<1>2. PICK n \in Bad : \A m \in Bad : ~(<<m, n>> \in R)
  BY <1>1, WFMin
<1>3. n \in Nat /\ n # 0 /\ n - 1 \in Nat
  BY <1>2
<1>4. n - 1 \in P
  <2>1. <<n - 1, n>> \in Nat \X Nat /\ <<n - 1, n>>[1] < <<n - 1, n>>[2]
    BY <1>3
  <2> QED BY <1>2, <1>3, <2>1
<1>5. (n - 1) + 1 \in P
  BY <1>3, <1>4
<1> QED BY <1>2, <1>3, <1>5

\* The same for histories, which grow at their end.
LEMMA HistoryInduction ==
    ASSUME NEW P, <<>> \in P,
           \A s \in Seq(Nat), x \in Nat : s \in P => Append(s, x) \in P
    PROVE  Seq(Nat) \subseteq P
<1> DEFINE Q == {n \in Nat : \A s \in Seq(Nat) : Len(s) = n => s \in P}
<1>1. 0 \in Q
  <2>1. \A s \in Seq(Nat) : Len(s) = 0 => s = <<>>
    OBVIOUS
  <2> QED BY <2>1
<1>2. ASSUME NEW n \in Nat, n \in Q PROVE n + 1 \in Q
  <2> SUFFICES ASSUME NEW s \in Seq(Nat), Len(s) = n + 1 PROVE s \in P
    OBVIOUS
  <2> DEFINE f == SubSeq(s, 1, n)
  <2>1. f \in Seq(Nat) /\ Len(f) = n /\ s[n + 1] \in Nat
    OBVIOUS
  <2>2. s = Append(f, s[n + 1])
    OBVIOUS
  <2>3. f \in P
    BY <1>2, <2>1
  <2> HIDE DEF f
  <2> QED BY <2>1, <2>2, <2>3
<1>3. Nat \subseteq Q
  <2> HIDE DEF Q
  <2> QED BY <1>1, <1>2, NaturalInduction
<1> QED BY <1>3

-----------------------------------------------------------------------------
(* The window. *)

\* The n-th stage of Recent, from the stages before it.
Stage(f, s, now, n) ==
    IF n = 0 THEN <<>>
    ELSE IF s[n] + Window > now THEN Append(f[n - 1], s[n])
    ELSE f[n - 1]

Stages(f, s, now, m) == f = [n \in 0 .. m |-> Stage(f, s, now, n)]

LEMMA StageOf ==
    ASSUME NEW s, NEW now, NEW m, NEW f, Stages(f, s, now, m), NEW n \in 0 .. m
    PROVE  f[n] = Stage(f, s, now, n)
<1>1. [i \in 0 .. m |-> Stage(f, s, now, i)][n] = Stage(f, s, now, n)
  OBVIOUS
<1> QED BY <1>1 DEF Stages

LEMMA StagesExist ==
    ASSUME NEW s \in Seq(Nat), NEW now \in Nat
    PROVE  \E f : Stages(f, s, now, Len(s))
<1> DEFINE P == {m \in Nat : \E f : Stages(f, s, now, m)}
<1>1. 0 \in P
  <2> DEFINE f == [n \in 0 .. 0 |-> <<>>]
  <2>1. Stages(f, s, now, 0)
    BY DEF Stages, Stage
  <2> QED BY <2>1
<1>2. ASSUME NEW m \in Nat, m \in P PROVE m + 1 \in P
  <2>1. PICK f : Stages(f, s, now, m)
    BY <1>2
  <2> DEFINE g == [n \in 0 .. m + 1 |->
                      IF n <= m THEN f[n] ELSE Stage(f, s, now, m + 1)]
  <2>2. ASSUME NEW n \in 0 .. m + 1 PROVE g[n] = Stage(g, s, now, n)
    <3>1. CASE n <= m
      <4>1. g[n] = f[n] /\ (n # 0 => n - 1 \in 0 .. m /\ g[n - 1] = f[n - 1])
        BY <2>2, <3>1
      <4>2. n \in 0 .. m
        BY <2>2, <3>1
      <4>3. f[n] = Stage(f, s, now, n)
        BY <2>1, <4>2, StageOf
      <4> HIDE DEF g
      <4> QED BY <4>1, <4>3 DEF Stage
    <3>2. CASE n = m + 1
      <4>1. g[n] = Stage(f, s, now, n) /\ n # 0 /\ g[n - 1] = f[n - 1]
        BY <3>2
      <4> HIDE DEF g
      <4> QED BY <4>1 DEF Stage
    <3> QED BY <2>2, <3>1, <3>2
  <2>3. Stages(g, s, now, m + 1)
    <3>1. g = [n \in 0 .. m + 1 |-> g[n]]
      OBVIOUS
    <3> HIDE DEF g
    <3> QED BY <2>2, <3>1 DEF Stages
  <2> HIDE DEF g
  <2> QED BY <2>3
<1>3. Nat \subseteq P
  <2> HIDE DEF P
  <2> QED BY <1>1, <1>2, NaturalInduction
<1> QED BY <1>3

Alike(s, t, m) == \A i \in 1 .. m : s[i] = t[i]

\* Two histories that begin alike go through the same stages.
LEMMA StagesAgree ==
    ASSUME NEW s, NEW t, NEW now \in Nat, NEW m \in Nat, NEW f, NEW g,
           Stages(f, s, now, m), Stages(g, t, now, m + 1),
           Alike(s, t, m)
    PROVE  \A n \in 0 .. m : f[n] = g[n]
<1> DEFINE P == {n \in Nat : n <= m => f[n] = g[n]}
<1>0. /\ \A n \in 0 .. m : f[n] = Stage(f, s, now, n)
      /\ \A n \in 0 .. m : g[n] = Stage(g, t, now, n)
  <2>1. \A n \in 0 .. m : n \in 0 .. m + 1
    OBVIOUS
  <2> QED BY <2>1, StageOf
<1>1. 0 \in P
  BY <1>0 DEF Stage
<1>2. ASSUME NEW n \in Nat, n \in P PROVE n + 1 \in P
  <2> SUFFICES ASSUME n + 1 <= m PROVE f[n + 1] = g[n + 1]
    OBVIOUS
  <2>1. f[n] = g[n] /\ (n + 1) - 1 = n /\ n + 1 # 0 /\ s[n + 1] = t[n + 1]
        /\ n + 1 \in 0 .. m
    BY <1>2 DEF Alike
  <2> QED BY <1>0, <2>1 DEF Stage
<1>3. Nat \subseteq P
  <2> HIDE DEF P
  <2> QED BY <1>1, <1>2, NaturalInduction
<1> QED BY <1>3

LEMMA RecentIsLastStage ==
    ASSUME NEW s \in Seq(Nat), NEW now \in Nat
    PROVE  \E f : Stages(f, s, now, Len(s)) /\ Recent(s, now) = f[Len(s)]
<1>1. PICK f : Stages(f, s, now, Len(s))
  BY StagesExist
<1> QED BY <1>1 DEF Recent, Stages, Stage

LEMMA RecentOfNone ==
    ASSUME NEW now \in Nat
    PROVE  Recent(<<>>, now) = <<>>
<1>1. <<>> \in Seq(Nat) /\ Len(<<>>) = 0
  OBVIOUS
<1>2. PICK f : Stages(f, <<>>, now, 0) /\ Recent(<<>>, now) = f[0]
  BY <1>1, RecentIsLastStage
<1> QED BY <1>2 DEF Stages, Stage

\* One more request counts, or not, by its own timestamp only.
LEMMA RecentOfLonger ==
    ASSUME NEW s \in Seq(Nat), NEW t \in Seq(Nat), NEW now \in Nat, NEW m \in Nat,
           Len(s) = m, Len(t) = m + 1, Alike(s, t, m)
    PROVE  Recent(t, now) =
               IF t[m + 1] + Window > now THEN Append(Recent(s, now), t[m + 1])
               ELSE Recent(s, now)
<1>1. PICK f : Stages(f, s, now, m) /\ Recent(s, now) = f[m]
  BY RecentIsLastStage
<1>2. PICK g : Stages(g, t, now, m + 1) /\ Recent(t, now) = g[m + 1]
  BY RecentIsLastStage
<1>3. \A n \in 0 .. m : f[n] = g[n]
  BY <1>1, <1>2, StagesAgree
<1>4. m + 1 \in 0 .. m + 1 /\ m \in 0 .. m /\ (m + 1) - 1 = m /\ m + 1 # 0
  OBVIOUS
<1>5. g[m + 1] = Stage(g, t, now, m + 1) /\ g[m] = f[m]
  BY <1>2, <1>3, <1>4, StageOf
<1> QED BY <1>1, <1>2, <1>4, <1>5 DEF Stage

LEMMA RecentOfAppend ==
    ASSUME NEW s \in Seq(Nat), NEW x \in Nat, NEW now \in Nat
    PROVE  Recent(Append(s, x), now) =
               IF x + Window > now THEN Append(Recent(s, now), x)
               ELSE Recent(s, now)
<1> DEFINE t == Append(s, x)
<1>1. /\ t \in Seq(Nat) /\ Len(t) = Len(s) + 1 /\ t[Len(s) + 1] = x
      /\ Alike(s, t, Len(s)) /\ Len(s) \in Nat
  BY DEF Alike
<1> HIDE DEF t
<1>2. Recent(t, now) = IF t[Len(s) + 1] + Window > now
                       THEN Append(Recent(s, now), t[Len(s) + 1])
                       ELSE Recent(s, now)
  BY <1>1, RecentOfLonger
<1> QED BY <1>1, <1>2 DEF t

\* What Recent returns is a part of the history that lies in the window.
LEMMA RecentIsPart ==
    ASSUME NEW now \in Nat
    PROVE  \A s \in Seq(Nat) :
              /\ Recent(s, now) \in Seq(Nat) /\ Len(Recent(s, now)) <= Len(s)
              /\ \A i \in 1 .. Len(Recent(s, now)) :
                    /\ Recent(s, now)[i] + Window > now
                    /\ \E j \in 1 .. Len(s) : Recent(s, now)[i] = s[j]
<1> DEFINE Part(s, r) ==
        /\ r \in Seq(Nat) /\ Len(r) <= Len(s)
        /\ \A i \in 1 .. Len(r) : /\ r[i] + Window > now
                                  /\ \E j \in 1 .. Len(s) : r[i] = s[j]
           P == {s \in Seq(Nat) : Part(s, Recent(s, now))}
<1>1. <<>> \in P
  <2>1. Part(<<>>, <<>>)
    OBVIOUS
  <2>2. Part(<<>>, Recent(<<>>, now))
    BY <2>1, RecentOfNone
  <2> HIDE DEF Part
  <2> QED BY <2>2
<1>2. ASSUME NEW s \in Seq(Nat), NEW x \in Nat, s \in P PROVE Append(s, x) \in P
  <2> DEFINE r == Recent(s, now)
             t == Append(s, x)
  <2>1. Part(s, r)
    BY <1>2
  <2> HIDE DEF r
  <2>2. /\ t \in Seq(Nat) /\ Len(t) = Len(s) + 1 /\ t[Len(s) + 1] = x
        /\ Len(s) \in Nat
        /\ \A j \in 1 .. Len(s) : t[j] = s[j]
    OBVIOUS
  <2> HIDE DEF t
  <2>3. Part(t, r)
    <3>1. \A j \in 1 .. Len(s) : j \in 1 .. Len(t)
      BY <2>2
    <3> QED BY <2>1, <2>2, <3>1
  <2>4. ASSUME x + Window > now PROVE Part(t, Append(r, x))
    <3> DEFINE u == Append(r, x)
    <3>1. /\ u \in Seq(Nat) /\ Len(u) = Len(r) + 1 /\ u[Len(r) + 1] = x
          /\ Len(r) \in Nat
          /\ \A j \in 1 .. Len(r) : u[j] = r[j]
      BY <2>1
    <3> HIDE DEF u
    <3>2. Len(u) <= Len(t)
      BY <2>1, <2>2, <3>1
    <3>3. ASSUME NEW i \in 1 .. Len(u)
          PROVE  u[i] + Window > now /\ \E j \in 1 .. Len(t) : u[i] = t[j]
      <4>1. CASE i \in 1 .. Len(r)
        BY <2>3, <3>1, <4>1
      <4>2. CASE i = Len(r) + 1
        <5>1. u[i] = x /\ Len(s) + 1 \in 1 .. Len(t)
          BY <2>2, <3>1, <4>2
        <5> QED BY <2>2, <2>4, <5>1
      <4> QED BY <3>1, <4>1, <4>2
    <3>4. Part(t, u)
      BY <3>1, <3>2, <3>3
    <3> QED BY <3>4 DEF u
  <2>5. Recent(t, now) = r \/ (x + Window > now /\ Recent(t, now) = Append(r, x))
    BY RecentOfAppend DEF r, t
  <2> HIDE DEF Part
  <2>6. Part(t, Recent(t, now))
    BY <2>3, <2>4, <2>5
  <2> QED BY <2>2, <2>6 DEF t
<1>3. Seq(Nat) \subseteq P
  <2> HIDE DEF P
  <2> QED BY <1>1, <1>2, HistoryInduction
<1> QED BY <1>3

\* Ageing by steps is ageing at once.
LEMMA RecentOfRecent ==
    ASSUME NEW now \in Nat, NEW t \in Nat, now <= t
    PROVE  \A s \in Seq(Nat) : Recent(Recent(s, now), t) = Recent(s, t)
<1> DEFINE P == {s \in Seq(Nat) : Recent(Recent(s, now), t) = Recent(s, t)}
<1>1. <<>> \in P
  BY RecentOfNone
<1>2. ASSUME NEW s \in Seq(Nat), NEW x \in Nat, s \in P PROVE Append(s, x) \in P
  <2>1. Recent(Recent(s, now), t) = Recent(s, t) /\ Append(s, x) \in Seq(Nat)
    BY <1>2
  <2>2. Recent(s, now) \in Seq(Nat)
    BY RecentIsPart
  <2>3. CASE x + Window > now
    <3>1. Recent(Append(s, x), now) = Append(Recent(s, now), x)
      BY <2>3, RecentOfAppend
    <3>2. Recent(Append(Recent(s, now), x), t) =
             IF x + Window > t THEN Append(Recent(s, t), x) ELSE Recent(s, t)
      BY <2>1, <2>2, RecentOfAppend
    <3>3. Recent(Append(s, x), t) =
             IF x + Window > t THEN Append(Recent(s, t), x) ELSE Recent(s, t)
      BY RecentOfAppend
    <3> QED BY <2>1, <3>1, <3>2, <3>3
  <2>4. CASE ~(x + Window > now)
    <3>1. Recent(Append(s, x), now) = Recent(s, now)
      BY <2>4, RecentOfAppend
    <3>2. ~(x + Window > t)
      BY <2>4, QuotaAssumption
    <3>3. Recent(Append(s, x), t) = Recent(s, t)
      BY <3>2, RecentOfAppend
    <3> QED BY <2>1, <3>1, <3>3
  <2> QED BY <2>3, <2>4
<1>3. Seq(Nat) \subseteq P
  <2> HIDE DEF P
  <2> QED BY <1>1, <1>2, HistoryInduction
<1> QED BY <1>3

\* A history that was appended to is not empty.
LEMMA AppendIsSome ==
    ASSUME NEW s \in Seq(Nat), NEW x \in Nat
    PROVE  Append(s, x) # <<>>
<1>1. Len(Append(s, x)) = Len(s) + 1 /\ Len(s) \in Nat
  OBVIOUS
<1>2. Len(<<>>) = 0
  OBVIOUS
<1>3. Len(Append(s, x)) # 0
  BY <1>1
<1> QED BY <1>2, <1>3

\* A sequence grows in order when what comes last is not less than the rest.
LEMMA AscendingAppend ==
    ASSUME NEW s \in Seq(Nat), NEW x \in Nat, Ascending(s),
           \A i \in 1 .. Len(s) : s[i] <= x
    PROVE  Ascending(Append(s, x))
<1> DEFINE t == Append(s, x)
<1>1. /\ DOMAIN t = 1 .. Len(s) + 1 /\ t[Len(s) + 1] = x /\ Len(s) \in Nat
      /\ \A i \in 1 .. Len(s) : t[i] = s[i] /\ i \in DOMAIN s /\ s[i] \in Nat
  OBVIOUS
<1> HIDE DEF t
<1>2. ASSUME NEW i \in DOMAIN t, NEW j \in DOMAIN t, i <= j PROVE t[i] <= t[j]
  <2>1. CASE j = Len(s) + 1 /\ i = j
    BY <1>1, <2>1
  <2>2. CASE j = Len(s) + 1 /\ i # j
    <3>1. i \in 1 .. Len(s)
      BY <1>1, <1>2, <2>2
    <3> QED BY <1>1, <2>2, <3>1
  <2>3. CASE j # Len(s) + 1
    <3>1. i \in 1 .. Len(s) /\ j \in 1 .. Len(s)
      BY <1>1, <1>2, <2>3
    <3> QED BY <1>1, <1>2, <3>1 DEF Ascending
  <2> QED BY <2>1, <2>2, <2>3
<1> QED BY <1>2 DEF Ascending, t

LEMMA AscendingFront ==
    ASSUME NEW s \in Seq(Nat), NEW x \in Nat, Ascending(Append(s, x))
    PROVE  Ascending(s) /\ \A i \in 1 .. Len(s) : s[i] <= x
<1> DEFINE t == Append(s, x)
<1>1. /\ DOMAIN t = 1 .. Len(s) + 1 /\ t[Len(s) + 1] = x /\ Len(s) \in Nat
      /\ DOMAIN s = 1 .. Len(s)
      /\ \A i \in 1 .. Len(s) : t[i] = s[i] /\ i \in DOMAIN t /\ i <= Len(s) + 1
      /\ Len(s) + 1 \in DOMAIN t
  OBVIOUS
<1>2. Ascending(t)
  OBVIOUS
<1> HIDE DEF t
<1> QED BY <1>1, <1>2 DEF Ascending

LEMMA RecentAscends ==
    ASSUME NEW now \in Nat
    PROVE  \A s \in Seq(Nat) : Ascending(s) => Ascending(Recent(s, now))
<1> DEFINE P == {s \in Seq(Nat) : Ascending(s) => Ascending(Recent(s, now))}
<1>1. <<>> \in P
  BY RecentOfNone
<1>2. ASSUME NEW s \in Seq(Nat), NEW x \in Nat, s \in P PROVE Append(s, x) \in P
  <2> SUFFICES ASSUME Ascending(Append(s, x))
               PROVE  Ascending(Recent(Append(s, x), now))
    OBVIOUS
  <2>1. Ascending(s) /\ \A i \in 1 .. Len(s) : s[i] <= x
    BY AscendingFront
  <2> DEFINE r == Recent(s, now)
  <2>2. /\ r \in Seq(Nat) /\ Ascending(r)
        /\ \A i \in 1 .. Len(r) : \E j \in 1 .. Len(s) : r[i] = s[j]
    BY <1>2, <2>1, RecentIsPart
  <2>3. Recent(Append(s, x), now) \in {r, Append(r, x)}
    BY RecentOfAppend
  <2> HIDE DEF r
  <2>4. Ascending(Append(r, x))
    BY <2>1, <2>2, AscendingAppend
  <2> QED BY <2>2, <2>3, <2>4
<1>3. Seq(Nat) \subseteq P
  <2> HIDE DEF P
  <2> QED BY <1>1, <1>2, HistoryInduction
<1> QED BY <1>3

\* An ordered history keeps its latest timestamp as long as it keeps any.
LEMMA RecentKeepsLatest ==
    ASSUME NEW s \in Seq(Nat), NEW now \in Nat, Ascending(s), s # <<>>
    PROVE  /\ Latest(s) \in Nat
           /\ Latest(s) + Window > now =>
                 Recent(s, now) # <<>> /\ Latest(Recent(s, now)) = Latest(s)
           /\ Recent(s, now) # <<>> => Latest(s) + Window > now
<1> DEFINE f == SubSeq(s, 1, Len(s) - 1)
           x == Latest(s)
           r == Recent(f, now)
<1>1. Len(s) \in Nat \ {0} /\ DOMAIN s = 1 .. Len(s) /\ x \in Nat
  BY DEF Latest
<1>2. f \in Seq(Nat) /\ s = Append(f, x)
  BY <1>1 DEF Latest
<1>3. ASSUME x + Window > now
      PROVE  Recent(s, now) # <<>> /\ Latest(Recent(s, now)) = x
  <2>1. r \in Seq(Nat)
    BY <1>2, RecentIsPart
  <2>2. Recent(s, now) = Append(r, x)
    BY <1>1, <1>2, <1>3, RecentOfAppend
  <2> HIDE DEF r, x
  <2> QED BY <1>1, <2>1, <2>2 DEF Latest
<1>4. ASSUME Recent(s, now) # <<>> PROVE x + Window > now
  <2> DEFINE u == Recent(s, now)
  <2>1. /\ u \in Seq(Nat)
        /\ \A i \in 1 .. Len(u) : /\ u[i] + Window > now
                                  /\ \E j \in 1 .. Len(s) : u[i] = s[j]
    BY RecentIsPart
  <2> HIDE DEF u
  <2>2. 1 \in 1 .. Len(u) /\ u[1] \in Nat
    BY <1>4, <2>1 DEF u
  <2>3. PICK j \in 1 .. Len(s) : u[1] = s[j]
    BY <2>1, <2>2
  <2>4. u[1] <= x
    BY <1>1, <2>3 DEF Ascending, Latest
  <2> QED BY <1>1, <2>1, <2>2, <2>4, QuotaAssumption
<1> QED BY <1>1, <1>3, <1>4

-----------------------------------------------------------------------------
(* A reservation. *)

LEMMA NoneKept == WellKept(<<>>) /\ <<>> \in Seq(Nat)
  BY QuotaAssumption DEF WellKept, Ascending

LEMMA RecentKept ==
    ASSUME NEW s \in Seq(Nat), NEW now \in Nat, WellKept(s)
    PROVE  Recent(s, now) \in Seq(Nat) /\ WellKept(Recent(s, now))
<1> DEFINE r == Recent(s, now)
<1>1. /\ r \in Seq(Nat) /\ Len(r) <= Len(s)
      /\ \A i \in 1 .. Len(r) : \E j \in 1 .. Len(s) : r[i] = s[j]
  BY RecentIsPart
<1>2. Ascending(r)
  BY RecentAscends DEF WellKept
<1>3. Len(s) <= MaxRequests /\ \A j \in 1 .. Len(s) : s[j] <= MaxClock
  BY DEF WellKept
<1> HIDE DEF r
<1>4. Len(r) <= MaxRequests /\ \A i \in DOMAIN r : r[i] <= MaxClock
  <2>1. Len(r) <= MaxRequests
    BY <1>1, <1>3, QuotaAssumption
  <2>2. DOMAIN r = 1 .. Len(r)
    BY <1>1
  <2>3. ASSUME NEW i \in 1 .. Len(r) PROVE r[i] <= MaxClock
    <3>1. PICK j \in 1 .. Len(s) : r[i] = s[j]
      BY <1>1, <2>3
    <3> QED BY <1>3, <3>1
  <2> QED BY <2>1, <2>2, <2>3
<1> QED BY <1>1, <1>2, <1>4 DEF WellKept, r

\* The effective time is not before the clock nor before the history.
LEMMA EffectiveFacts ==
    ASSUME NEW s \in Seq(Nat), NEW now \in 0 .. MaxClock, WellKept(s)
    PROVE  /\ EffectiveNow(s, now) \in 0 .. MaxClock /\ EffectiveNow(s, now) >= now
           /\ s # <<>> => EffectiveNow(s, now) >= Latest(s)
           /\ s # <<>> /\ Latest(s) <= now => EffectiveNow(s, now) = now
           /\ s = <<>> => EffectiveNow(s, now) = now
           /\ \A i \in 1 .. Len(s) : s[i] <= EffectiveNow(s, now)
<1>1. s # <<>> => /\ Latest(s) \in 0 .. MaxClock
                  /\ \A i \in 1 .. Len(s) : s[i] <= Latest(s) /\ s[i] \in Nat
  BY DEF WellKept, Ascending, Latest
<1> QED BY <1>1, QuotaAssumption DEF EffectiveNow

\* The pruning by the clock does not change the effective time.
LEMMA EffectiveOfRecent ==
    ASSUME NEW s \in Seq(Nat), NEW now \in 0 .. MaxClock, WellKept(s)
    PROVE  EffectiveNow(Recent(s, now), now) = EffectiveNow(s, now)
<1>0. now \in Nat /\ Window \in Nat \ {0}
  BY QuotaAssumption
<1>1. CASE s = <<>>
  BY <1>0, <1>1, RecentOfNone
<1>2. CASE s # <<>>
  <2>1. /\ Latest(s) \in Nat
        /\ Latest(s) + Window > now =>
              Recent(s, now) # <<>> /\ Latest(Recent(s, now)) = Latest(s)
        /\ Recent(s, now) # <<>> => Latest(s) + Window > now
    BY <1>0, <1>2, RecentKeepsLatest DEF WellKept
  <2> QED BY <1>0, <1>2, <2>1 DEF EffectiveNow
<1> QED BY <1>1, <1>2

\* What reserve_capability_request leaves of a history.
LEMMA ReserveFacts ==
    ASSUME NEW h \in History, \A d \in Dids : WellKept(h[d]),
           NEW did \in Dids, NEW now \in 0 .. MaxClock, NEW eff,
           eff = EffectiveNow(h[did], now),
           NEW res, res = ReserveCapabilityRequest(h, did, now)
    PROVE  /\ res \in History
           /\ res[did] = Append(Recent(h[did], eff), eff)
           /\ Latest(res[did]) = eff /\ res[did] # <<>>
           /\ \A d \in Dids \ {did} : res[d] = Recent(h[d], now)
<1> DEFINE pruned == PruneCapabilityRequests(h, now)
<1>1. now \in Nat /\ eff \in Nat /\ now <= eff /\ h[did] \in Seq(Nat)
  BY EffectiveFacts, QuotaAssumption DEF History
<1>2. /\ pruned = [d \in Dids |-> Recent(h[d], now)]
      /\ \A d \in Dids : Recent(h[d], now) \in Seq(Nat)
  BY <1>1, RecentKept DEF PruneCapabilityRequests, History
<1>3. EffectiveNow(pruned[did], now) = eff
  BY <1>1, <1>2, EffectiveOfRecent
<1>4. Recent(pruned[did], eff) = Recent(h[did], eff) /\ Recent(h[did], eff) \in Seq(Nat)
  <2>1. pruned[did] = Recent(h[did], now)
    BY <1>2
  <2>2. Recent(Recent(h[did], now), eff) = Recent(h[did], eff)
    BY <1>1, RecentOfRecent
  <2>3. Recent(h[did], eff) \in Seq(Nat)
    BY <1>1, RecentIsPart
  <2> QED BY <2>1, <2>2, <2>3
<1>5. res = [pruned EXCEPT ![did] = Append(Recent(pruned[did], eff), eff)]
  BY <1>3 DEF ReserveCapabilityRequest
<1> HIDE DEF pruned
<1> DEFINE u == Append(Recent(h[did], eff), eff)
<1>6. res = [d \in Dids |-> IF d = did THEN u ELSE Recent(h[d], now)]
  BY <1>2, <1>4, <1>5
<1>7. u \in Seq(Nat) /\ u # <<>> /\ Latest(u) = eff
  BY <1>1, <1>4 DEF Latest
<1> HIDE DEF u
<1>8. res \in History
  BY <1>2, <1>6, <1>7 DEF History
<1> QED BY <1>6, <1>7, <1>8 DEF u

LEMMA ReservedKept ==
    ASSUME NEW s \in Seq(Nat), NEW now \in 0 .. MaxClock, WellKept(s), NEW eff,
           eff = EffectiveNow(s, now), Len(Recent(s, eff)) < MaxRequests
    PROVE  WellKept(Append(Recent(s, eff), eff))
<1> DEFINE r == Recent(s, eff)
           u == Append(r, eff)
<1>1. eff \in 0 .. MaxClock /\ eff \in Nat /\ \A i \in 1 .. Len(s) : s[i] <= eff
  BY EffectiveFacts, QuotaAssumption
<1>2. /\ r \in Seq(Nat) /\ WellKept(r)
      /\ \A i \in 1 .. Len(r) : \E j \in 1 .. Len(s) : r[i] = s[j]
  BY <1>1, RecentKept, RecentIsPart
<1>3. Len(r) < MaxRequests
  OBVIOUS
<1> HIDE DEF r
<1>4. \A i \in 1 .. Len(r) : r[i] <= eff
  BY <1>1, <1>2
<1>5. Ascending(u)
  BY <1>1, <1>2, <1>4, AscendingAppend DEF WellKept
<1>6. Len(u) = Len(r) + 1 /\ Len(u) <= MaxRequests
  BY <1>1, <1>2, <1>3, QuotaAssumption
<1>7. \A i \in DOMAIN u : u[i] <= MaxClock
  <2>1. /\ DOMAIN u = 1 .. Len(r) + 1 /\ u[Len(r) + 1] = eff /\ Len(r) \in Nat
        /\ \A i \in 1 .. Len(r) : u[i] = r[i]
    BY <1>1, <1>2
  <2>2. \A i \in 1 .. Len(r) : r[i] <= MaxClock
    BY <1>2 DEF WellKept
  <2> HIDE DEF u
  <2>3. ASSUME NEW i \in 1 .. Len(r) + 1 PROVE u[i] <= MaxClock
    <3>1. CASE i = Len(r) + 1
      BY <1>1, <2>1, <3>1
    <3>2. CASE i # Len(r) + 1
      <4>1. i \in 1 .. Len(r)
        BY <2>1, <2>3, <3>2
      <4> QED BY <2>1, <2>2, <4>1
    <3> QED BY <3>1, <3>2
  <2> QED BY <2>1, <2>3
<1> QED BY <1>5, <1>6, <1>7 DEF WellKept, r

-----------------------------------------------------------------------------
(* The invariant of the histories, whatever the clock does. *)

LEMMA RequestTypes ==
    /\ NoRequest \notin Request
    /\ \A r \in Request : r.did \in Dids /\ r.limit \in Nat /\ r.at \in Nat
  BY DEF NoRequest, Request

LEMMA QuotaStart == Init => QuotaInv
<1> SUFFICES ASSUME Init PROVE QuotaInv
  OBVIOUS
<1>1. NoHistory \in History /\ \A d \in Dids : WellKept(NoHistory[d])
  BY NoneKept DEF NoHistory, History
<1>2. TypeOK
  BY <1>1, QuotaAssumption DEF Init, TypeOK
<1>3. \A d \in Dids : requests[d] = <<>> /\ mem[d] = <<>>
  BY DEF Init, NoHistory
<1> QED BY <1>1, <1>2, <1>3 DEF Init, QuotaInv

\* The limit of a request is that of a grant the parser accepted.
LEMMA ReceiveStep ==
    ASSUME QuotaInv, NEW m \in Messages, Receive(m)
    PROVE  QuotaInv'
<1>1. policy \in PolicyFile /\ m.sender \in DOMAIN policy
  BY QuotaAssumption DEF Receive, Authorized, QuotaInv, TypeOK
<1>2. policy[m.sender] \in Grant /\ m.sender \in Dids
  BY <1>1 DEF PolicyFile
<1>3. policy[m.sender].limit \in 1 .. MaxRequests
  BY <1>2 DEF Grant
<1>4. /\ request' \in Request /\ request'.limit <= MaxRequests /\ pc' = "reserve"
      /\ pc = "idle" /\ UNCHANGED <<clock, policy, requests, mem, worked, prunedAt>>
  BY <1>2, <1>3, QuotaAssumption DEF Receive, Request
<1>5. TypeOK'
  BY <1>4 DEF QuotaInv, TypeOK
<1> QED BY <1>4, <1>5 DEF QuotaInv

LEMMA ReserveStep ==
    ASSUME QuotaInv, Reserve
    PROVE  QuotaInv'
<1> DEFINE did == request.did
           eff == EffectiveNow(mem[did], clock)
           res == ReserveCapabilityRequest(mem, did, clock)
<1>1. /\ pc = "reserve" /\ request \in Request /\ request.limit <= MaxRequests
      /\ mem = requests /\ mem \in History /\ clock \in 0 .. MaxClock
      /\ \A d \in Dids : WellKept(mem[d]) /\ WellKept(requests[d])
  BY DEF Reserve, QuotaInv, TypeOK
<1>2. /\ mem' = res /\ request' = [request EXCEPT !.at = Latest(res[did])]
      /\ pc' = "save" /\ UNCHANGED <<clock, policy, requests, worked>>
      /\ prunedAt' = [prunedAt EXCEPT !.mem = clock]
      /\ Len(Recent(mem[did], eff)) < request.limit
  BY DEF Reserve, CapabilityRequestCount
<1>3. did \in Dids /\ request.limit \in Nat /\ mem[did] \in Seq(Nat) /\ clock \in Nat
  BY <1>1, RequestTypes, QuotaAssumption DEF History
<1>4. /\ eff \in 0 .. MaxClock /\ eff \in Nat
      /\ mem[did] # <<>> => eff >= Latest(mem[did])
  BY <1>1, <1>3, EffectiveFacts, QuotaAssumption
<1> HIDE DEF eff, res
<1>5. /\ res \in History
      /\ res[did] = Append(Recent(mem[did], eff), eff)
      /\ Latest(res[did]) = eff
      /\ \A d \in Dids \ {did} : res[d] = Recent(mem[d], clock)
  BY <1>1, <1>3, ReserveFacts DEF eff, res
<1>6. Len(Recent(mem[did], eff)) < MaxRequests
  <2>1. Recent(mem[did], eff) \in Seq(Nat)
    BY <1>3, <1>4, RecentIsPart
  <2> QED BY <1>1, <1>2, <1>3, <2>1, QuotaAssumption
<1>7. WellKept(res[did])
  BY <1>1, <1>3, <1>5, <1>6, ReservedKept DEF eff
<1>8. \A d \in Dids : WellKept(res[d])
  <2>1. \A d \in Dids \ {did} : WellKept(Recent(mem[d], clock))
    BY <1>1, <1>3, RecentKept DEF History
  <2> QED BY <1>5, <1>7, <2>1
<1>9. /\ request' \in Request /\ request'.limit = request.limit
      /\ request'.at = eff
  BY <1>1, <1>2, <1>4, <1>5 DEF Request
<1>10. ASSUME NEW d \in Dids, requests[d] # <<>>, res[d] # <<>>
       PROVE  Latest(res[d]) >= Latest(requests[d])
  <2>1. CASE d = did
    BY <1>1, <1>4, <1>5, <1>10, <2>1
  <2>2. CASE d # did
    <3>1. /\ mem[d] \in Seq(Nat) /\ Ascending(mem[d]) /\ mem[d] # <<>>
          /\ Recent(mem[d], clock) # <<>> /\ res[d] = Recent(mem[d], clock)
      BY <1>1, <1>5, <1>10, <2>2 DEF History, WellKept
    <3>2. Latest(mem[d]) \in Nat /\ Latest(Recent(mem[d], clock)) = Latest(mem[d])
      BY <1>3, <3>1, RecentKeepsLatest
    <3> QED BY <1>1, <3>1, <3>2
  <2> QED BY <2>1, <2>2
<1>p. /\ prunedAt' \in [file : 0 .. MaxClock, mem : 0 .. MaxClock]
      /\ prunedAt'.mem = clock /\ prunedAt'.file = prunedAt.file
  BY <1>1, <1>2 DEF QuotaInv, TypeOK
<1>11. TypeOK'
  BY <1>1, <1>2, <1>5, <1>9, <1>p DEF QuotaInv, TypeOK
<1>r. ASSUME NEW d \in Dids, res[d] # <<>>
      PROVE  Recent(res[d], clock) # <<>>
  <2>1. CASE d = did
    <3> DEFINE u == Recent(mem[did], eff)
    <3>1. u \in Seq(Nat) /\ Recent(u, clock) \in Seq(Nat)
      BY <1>3, <1>4, RecentIsPart
    <3>2. eff + Window > clock
      BY <1>1, <1>3, <1>4, EffectiveFacts, QuotaAssumption DEF eff
    <3> HIDE DEF u
    <3>3. Recent(Append(u, eff), clock) = Append(Recent(u, clock), eff)
      BY <1>3, <1>4, <3>1, <3>2, RecentOfAppend
    <3>4. Append(Recent(u, clock), eff) # <<>>
      BY <1>4, <3>1, AppendIsSome
    <3>5. Recent(Append(u, eff), clock) # <<>>
      BY <3>3, <3>4
    <3> QED BY <1>5, <2>1, <3>5 DEF u
  <2>2. CASE d # did
    <3>1. mem[d] \in Seq(Nat) /\ res[d] = Recent(mem[d], clock)
      BY <1>1, <1>5, <2>2 DEF History
    <3>2. Recent(Recent(mem[d], clock), clock) = Recent(mem[d], clock)
      BY <1>3, <3>1, RecentOfRecent
    <3> QED BY <1>r, <3>1, <3>2
  <2> QED BY <2>1, <2>2
<1>w. \A d \in Dids :
         /\ requests'[d] # <<>> => Recent(requests'[d], prunedAt'.file) # <<>>
         /\ mem'[d] # <<>> => Recent(mem'[d], prunedAt'.mem) # <<>>
  BY <1>2, <1>p, <1>r DEF QuotaInv
<1>12. \A h \in {requests', mem'}, d \in Dids : WellKept(h[d])
  BY <1>1, <1>2, <1>8
<1>13. pc' = "save" => \A d \in Dids :
          requests'[d] # <<>> /\ mem'[d] # <<>> =>
              Latest(mem'[d]) >= Latest(requests'[d])
  BY <1>2, <1>10
<1> QED BY <1>1, <1>2, <1>4, <1>9, <1>11, <1>12, <1>13, <1>w DEF QuotaInv

LEMMA QuotaStep ==
    ASSUME QuotaInv, [Next]_vars
    PROVE  QuotaInv'
<1>1. CASE Start
  <2>1. TypeOK'
    BY <1>1 DEF Start, QuotaInv, TypeOK
  <2>2. prunedAt.mem = prunedAt.file
    BY <1>1 DEF Start, QuotaInv
  <2> QED BY <1>1, <2>1, <2>2 DEF Start, QuotaInv
<1>2. CASE Halt
  <2>1. NoHistory \in History /\ \A d \in Dids : WellKept(NoHistory[d])
    BY NoneKept DEF NoHistory, History
  <2>2. TypeOK' /\ prunedAt'.mem = prunedAt'.file /\ prunedAt'.file = prunedAt.file
    BY <1>2, <2>1 DEF Halt, QuotaInv, TypeOK
  <2>3. \A d \in Dids : NoHistory[d] = <<>>
    BY DEF NoHistory
  <2> QED BY <1>2, <2>1, <2>2, <2>3 DEF Halt, QuotaInv
<1>3. CASE Tick \/ EditPolicy \/ UNCHANGED vars
  <2>1. UNCHANGED <<requests, pc, mem, request, worked, prunedAt>>
    BY <1>3 DEF Tick, EditPolicy, vars
  <2>2. clock' \in 0 .. MaxClock /\ policy' \in UNION PolicySets
    BY <1>3 DEF Tick, EditPolicy, vars, QuotaInv, TypeOK
  <2>3. TypeOK'
    BY <2>1, <2>2 DEF QuotaInv, TypeOK
  <2> QED BY <2>1, <2>3 DEF QuotaInv
<1>4. CASE RateLimited
  <2>1. TypeOK'
    BY <1>4 DEF RateLimited, QuotaInv, TypeOK
  <2> QED BY <1>4, <2>1 DEF RateLimited, QuotaInv
<1>5. CASE Save
  <2>1. TypeOK' /\ prunedAt'.file = prunedAt.mem /\ prunedAt'.mem = prunedAt.mem
    BY <1>5 DEF Save, QuotaInv, TypeOK
  <2> QED BY <1>5, <2>1 DEF Save, QuotaInv
<1>6. CASE Work
  <2>1. request \in Request /\ worked \in Seq(Request)
    BY <1>6 DEF Work, QuotaInv, TypeOK
  <2>2. worked' \in Seq(Request)
    BY <1>6, <2>1 DEF Work
  <2>3. TypeOK'
    BY <1>6, <2>2 DEF Work, QuotaInv, TypeOK
  <2> QED BY <1>6, <2>3 DEF Work, QuotaInv
<1>7. CASE \E m \in Messages : Receive(m)
  BY <1>7, ReceiveStep
<1> QED BY <1>1, <1>2, <1>3, <1>4, <1>5, <1>6, <1>7, ReserveStep DEF Next

\* The histories stay in order, within their bound and, but for a reservation
\* under way, the same in memory and file; whatever the clock and the policy do.
THEOREM QuotaInvariant == Spec => []QuotaInv
<1>1. QuotaInv /\ [Next]_vars => QuotaInv'
  BY QuotaStep
<1> QED BY <1>1, QuotaStart, PTL DEF Spec

\* The state file can be loaded again, whatever the clock, the policy and the
\* crashes do, unless more principals than the loader accepts have a request in
\* the window: no history outlives its window and none grows out of bound.
THEOREM SavedStateLoads == Spec => []SavedIsLoadable
<1>1. ASSUME QuotaInv, Cardinality(SeenInWindow) <= MaxPrincipals
      PROVE  Loadable(requests)
  <2>1. prunedAt.file \in Nat
    BY <1>1, QuotaAssumption DEF QuotaInv, TypeOK
  <2>2. \A d \in Dids : requests[d] # <<>> <=> Recent(requests[d], prunedAt.file) # <<>>
    BY <1>1, <2>1, RecentOfNone DEF QuotaInv
  <2>3. {d \in Dids : requests[d] # <<>>} = SeenInWindow
    BY <2>2 DEF SeenInWindow
  <2>4. \A d \in Dids : Len(requests[d]) <= MaxRequests /\ Ascending(requests[d])
    BY <1>1 DEF QuotaInv, WellKept
  <2> QED BY <1>1, <2>3, <2>4 DEF Loadable
<1>2. QuotaInv => SavedIsLoadable
  BY <1>1 DEF SavedIsLoadable
<1> QED BY <1>2, QuotaInvariant, PTL

\* No save moves a principal's latest timestamp back, however the wall clock
\* is set: reserve_capability_request appends the effective time.
THEOREM HighWaterStays == Spec => TimestampsAscend
<1> DEFINE Kept == \A d \in Dids :
              requests[d] # <<>> /\ requests'[d] # <<>> =>
                  Latest(requests'[d]) >= Latest(requests[d])
<1>1. ASSUME QuotaInv, Next PROVE Kept
  <2>1. CASE Save
    BY <1>1, <2>1 DEF Save, QuotaInv
  <2>2. CASE ~Save
    <3>1. requests' = requests
      BY <1>1, <2>2 DEF Next, Start, Halt, Tick, EditPolicy, Receive, RateLimited,
                        Reserve, Work
    <3>2. ASSUME NEW d \in Dids, requests[d] # <<>> PROVE Latest(requests[d]) \in Nat
      <4>1. requests[d] \in Seq(Nat)
        BY <1>1 DEF QuotaInv, TypeOK, History
      <4> QED BY <3>2, <4>1 DEF Latest
    <3> QED BY <3>1, <3>2
  <2> QED BY <2>1, <2>2
<1>2. QuotaInv /\ [Next]_vars => [Kept]_vars
  BY <1>1
<1> QED BY <1>2, QuotaInvariant, PTL DEF Spec, TimestampsAscend

-----------------------------------------------------------------------------
(* The quota, where the clock only advances or there is one principal. *)

\* Nobody's reservation is pruned by a clock that is later set back.
SteadyWindow == Rewinding = {} \/ \A d, e \in Dids : d = e

LEMMA DoneIsFinite ==
    ASSUME worked \in Seq(Request), NEW d, NEW t
    PROVE  IsFiniteSet(Done(d, t)) /\ Cardinality(Done(d, t)) \in Nat
<1>1. Done(d, t) \in SUBSET (1 .. Len(worked)) /\ Len(worked) \in Nat
  BY DEF Done
<1>2. IsFiniteSet(1 .. Len(worked))
  BY <1>1, FS_Interval
<1> QED BY <1>1, <1>2, FS_Subset, FS_CardinalityType

\* What is under way counts as one more once it is done.
LEMMA DoneGrows ==
    ASSUME worked \in Seq(Request), request \in Request, pc = "work",
           worked' = Append(worked, request), NEW d \in Dids, NEW t \in Nat
    PROVE  /\ Done(d, t)' = (IF request.did = d /\ request.at + Window > t
                             THEN Done(d, t) \cup {Len(worked) + 1}
                             ELSE Done(d, t))
           /\ Cardinality(Done(d, t)') =
                  Cardinality(Done(d, t)) + Awaiting("work", d, t)
<1> DEFINE n == Len(worked)
<1>1. /\ n \in Nat /\ DOMAIN worked = 1 .. n /\ DOMAIN worked' = 1 .. n + 1
      /\ worked'[n + 1] = request
      /\ \A i \in 1 .. n : worked'[i] = worked[i]
  OBVIOUS
<1> HIDE DEF n
<1>2. Done(d, t)' = (IF request.did = d /\ request.at + Window > t
                     THEN Done(d, t) \cup {n + 1} ELSE Done(d, t))
  <2>1. \A i : i \in Done(d, t)' <=>
                  /\ i \in 1 .. n + 1
                  /\ worked'[i].did = d /\ worked'[i].at + Window > t
    BY <1>1 DEF Done
  <2>2. \A i : i \in Done(d, t) <=>
                  /\ i \in 1 .. n
                  /\ worked[i].did = d /\ worked[i].at + Window > t
    BY <1>1 DEF Done
  <2>3. \A i : i \in 1 .. n + 1 <=> i \in 1 .. n \/ i = n + 1
    BY <1>1
  <2>4. n + 1 \notin 1 .. n
    BY <1>1
  <2>5. \A i : i \in Done(d, t)' <=>
                  \/ i \in Done(d, t)
                  \/ i = n + 1 /\ request.did = d /\ request.at + Window > t
    BY <1>1, <2>1, <2>2, <2>3, <2>4
  <2> QED BY <2>5
<1>3. n + 1 \notin Done(d, t)
  BY <1>1 DEF Done
<1>4. /\ IsFiniteSet(Done(d, t)) /\ Cardinality(Done(d, t)) \in Nat
  BY DoneIsFinite
<1>5. Cardinality(Done(d, t) \cup {n + 1}) = Cardinality(Done(d, t)) + 1
  BY <1>3, <1>4, FS_AddElement
<1> QED BY <1>2, <1>4, <1>5 DEF Awaiting, n

LEMMA CoverStart == Init => CoverInv
<1> SUFFICES ASSUME Init PROVE CoverInv
  OBVIOUS
<1>1. \A d \in Dids : requests[d] = <<>> /\ mem[d] = <<>>
  BY DEF Init, NoHistory
<1>2. ASSUME NEW d \in Dids, NEW t \in 0 .. MaxClock
      PROVE  Cardinality(Done(d, t)) = 0 /\ Len(Recent(requests[d], t)) = 0
  <2>1. Done(d, t) = {}
    BY DEF Init, Done
  <2>2. Recent(requests[d], t) = <<>>
    BY <1>1, RecentOfNone, QuotaAssumption
  <2> QED BY <2>1, <2>2, FS_EmptySet
<1>3. pc = "down" /\ WorkWithinQuota
  BY DEF Init, WorkWithinQuota
<1>4. \A d \in Dids, t \in 0 .. MaxClock : Awaiting("work", d, t) = 0
  BY <1>3 DEF Awaiting
<1> QED BY <1>1, <1>2, <1>3, <1>4 DEF CoverInv

\* What the invariants give for one principal at one time.
LEMMA Typing ==
    ASSUME QuotaInv
    PROVE  /\ clock \in Nat /\ clock \in 0 .. MaxClock /\ worked \in Seq(Request)
           /\ requests \in History /\ mem \in History
           /\ \A d \in Dids : /\ requests[d] \in Seq(Nat) /\ WellKept(requests[d])
                              /\ mem[d] \in Seq(Nat) /\ WellKept(mem[d])
           /\ \A d, t : Cardinality(Done(d, t)) \in Nat
           /\ \A d \in Dids, t \in 0 .. MaxClock :
                 /\ t \in Nat /\ Len(Recent(requests[d], t)) \in Nat
                 /\ Len(Recent(mem[d], t)) \in Nat
<1>1. /\ clock \in Nat /\ clock \in 0 .. MaxClock /\ worked \in Seq(Request)
      /\ requests \in History /\ mem \in History
      /\ \A d \in Dids : /\ requests[d] \in Seq(Nat) /\ WellKept(requests[d])
                         /\ mem[d] \in Seq(Nat) /\ WellKept(mem[d])
  BY QuotaAssumption DEF QuotaInv, TypeOK, History
<1>2. \A d, t : Cardinality(Done(d, t)) \in Nat
  BY <1>1, DoneIsFinite
<1>3. \A t \in 0 .. MaxClock : t \in Nat
  BY QuotaAssumption
<1>4. \A d \in Dids, t \in 0 .. MaxClock :
         Recent(requests[d], t) \in Seq(Nat) /\ Recent(mem[d], t) \in Seq(Nat)
  BY <1>1, <1>3, RecentIsPart
<1> QED BY <1>1, <1>2, <1>3, <1>4

\* Steps that neither reserve, save nor work.
LEMMA CoverQuiet ==
    ASSUME QuotaInv, CoverInv, Start \/ Halt \/ RateLimited \/ Tick \/ EditPolicy
                               \/ UNCHANGED vars \/ \E m \in Messages : Receive(m)
    PROVE  CoverInv'
<1>1. UNCHANGED <<requests, worked>>
  BY DEF Start, Halt, RateLimited, Tick, EditPolicy, vars, Receive
<1>2. \A d, t : Done(d, t)' = Done(d, t)
  BY <1>1 DEF Done
<1>3. WorkWithinQuota'
  BY <1>1 DEF CoverInv, WorkWithinQuota, WorkedInWindow
<1>4. \/ UNCHANGED <<pc, mem, request>>
      \/ pc' \in {"down", "idle", "reserve"} /\ clock' = clock
           /\ (mem' = mem \/ mem' = requests \/ mem' = NoHistory)
  BY DEF Start, Halt, RateLimited, Tick, EditPolicy, vars, Receive
<1>5. clock \in Nat /\ clock' \in Nat /\ (Rewinding = {} => clock' >= clock)
  BY Typing, QuotaAssumption DEF Start, Halt, RateLimited, Tick, EditPolicy, vars,
                                 Receive
<1>6. \A d \in Dids, t \in 0 .. MaxClock :
         /\ t >= Horizon(requests, d)' => t >= Horizon(requests, d)
         /\ pc' = "save" => mem' = mem /\ pc = pc' /\ request' = request
         /\ pc' = "save" /\ t >= Horizon(mem, d)' => t >= Horizon(mem, d)
  BY <1>1, <1>4, <1>5, Typing DEF Horizon
<1>7. \A d, t : /\ Awaiting("work", d, t)' <= Awaiting("work", d, t)
                /\ Awaiting("work", d, t) \in 0 .. 1
                /\ Awaiting("work", d, t)' \in 0 .. 1
                /\ pc' = "save" => Awaiting("save", d, t)' = Awaiting("save", d, t)
  BY <1>4 DEF Awaiting
<1>8. Rewinding = {} => \A h \in {requests', mem'}, d \in Dids :
          h[d] # <<>> => Latest(h[d]) <= clock'
  <2> SUFFICES ASSUME Rewinding = {}, NEW h \in {requests', mem'}, NEW d \in Dids,
                      h[d] # <<>>
               PROVE  Latest(h[d]) <= clock'
    OBVIOUS
  <2>1. h \in {requests, mem}
    BY <1>1, <1>4 DEF NoHistory
  <2>2. h[d] \in Seq(Nat) /\ Latest(h[d]) <= clock
    BY <2>1, Typing DEF CoverInv
  <2>3. Latest(h[d]) \in Nat
    BY <2>2 DEF Latest
  <2> QED BY <1>5, <2>2, <2>3
<1>9. ASSUME NEW d \in Dids, NEW t \in 0 .. MaxClock
      PROVE  /\ t >= Horizon(requests, d)' =>
                    Cardinality(Done(d, t)') + Awaiting("work", d, t)'
                        <= Len(Recent(requests'[d], t))
             /\ pc' = "save" /\ t >= Horizon(mem, d)' =>
                    Cardinality(Done(d, t)') + Awaiting("save", d, t)'
                        <= Len(Recent(mem'[d], t))
  <2>1. /\ t >= Horizon(requests, d) =>
              Cardinality(Done(d, t)) + Awaiting("work", d, t)
                  <= Len(Recent(requests[d], t))
        /\ pc = "save" /\ t >= Horizon(mem, d) =>
              Cardinality(Done(d, t)) + Awaiting("save", d, t)
                  <= Len(Recent(mem[d], t))
    BY DEF CoverInv
  <2>2. Cardinality(Done(d, t)) \in Nat /\ Len(Recent(requests[d], t)) \in Nat
    BY Typing
  <2> QED BY <1>1, <1>2, <1>6, <1>7, <2>1, <2>2
<1>10. (pc \in {"save", "work"} =>
           Cardinality(Done(request.did, request.at)) < request.limit)'
  BY <1>1, <1>4 DEF CoverInv, Done
<1> QED BY <1>3, <1>8, <1>9, <1>10 DEF CoverInv

\* The reservation is one that the history it is added to has room for.
LEMMA CoverReserve ==
    ASSUME SteadyWindow, QuotaInv, CoverInv, Reserve
    PROVE  CoverInv'
<1> DEFINE did == request.did
           eff == EffectiveNow(mem[did], clock)
           res == ReserveCapabilityRequest(mem, did, clock)
<1>1. /\ pc = "reserve" /\ request \in Request /\ mem = requests
      /\ did \in Dids /\ request.limit \in Nat
  BY RequestTypes DEF Reserve, QuotaInv
<1>2. /\ mem' = res /\ request' = [request EXCEPT !.at = Latest(res[did])]
      /\ pc' = "save" /\ UNCHANGED <<clock, requests, worked>>
      /\ Len(Recent(mem[did], eff)) < request.limit
  BY DEF Reserve, CapabilityRequestCount
<1>3. /\ eff \in 0 .. MaxClock /\ eff \in Nat /\ eff >= clock
      /\ mem[did] # <<>> => eff >= Latest(mem[did])
      /\ mem[did] # <<>> /\ Latest(mem[did]) <= clock => eff = clock
      /\ mem[did] = <<>> => eff = clock
  BY <1>1, Typing, EffectiveFacts
<1>4. Rewinding = {} => eff = clock
  BY <1>1, <1>3 DEF CoverInv
<1> HIDE DEF eff, res
<1>5. /\ res \in History
      /\ res[did] = Append(Recent(mem[did], eff), eff)
      /\ Latest(res[did]) = eff /\ res[did] # <<>>
      /\ \A d \in Dids \ {did} : res[d] = Recent(mem[d], clock)
  <2>1. /\ mem \in History /\ clock \in 0 .. MaxClock
        /\ \A d \in Dids : WellKept(mem[d])
    BY Typing
  <2> QED BY <1>1, <2>1, ReserveFacts DEF eff, res
<1>6. request'.did = did /\ request'.at = eff /\ request'.limit = request.limit
  BY <1>1, <1>2, <1>5 DEF Request
<1>7. \A d, t : Done(d, t)' = Done(d, t)
  BY <1>2 DEF Done
<1>8. WorkWithinQuota'
  BY <1>2 DEF CoverInv, WorkWithinQuota, WorkedInWindow
<1>9. ASSUME Rewinding = {}, NEW h \in {requests', mem'}, NEW d \in Dids, h[d] # <<>>
      PROVE  Latest(h[d]) <= clock'
  <2>1. CASE h = requests'
    BY <1>2, <1>9, <2>1 DEF CoverInv
  <2>2. CASE h = mem' /\ d = did
    BY <1>2, <1>3, <1>4, <1>5, <1>9, <2>2, Typing
  <2>3. CASE h = mem' /\ d # did
    <3>1. /\ mem[d] \in Seq(Nat) /\ Ascending(mem[d]) /\ clock \in Nat
          /\ h[d] = Recent(mem[d], clock)
      BY <1>2, <1>5, <2>3, Typing DEF WellKept
    <3>2. mem[d] # <<>>
      BY <1>9, <3>1, RecentOfNone
    <3>3. Latest(h[d]) = Latest(mem[d])
      BY <1>9, <3>1, <3>2, RecentKeepsLatest
    <3> QED BY <1>2, <1>9, <3>2, <3>3 DEF CoverInv
  <2> QED BY <1>9, <2>1, <2>2, <2>3
<1>10. ASSUME NEW d \in Dids, NEW t \in 0 .. MaxClock, t >= Horizon(requests, d)
       PROVE  Cardinality(Done(d, t)) <= Len(Recent(mem[d], t))
  <2>1. Awaiting("work", d, t) = 0
    BY <1>1 DEF Awaiting
  <2>2. Cardinality(Done(d, t)) + Awaiting("work", d, t) <= Len(Recent(requests[d], t))
    BY <1>10 DEF CoverInv
  <2> QED BY <1>1, <2>1, <2>2, Typing
<1>11. ASSUME NEW d \in Dids, NEW t \in 0 .. MaxClock, t >= Horizon(requests, d)'
       PROVE  Cardinality(Done(d, t)') + Awaiting("work", d, t)'
                  <= Len(Recent(requests'[d], t))
  <2>1. Awaiting("work", d, t)' = 0
    BY <1>2 DEF Awaiting
  <2>2. t >= Horizon(requests, d)
    BY <1>2, <1>11 DEF Horizon
  <2> QED BY <1>1, <1>2, <1>7, <1>10, <2>1, <2>2, Typing
<1>12. ASSUME NEW d \in Dids, NEW t \in 0 .. MaxClock, t >= Horizon(mem, d)'
       PROVE  Cardinality(Done(d, t)') + Awaiting("save", d, t)'
                  <= Len(Recent(mem'[d], t))
  <2>0. t \in Nat /\ clock \in Nat /\ mem[d] \in Seq(Nat)
    BY Typing
  <2>1. CASE d = did
    <3>1. t >= eff
      BY <1>2, <1>4, <1>5, <1>12, <2>1 DEF Horizon
    <3>2. t >= Horizon(requests, d)
      <4>1. requests[d] # <<>> => Latest(requests[d]) \in Nat
        BY <1>1, <2>0 DEF Latest
      <4> QED BY <1>1, <1>3, <2>0, <2>1, <3>1, <4>1 DEF Horizon
    <3>3. Cardinality(Done(d, t)) <= Len(Recent(mem[d], t))
      BY <1>10, <3>2
    <3>4. Recent(mem[d], eff) \in Seq(Nat) /\ Recent(mem[d], t) \in Seq(Nat)
      BY <1>3, <2>0, RecentIsPart
    <3>5. Recent(Recent(mem[d], eff), t) = Recent(mem[d], t)
      BY <1>3, <2>0, <3>1, RecentOfRecent
    <3>6. Recent(mem'[d], t) = IF eff + Window > t THEN Append(Recent(mem[d], t), eff)
                               ELSE Recent(mem[d], t)
      <4> DEFINE r == Recent(mem[d], eff)
      <4>1. mem'[d] = Append(r, eff) /\ r \in Seq(Nat)
        BY <1>2, <1>5, <2>1, <3>4
      <4>2. Recent(r, t) = Recent(mem[d], t)
        BY <3>5
      <4> HIDE DEF r
      <4>3. Recent(Append(r, eff), t) =
               IF eff + Window > t THEN Append(Recent(r, t), eff) ELSE Recent(r, t)
        BY <1>3, <2>0, <4>1, RecentOfAppend
      <4> QED BY <4>1, <4>2, <4>3
    <3>7. Awaiting("save", d, t)' = IF eff + Window > t THEN 1 ELSE 0
      BY <1>2, <1>6, <2>1 DEF Awaiting
    <3>8. Len(Append(Recent(mem[d], t), eff)) = Len(Recent(mem[d], t)) + 1
      BY <3>4
    <3> QED BY <1>7, <3>3, <3>4, <3>6, <3>7, <3>8, Typing
  <2>2. CASE d # did
    <3>1. Rewinding = {}
      BY <1>1, <2>2 DEF SteadyWindow
    <3>2. t >= clock /\ t >= Horizon(requests, d)
      BY <1>2, <1>12, <3>1 DEF Horizon
    <3>3. mem'[d] = Recent(mem[d], clock)
      BY <1>2, <1>5, <2>2
    <3>4. Recent(mem'[d], t) = Recent(mem[d], t)
      BY <2>0, <3>2, <3>3, RecentOfRecent
    <3>5. Awaiting("save", d, t)' = 0
      BY <1>6, <2>2 DEF Awaiting
    <3> QED BY <1>7, <1>10, <3>2, <3>4, <3>5, Typing
  <2> QED BY <2>1, <2>2
<1>13. Cardinality(Done(did, eff)) < request.limit
  <2>1. eff >= Horizon(requests, did)
    <3>1. requests[did] # <<>> => Latest(requests[did]) \in Nat
      BY <1>1, Typing DEF Latest
    <3> QED BY <1>1, <1>3, <3>1 DEF Horizon
  <2>2. Cardinality(Done(did, eff)) <= Len(Recent(mem[did], eff))
    BY <1>1, <1>3, <1>10, <2>1
  <2> QED BY <1>1, <1>2, <1>3, <2>2, Typing
<1>14. (Cardinality(Done(request.did, request.at)) < request.limit)'
  <2>1. (Done(request.did, request.at))' = Done(did, eff)
    BY <1>2, <1>6 DEF Done
  <2> QED BY <1>6, <1>13, <2>1
<1> QED BY <1>8, <1>9, <1>11, <1>12, <1>14 DEF CoverInv

LEMMA CoverSave ==
    ASSUME QuotaInv, CoverInv, Save
    PROVE  CoverInv'
<1>1. /\ pc = "save" /\ requests' = mem /\ pc' = "work"
      /\ UNCHANGED <<clock, mem, request, worked>>
  BY DEF Save
<1>2. \A d, t : Done(d, t)' = Done(d, t)
  BY <1>1 DEF Done
<1>3. WorkWithinQuota'
  BY <1>1 DEF CoverInv, WorkWithinQuota, WorkedInWindow
<1>4. Rewinding = {} => \A h \in {requests', mem'}, d \in Dids :
          h[d] # <<>> => Latest(h[d]) <= clock'
  BY <1>1 DEF CoverInv
<1>5. \A d, t : Awaiting("work", d, t)' = Awaiting("save", d, t)
  BY <1>1 DEF Awaiting
<1>6. \A d : Horizon(requests, d)' = Horizon(mem, d)
  BY <1>1 DEF Horizon
<1>7. \A d \in Dids, t \in 0 .. MaxClock :
         t >= Horizon(requests, d)' =>
            Cardinality(Done(d, t)') + Awaiting("work", d, t)'
                <= Len(Recent(requests'[d], t))
  BY <1>1, <1>2, <1>5, <1>6 DEF CoverInv
<1>8. (Cardinality(Done(request.did, request.at)) < request.limit)'
  BY <1>1 DEF CoverInv, Done
<1> QED BY <1>1, <1>3, <1>4, <1>7, <1>8 DEF CoverInv

\* What is worked on last fills the quota of its principal at most.
LEMMA CoverWork ==
    ASSUME QuotaInv, CoverInv, Work
    PROVE  CoverInv'
<1>1. /\ pc = "work" /\ worked' = Append(worked, request) /\ pc' = "idle"
      /\ UNCHANGED <<clock, requests, mem>>
      /\ request \in Request /\ worked \in Seq(Request)
      /\ request.did \in Dids /\ request.at \in Nat /\ request.limit \in Nat
  BY RequestTypes DEF Work, QuotaInv, TypeOK
<1>2. PICK n \in Nat :
         /\ DOMAIN worked = 1 .. n /\ DOMAIN worked' = 1 .. n + 1
         /\ worked'[n + 1] = request
         /\ \A i \in 1 .. n : worked'[i] = worked[i]
  <2>1. /\ Len(worked) \in Nat /\ DOMAIN worked = 1 .. Len(worked)
        /\ DOMAIN worked' = 1 .. Len(worked) + 1
        /\ worked'[Len(worked) + 1] = request
        /\ \A i \in 1 .. Len(worked) : worked'[i] = worked[i]
    BY <1>1
  <2> QED BY <2>1
<1>3. ASSUME NEW d \in Dids, NEW t \in 0 .. MaxClock, t >= Horizon(requests, d)'
      PROVE  Cardinality(Done(d, t)') + Awaiting("work", d, t)'
                 <= Len(Recent(requests'[d], t))
  <2>1. t >= Horizon(requests, d) /\ t \in Nat
    BY <1>1, <1>3, Typing DEF Horizon
  <2>2. Cardinality(Done(d, t)') = Cardinality(Done(d, t)) + Awaiting("work", d, t)
    BY <1>1, <2>1, DoneGrows
  <2>3. Awaiting("work", d, t)' = 0
    BY <1>1 DEF Awaiting
  <2>4. Cardinality(Done(d, t)) + Awaiting("work", d, t) <= Len(Recent(requests[d], t))
    BY <2>1 DEF CoverInv
  <2>5. Awaiting("work", d, t) \in 0 .. 1
    BY DEF Awaiting
  <2> QED BY <1>1, <2>2, <2>3, <2>4, <2>5, Typing
<1>4. Rewinding = {} => \A h \in {requests', mem'}, d \in Dids :
          h[d] # <<>> => Latest(h[d]) <= clock'
  BY <1>1 DEF CoverInv
<1>5. WorkWithinQuota'
  <2> SUFFICES ASSUME NEW i \in 1 .. n + 1
               PROVE  (Cardinality(WorkedInWindow(i)) <= worked[i].limit)'
    BY <1>2 DEF WorkWithinQuota
  <2>1. CASE i \in 1 .. n
    <3>1. \A j \in 1 .. i : j \in 1 .. n
      BY <1>2, <2>1
    <3>2. WorkedInWindow(i)' = WorkedInWindow(i)
      BY <1>2, <2>1, <3>1 DEF WorkedInWindow
    <3>3. Cardinality(WorkedInWindow(i)) <= worked[i].limit
      BY <1>2, <2>1 DEF CoverInv, WorkWithinQuota
    <3> QED BY <1>2, <2>1, <3>2, <3>3
  <2>2. CASE i = n + 1
    <3> DEFINE S == Done(request.did, request.at)
    <3>1. request.at + Window > request.at
      BY <1>1, QuotaAssumption
    <3>2. WorkedInWindow(n + 1)' = S \cup {n + 1}
      <4>1. \A j : j \in WorkedInWindow(n + 1)' <=>
                      /\ j \in 1 .. n + 1
                      /\ worked'[j].did = request.did
                      /\ worked'[j].at + Window > request.at
        BY <1>2 DEF WorkedInWindow
      <4>2. \A j : j \in S <=> /\ j \in 1 .. n
                               /\ worked[j].did = request.did
                               /\ worked[j].at + Window > request.at
        BY <1>2 DEF Done
      <4>3. \A j : j \in 1 .. n + 1 <=> j \in 1 .. n \/ j = n + 1
        BY <1>2
      <4>4. \A j : j \in WorkedInWindow(n + 1)' <=> j \in S \/ j = n + 1
        BY <1>2, <3>1, <4>1, <4>2, <4>3
      <4> QED BY <4>4
    <3>3. n + 1 \notin S
      BY <1>2 DEF Done
    <3>4. IsFiniteSet(S) /\ Cardinality(S) \in Nat
      BY <1>1, DoneIsFinite
    <3>5. Cardinality(S \cup {n + 1}) = Cardinality(S) + 1
      BY <3>3, <3>4, FS_AddElement
    <3>6. Cardinality(S) < request.limit
      BY <1>1 DEF CoverInv
    <3> HIDE DEF S
    <3>7. Cardinality(WorkedInWindow(n + 1)') <= request.limit
      <4>1. Cardinality(WorkedInWindow(n + 1)') = Cardinality(S) + 1
        BY <3>2, <3>5, Zenon
      <4>2. Cardinality(S) + 1 <= request.limit
        BY <1>1, <3>4, <3>6
      <4> QED BY <4>1, <4>2
    <3> QED BY <1>2, <2>2, <3>7
  <2> QED BY <1>2, <2>1, <2>2
<1> QED BY <1>1, <1>3, <1>4, <1>5 DEF CoverInv

\* From its horizon on the state file counts all that was and will be worked on.
THEOREM CoverInvariant ==
    ASSUME SteadyWindow
    PROVE  Spec => []CoverInv
<1>1. QuotaInv /\ CoverInv /\ [Next]_vars => CoverInv'
  BY CoverQuiet, CoverReserve, CoverSave, CoverWork DEF Next
<1> QED BY <1>1, CoverStart, QuotaInvariant, PTL DEF Spec

\* No principal gets more work done in a rolling window than its grant allows,
\* through every crash, restart and policy edit, where the clock only advances
\* or there is one principal.
THEOREM QuotaHolds ==
    ASSUME SteadyWindow
    PROVE  Spec => []WorkWithinQuota
<1>1. CoverInv => WorkWithinQuota
  BY DEF CoverInv
<1> QED BY <1>1, CoverInvariant, PTL

\* Under the same condition a restart finds every piece of work that still
\* counts: the reservation is saved before the work.
THEOREM WorkSurvives ==
    ASSUME SteadyWindow
    PROVE  Spec => []WorkIsDurable
<1>1. ASSUME QuotaInv, CoverInv, NEW d \in Dids
      PROVE  Len(requests[d]) >=
                 Cardinality(Done(d, EffectiveNow(requests[d], clock)))
  <2> DEFINE now == EffectiveNow(requests[d], clock)
  <2>1. /\ now \in 0 .. MaxClock /\ now >= clock
        /\ requests[d] # <<>> => now >= Latest(requests[d])
    BY <1>1, Typing, EffectiveFacts
  <2> HIDE DEF now
  <2>2. now >= Horizon(requests, d) /\ now \in Nat
    BY <2>1, QuotaAssumption DEF Horizon
  <2>3. Cardinality(Done(d, now)) + Awaiting("work", d, now)
            <= Len(Recent(requests[d], now))
    BY <1>1, <2>1, <2>2 DEF CoverInv
  <2>4. Awaiting("work", d, now) \in 0 .. 1
    BY DEF Awaiting
  <2>5. /\ Len(Recent(requests[d], now)) \in Nat /\ Len(requests[d]) \in Nat
        /\ Cardinality(Done(d, now)) \in Nat
        /\ Len(Recent(requests[d], now)) <= Len(requests[d])
    BY <1>1, <2>1, <2>2, Typing, RecentIsPart
  <2>6. Len(requests[d]) >= Cardinality(Done(d, now))
    BY <2>3, <2>4, <2>5
  <2> QED BY <2>6 DEF now
<1>2. QuotaInv /\ CoverInv => WorkIsDurable
  BY <1>1 DEF WorkIsDurable
<1> QED BY <1>2, QuotaInvariant, CoverInvariant, PTL

=============================================================================
