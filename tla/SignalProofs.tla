---------------------------- MODULE SignalProofs -----------------------------
(***************************************************************************)
(* The anticipatory signals, for any entities, readings, windows and       *)
(* faults: the gate scores a position by what the trackers found when they *)
(* wrote the files, and growth is never held against a position, nor       *)
(* decline for it.                                                         *)
(***************************************************************************)
EXTENDS SignalHistories, FoldFacts

\* What a tracker reads of an entity.
Categories(t, e) ==
    CASE t = "JPVI" -> Followed(JpviPositions[e])
      [] t = "PFVT" -> Followed(PfvtPositions[e])
      [] t = "SCCR" -> {"volume"}
      [] t = "ELVT" -> LanguageCategories

\* Counts are not negative; a tone may be.
Numbers(t) == IF t = "ELVT" THEN Int ELSE Nat

Entry(t, e) == [monday : Nat, reads : [Categories(t, e) -> Numbers(t)]]

Filed(t) ==
    /\ DOMAIN file[t] = Watched(t)
    /\ \A e \in Watched(t) : file[t][e] \in Seq(Entry(t, e))

HistoriesTyped ==
    /\ world \in Worlds /\ monday \in Nat
    /\ file = [t \in Trackers |-> file[t]] /\ found = [t \in Trackers |-> found[t]]
    /\ \A t \in Trackers : Filed(t)

----------------------------------------------------------------------------
(* Windows of a history.                                                   *)

LEMMA LastOfIsTail ==
    ASSUME NEW S, NEW s \in Seq(S), NEW n \in Nat \ {0}
    PROVE  /\ LastOf(n, s) \in Seq(S)
           /\ Len(LastOf(n, s)) = IF Len(s) < n THEN Len(s) ELSE n
           /\ \A i \in 1..Len(LastOf(n, s)) :
                 LastOf(n, s)[i] = s[Len(s) - Len(LastOf(n, s)) + i]
<1> DEFINE a == Max({1, Len(s) - n + 1})
<1>1. a = IF Len(s) < n THEN 1 ELSE Len(s) - n + 1
  BY DEF Max
<1> HIDE DEF a
<1> DEFINE r == LastOf(n, s)
<1>2. r = SubSeq(s, a, Len(s))
  BY DEF LastOf, a
<1> HIDE DEF r
<1>3. Len(s) \in Nat /\ a \in Nat /\ a >= 1 /\ a <= Len(s) + 1
  BY <1>1
<1>4. /\ SubSeq(s, a, Len(s)) \in Seq(S)
      /\ Len(SubSeq(s, a, Len(s))) = Len(s) - a + 1
      /\ \A i \in 1..(Len(s) - a + 1) : SubSeq(s, a, Len(s))[i] = s[a + i - 1]
  BY <1>3
<1>5. r \in Seq(S) /\ Len(r) = Len(s) - a + 1 /\ \A i \in 1..Len(r) : r[i] = s[a + i - 1]
  BY <1>2, <1>4
<1>6. Len(r) = IF Len(s) < n THEN Len(s) ELSE n
  BY <1>1, <1>3, <1>5
<1>7. \A i \in 1..Len(r) : a + i - 1 = Len(s) - Len(r) + i
  BY <1>3, <1>5
<1> QED
  BY <1>5, <1>6, <1>7 DEF r

\* The last of s is x, and before it comes what comes last in h.
Continues(S, s, h, x, keep) ==
    /\ s \in Seq(S) /\ Len(s) \in Nat \ {0}
    /\ Last(s) = x
    /\ Len(s) >= 2 => h # <<>> /\ s[Len(s) - 1] = Last(h)
    /\ \A n \in Nat \ {0} : keep > n => Before(n, s) = LastOf(n, h)

\* A saved reading is compared with the entries it was compared with when it
\* was taken, as long as the file keeps more than the window.
LEMMA SavedContinues ==
    ASSUME NEW S, NEW h \in Seq(S), NEW x \in S, NEW keep \in Nat \ {0}
    PROVE  Continues(S, LastOf(keep, Append(h, x)), h, x, keep)
<1> DEFINE g == Append(h, x)
           s == LastOf(keep, g)
<1>1. g \in Seq(S) /\ Len(g) = Len(h) + 1 /\ Len(h) \in Nat
  OBVIOUS
<1>2. g[Len(h) + 1] = x /\ \A i \in 1..Len(h) : g[i] = h[i]
  OBVIOUS
<1> HIDE DEF g, s
<1>3. /\ s \in Seq(S)
      /\ Len(s) = IF Len(h) + 1 < keep THEN Len(h) + 1 ELSE keep
      /\ \A i \in 1..Len(s) : s[i] = g[Len(h) + 1 - Len(s) + i]
  <2>1. s = LastOf(keep, g)
    BY DEF s
  <2>2. /\ LastOf(keep, g) \in Seq(S)
        /\ Len(LastOf(keep, g)) = IF Len(g) < keep THEN Len(g) ELSE keep
        /\ \A i \in 1..Len(LastOf(keep, g)) :
              LastOf(keep, g)[i] = g[Len(g) - Len(LastOf(keep, g)) + i]
    BY <1>1, LastOfIsTail
  <2>3. Len(s) = IF Len(h) + 1 < keep THEN Len(h) + 1 ELSE keep
    BY <1>1, <2>1, <2>2
  <2>4. Len(g) - Len(s) = Len(h) + 1 - Len(s)
    BY <1>1
  <2> QED
    BY <2>1, <2>2, <2>3, <2>4, <1>1
<1>4. Len(s) \in Nat \ {0} /\ Len(s) <= Len(h) + 1
  BY <1>1, <1>3
<1>5. Last(s) = x
  <2>1. Len(s) \in 1..Len(s) /\ Len(h) + 1 - Len(s) + Len(s) = Len(h) + 1
    BY <1>1, <1>4
  <2> QED
    BY <1>3, <1>2, <2>1 DEF Last
<1>6. ASSUME Len(s) >= 2 PROVE h # <<>> /\ s[Len(s) - 1] = Last(h)
  <2>1. Len(h) >= 1
    BY <1>1, <1>4, <1>6
  <2>2. s[Len(s) - 1] = g[Len(h)]
    <3>1. Len(s) - 1 \in 1..Len(s) /\ Len(h) + 1 - Len(s) + (Len(s) - 1) = Len(h)
      BY <1>1, <1>4, <1>6
    <3> QED
      BY <1>3, <3>1
  <2> QED
    BY <1>1, <1>2, <2>1, <2>2 DEF Last
<1>7. ASSUME NEW n \in Nat \ {0}, keep > n PROVE Before(n, s) = LastOf(n, h)
  <2> DEFINE f == Front(s)
  <2>1. /\ f \in Seq(S) /\ Len(f) = Len(s) - 1
        /\ \A i \in 1..Len(f) : f[i] = s[i]
    BY <1>3, <1>4 DEF Front
  <2> HIDE DEF f
  <2> DEFINE u == LastOf(n, f)
             v == LastOf(n, h)
  <2>2. /\ u \in Seq(S)
        /\ Len(u) = IF Len(f) < n THEN Len(f) ELSE n
        /\ \A i \in 1..Len(u) : u[i] = f[Len(f) - Len(u) + i]
    BY <2>1, LastOfIsTail
  <2>3. /\ v \in Seq(S)
        /\ Len(v) = IF Len(h) < n THEN Len(h) ELSE n
        /\ \A i \in 1..Len(v) : v[i] = h[Len(h) - Len(v) + i]
    BY LastOfIsTail
  <2> HIDE DEF u, v
  <2>4. Len(u) = Len(v)
    BY <1>1, <1>3, <1>7, <2>1, <2>2, <2>3
  <2>5. ASSUME NEW i \in 1..Len(u) PROVE u[i] = v[i]
    <3> DEFINE j == Len(f) - Len(u) + i
    <3>1. j \in 1..Len(f) /\ u[i] = f[j]
      <4>1. /\ Len(u) \in Nat /\ Len(u) <= Len(f) /\ Len(f) \in Nat
            /\ \A k \in 1..Len(u) : u[k] = f[Len(f) - Len(u) + k]
        <5>1. Len(f) \in Nat
          BY <1>4, <2>1
        <5>2. Len(u) = IF Len(f) < n THEN Len(f) ELSE n
          BY <2>2, Zenon
        <5>3. Len(u) \in Nat /\ Len(u) <= Len(f)
          BY <5>1, <5>2
        <5> QED
          BY <2>2, <5>1, <5>3, Zenon
      <4> QED
        BY <4>1
    <3> HIDE DEF j
    <3>2. f[j] = s[j] /\ j \in 1..Len(s)
      BY <1>4, <2>1, <3>1
    <3>3. s[j] = g[Len(h) + 1 - Len(s) + j]
      BY <1>3, <3>2
    <3>4. Len(h) + 1 - Len(s) + j \in 1..Len(h)
      BY <1>1, <1>4, <2>1, <3>1
    <3>5. Len(h) + 1 - Len(s) + j = Len(h) - Len(v) + i
      BY <1>1, <1>4, <2>1, <2>4 DEF j
    <3> QED
      BY <1>2, <2>3, <2>4, <3>1, <3>2, <3>3, <3>4, <3>5
  <2>6. u = v
    BY <2>2, <2>3, <2>4, <2>5
  <2> QED
    BY <2>6 DEF Before, f, u, v
<1> QED
  BY <1>3, <1>4, <1>5, <1>6, <1>7 DEF Continues, s, g

----------------------------------------------------------------------------
(* What the trackers file and find.                                        *)

KeptBy(t) ==
    CASE t = "PFVT" -> PatentsKept
      [] t = "ELVT" -> Mondays * Attempts
      [] OTHER -> Kept

Found(t, h, reads, c) ==
    CASE t = "JPVI" -> JpviFound(h, reads, c)
      [] t = "SCCR" -> SccrFound(h, reads, c)
      [] t = "PFVT" -> PfvtFound(h, reads, c)
      [] t = "ELVT" -> ElvtFound(h, reads, c)

\* x is the last entry of a file that held h, and was scored against h.
ScoredAgainst(t, k, h, x) ==
    /\ file[t][k[1]] = LastOf(KeptBy(t), Append(h, x))
    /\ found[t][k] = Found(t, h, x.reads, k[2])

\* What a tracker has logged was found in the reading that is now the last of
\* its file, against the file as it was.
FoundIsFiled ==
    \A t \in Trackers : \A k \in DOMAIN found[t] :
        /\ k[1] \in Watched(t) /\ k[2] \in Categories(t, k[1])
        /\ \E h \in Seq(Entry(t, k[1])), x \in Entry(t, k[1]) : ScoredAgainst(t, k, h, x)

HistoriesInv == HistoriesTyped /\ FoundIsFiled

LEMMA KeepsSome == \A t \in Trackers : KeptBy(t) \in Nat \ {0}
<1>1. Mondays * Attempts \in Nat \ {0}
  <2>1. Mondays \in Nat /\ Mondays >= 1 /\ Attempts \in Nat /\ Attempts >= 1
    BY HistoriesAssumption
  <2> QED
    BY <2>1
<1>2. Kept \in Nat \ {0} /\ PatentsKept \in Nat \ {0}
  BY HistoriesAssumption, WindowAssumption
<1> QED
  BY <1>1, <1>2 DEF KeptBy

\* A sweep of a tracker over its entities, whatever stops it.
LEMMA SweepFiles ==
    ASSUME NEW t \in Trackers, NEW reads,
           \A e \in Watched(t) : reads[e] \in [Categories(t, e) -> Numbers(t)],
           HistoriesInv, world' = world, monday' = monday,
           file' = Saved(t, KeptBy(t), reads),
           found' = [found EXCEPT ![t] = [k \in Readings(t, reads) |->
                        Found(t, file[t][k[1]], reads[k[1]], k[2])]]
    PROVE  HistoriesInv'
<1> DEFINE x(e) == [monday |-> monday, reads |-> reads[e]]
           filed(e) == LastOf(KeptBy(t), Append(file[t][e], x(e)))
<1>1. Swept(t) \subseteq Watched(t)
  BY DEF Swept, Watched, ToSet
<1>2. \A e \in Watched(t) : x(e) \in Entry(t, e) /\ file[t][e] \in Seq(Entry(t, e))
  BY DEF HistoriesInv, HistoriesTyped, Filed, Entry
<1>3. \A e \in Watched(t) : filed(e) \in Seq(Entry(t, e))
  BY <1>2, KeepsSome, SavedContinues DEF Continues
<1>4. /\ file' = [u \in Trackers |-> file'[u]]
      /\ \A u \in Trackers : u # t => file'[u] = file[u]
      /\ file'[t] = [e \in Watched(t) |-> IF e \in Swept(t) THEN filed(e) ELSE file[t][e]]
  <2>1. file = [u \in Trackers |-> file[u]]
    BY DEF HistoriesInv, HistoriesTyped
  <2> QED
    BY <2>1 DEF Saved
<1>5. /\ found' = [u \in Trackers |-> found'[u]]
      /\ \A u \in Trackers : u # t => found'[u] = found[u]
      /\ found'[t] = [k \in Readings(t, reads) |->
                        Found(t, file[t][k[1]], reads[k[1]], k[2])]
  <2>1. found = [u \in Trackers |-> found[u]]
    BY DEF HistoriesInv, HistoriesTyped
  <2> QED
    BY <2>1
<1> HIDE DEF filed
<1>6. HistoriesTyped'
  <2>1. ASSUME NEW u \in Trackers PROVE Filed(u)'
    <3>1. CASE u = t
      BY <1>2, <1>3, <1>4, <3>1 DEF Filed
    <3>2. CASE u # t
      BY <1>4, <3>2 DEF HistoriesInv, HistoriesTyped, Filed
    <3> QED
      BY <3>1, <3>2
  <2> QED
    BY <1>4, <1>5, <2>1 DEF HistoriesInv, HistoriesTyped
<1>7. ASSUME NEW u \in Trackers, NEW k \in DOMAIN found'[u]
      PROVE  /\ k[1] \in Watched(u) /\ k[2] \in Categories(u, k[1])
             /\ \E h \in Seq(Entry(u, k[1])), y \in Entry(u, k[1]) : ScoredAgainst(u, k, h, y)'
  <2>1. CASE u # t
    BY <1>4, <1>5, <1>7, <2>1 DEF HistoriesInv, FoundIsFiled, ScoredAgainst
  <2>2. CASE u = t
    <3>1. k \in Readings(t, reads)
      BY <1>5, <1>7, <2>2
    <3>2. k[1] \in Swept(t) /\ k[2] \in DOMAIN reads[k[1]]
      BY <3>1 DEF Readings
    <3>3. /\ k[1] \in Watched(t) /\ k[2] \in Categories(t, k[1])
          /\ file'[t][k[1]] = filed(k[1])
      BY <1>1, <1>4, <3>2
    <3>4. found'[t][k] = Found(t, file[t][k[1]], x(k[1]).reads, k[2])
      BY <1>5, <3>1
    <3>5. PICK h \in Seq(Entry(t, k[1])), y \in Entry(t, k[1]) :
              h = file[t][k[1]] /\ y = x(k[1])
      BY <1>2, <3>3
    <3>6. ScoredAgainst(t, k, h, y)'
      BY <3>3, <3>4, <3>5 DEF ScoredAgainst, filed
    <3> QED
      BY <2>2, <3>3, <3>6
  <2> QED
    BY <2>1, <2>2
<1> QED
  BY <1>6, <1>7 DEF HistoriesInv, FoundIsFiled

\* The readings are of what a tracker follows.
LEMMA ReadingsTyped ==
    ASSUME HistoriesInv
    PROVE  /\ \A e \in Watched("JPVI") : JpviReads[e] \in [Categories("JPVI", e) -> Numbers("JPVI")]
           /\ \A e \in Watched("SCCR") : SccrReads[e] \in [Categories("SCCR", e) -> Numbers("SCCR")]
           /\ \A e \in Watched("PFVT") : PfvtReads[e] \in [Categories("PFVT", e) -> Numbers("PFVT")]
           /\ \A e \in Watched("ELVT") : ElvtReads[e] \in [Categories("ELVT", e) -> Numbers("ELVT")]
<1>1. /\ world.jobs \in Nat /\ world.patents \in Nat /\ world.shipments \in Nat
      /\ world.tone \in Int
  BY HistoriesAssumption DEF HistoriesInv, HistoriesTyped
<1>2. \A e \in Watched("JPVI") : JpviReads[e] \in [Categories("JPVI", e) -> Numbers("JPVI")]
  BY <1>1 DEF JpviReads, Categories, Numbers
<1>3. \A e \in Watched("SCCR") : SccrReads[e] \in [Categories("SCCR", e) -> Numbers("SCCR")]
  BY <1>1 DEF SccrReads, Categories, Numbers
<1>4. \A e \in Watched("PFVT") : PfvtReads[e] \in [Categories("PFVT", e) -> Numbers("PFVT")]
  BY <1>1 DEF PfvtReads, Categories, Numbers
<1>5. \A e \in Watched("ELVT") : ElvtReads[e] \in [Categories("ELVT", e) -> Numbers("ELVT")]
  BY <1>1 DEF ElvtReads, Categories, Numbers
<1> QED
  BY <1>2, <1>3, <1>4, <1>5

LEMMA HistoriesOpen == Init => HistoriesInv
<1> SUFFICES ASSUME Init PROVE HistoriesInv
  OBVIOUS
<1>1. \A t \in Trackers : DOMAIN found[t] = {} /\ Filed(t)
  BY DEF Init, NoSignals, Filed
<1> QED
  BY <1>1 DEF Init, HistoriesInv, HistoriesTyped, FoundIsFiled

LEMMA HistoriesStep == HistoriesInv /\ [Next]_vars => HistoriesInv'
<1> SUFFICES ASSUME HistoriesInv, [Next]_vars PROVE HistoriesInv'
  OBVIOUS
<1>1. CASE RunJpvi
  <2> DEFINE t == "JPVI"
             reads == JpviReads
  <2>1. t \in Trackers /\ KeptBy(t) = Kept
    BY DEF Trackers, KeptBy
  <2>2. world' = world /\ monday' = monday /\ file' = Saved(t, KeptBy(t), reads)
    BY <1>1, <2>1 DEF RunJpvi, Die, GoesOn, where
  <2>3. found' = [found EXCEPT ![t] = [k \in Readings(t, reads) |->
                    Found(t, file[t][k[1]], reads[k[1]], k[2])]]
    BY <1>1 DEF RunJpvi, Found
  <2>4. \A e \in Watched(t) : reads[e] \in [Categories(t, e) -> Numbers(t)]
    BY ReadingsTyped
  <2> QED
    BY <2>1, <2>2, <2>3, <2>4, SweepFiles
<1>2. CASE RunSccr
  <2> DEFINE t == "SCCR"
             reads == SccrReads
  <2>1. t \in Trackers /\ KeptBy(t) = Kept
    BY DEF Trackers, KeptBy
  <2>2. world' = world /\ monday' = monday /\ file' = Saved(t, KeptBy(t), reads)
    BY <1>2, <2>1 DEF RunSccr, Die, GoesOn, where
  <2>3. found' = [found EXCEPT ![t] = [k \in Readings(t, reads) |->
                    Found(t, file[t][k[1]], reads[k[1]], k[2])]]
    BY <1>2 DEF RunSccr, Found
  <2>4. \A e \in Watched(t) : reads[e] \in [Categories(t, e) -> Numbers(t)]
    BY ReadingsTyped
  <2> QED
    BY <2>1, <2>2, <2>3, <2>4, SweepFiles
<1>3. CASE RunPfvt
  <2> DEFINE t == "PFVT"
             reads == PfvtReads
  <2>1. t \in Trackers /\ KeptBy(t) = PatentsKept
    BY DEF Trackers, KeptBy
  <2>2. world' = world /\ monday' = monday /\ file' = Saved(t, KeptBy(t), reads)
    BY <1>3, <2>1 DEF RunPfvt, Die, GoesOn, where
  <2>3. found' = [found EXCEPT ![t] = [k \in Readings(t, reads) |->
                    Found(t, file[t][k[1]], reads[k[1]], k[2])]]
    BY <1>3 DEF RunPfvt, Found
  <2>4. \A e \in Watched(t) : reads[e] \in [Categories(t, e) -> Numbers(t)]
    BY ReadingsTyped
  <2> QED
    BY <2>1, <2>2, <2>3, <2>4, SweepFiles
<1>4. CASE RunElvt
  <2> DEFINE t == "ELVT"
             reads == ElvtReads
  <2>1. t \in Trackers /\ KeptBy(t) = Mondays * Attempts
    BY DEF Trackers, KeptBy
  <2>2. world' = world /\ monday' = monday /\ file' = Saved(t, KeptBy(t), reads)
    BY <1>4, <2>1 DEF RunElvt, Die, GoesOn, where
  <2>3. found' = [found EXCEPT ![t] = [k \in Readings(t, reads) |->
                    Found(t, file[t][k[1]], reads[k[1]], k[2])]]
    BY <1>4 DEF RunElvt, Found
  <2>4. \A e \in Watched(t) : reads[e] \in [Categories(t, e) -> Numbers(t)]
    BY ReadingsTyped
  <2> QED
    BY <2>1, <2>2, <2>3, <2>4, SweepFiles
<1>5. CASE ScorePosition
  BY <1>5 DEF ScorePosition, where, HistoriesInv, HistoriesTyped, Filed, FoundIsFiled,
              ScoredAgainst
<1>6. ASSUME Begin, world' \in Worlds, monday' \in Nat PROVE HistoriesInv'
  <2>1. \A t \in Trackers : DOMAIN found'[t] = {}
    BY <1>6 DEF Begin, NoSignals
  <2> QED
    BY <1>6, <2>1 DEF Begin, HistoriesInv, HistoriesTyped, Filed, FoundIsFiled
<1>7. CASE Retry
  BY <1>6, <1>7 DEF Retry, HistoriesInv, HistoriesTyped
<1>8. CASE NextMonday
  BY <1>6, <1>8 DEF NextMonday, HistoriesInv, HistoriesTyped
<1>9. CASE UNCHANGED vars
  BY <1>9 DEF vars, where, HistoriesInv, HistoriesTyped, Filed, FoundIsFiled, ScoredAgainst
<1> QED
  BY <1>1, <1>2, <1>3, <1>4, <1>5, <1>7, <1>8, <1>9 DEF Next

LEMMA HistoriesInvariance == Spec => []HistoriesInv
BY HistoriesOpen, HistoriesStep, PTL DEF Spec

----------------------------------------------------------------------------
(* What the gate makes of it.                                              *)

LEMMA FrontIsPrefix ==
    ASSUME NEW S, NEW s \in Seq(S), Len(s) >= 1
    PROVE  /\ Front(s) \in Seq(S) /\ Len(Front(s)) = Len(s) - 1
           /\ \A i \in 1..Len(Front(s)) : Front(s)[i] = s[i]
<1> DEFINE m == Len(s) - 1
<1>1. m \in Nat /\ m <= Len(s)
  OBVIOUS
<1> HIDE DEF m
<1>2. /\ SubSeq(s, 1, m) \in Seq(S) /\ Len(SubSeq(s, 1, m)) = m
      /\ \A i \in 1..m : SubSeq(s, 1, m)[i] = s[i]
  BY <1>1
<1> QED
  BY <1>2 DEF Front, m

\* The entries before the last are entries of the file.
LEMMA BeforeIsFiled ==
    ASSUME NEW S, NEW s \in Seq(S), Len(s) >= 1, NEW n \in Nat \ {0}
    PROVE  /\ Before(n, s) \in Seq(S)
           /\ \A i \in DOMAIN Before(n, s) : \E j \in DOMAIN s : j < Len(s) /\ Before(n, s)[i] = s[j]
           /\ Len(s) >= 2 => Len(Before(n, s)) >= 1
<1> DEFINE f == Front(s)
           b == LastOf(n, f)
<1>1. /\ f \in Seq(S) /\ Len(f) = Len(s) - 1
      /\ \A i \in 1..Len(f) : f[i] = s[i]
  BY FrontIsPrefix
<1> HIDE DEF f
<1>2. /\ b \in Seq(S)
      /\ Len(b) = IF Len(f) < n THEN Len(f) ELSE n
      /\ \A i \in 1..Len(b) : b[i] = f[Len(f) - Len(b) + i]
  BY <1>1, LastOfIsTail
<1> HIDE DEF b
<1>3. ASSUME NEW i \in DOMAIN b PROVE \E j \in DOMAIN s : j < Len(s) /\ b[i] = s[j]
  <2>1. i \in 1..Len(b) /\ Len(b) \in Nat /\ Len(f) \in Nat /\ Len(b) <= Len(f)
    <3>1. Len(b) = IF Len(f) < n THEN Len(f) ELSE n
      BY <1>2, Zenon
    <3>2. b \in Seq(S) /\ f \in Seq(S)
      BY <1>1, <1>2, Zenon
    <3> QED
      BY <3>1, <3>2
  <2> DEFINE j == Len(f) - Len(b) + i
  <2>2. b[i] = f[j]
    BY <1>2, <2>1
  <2>3. j \in 1..Len(f)
    BY <2>1
  <2> HIDE DEF j
  <2>4. f[j] = s[j] /\ j \in DOMAIN s /\ j < Len(s)
    BY <1>1, <2>3
  <2> QED
    BY <2>2, <2>4
<1>4. ASSUME Len(s) >= 2 PROVE Len(b) >= 1
  <2>1. Len(f) = Len(s) - 1 /\ Len(b) = IF Len(f) < n THEN Len(f) ELSE n
    BY <1>1, <1>2, Zenon
  <2>2. Len(s) \in Nat
    OBVIOUS
  <2> QED
    BY <1>4, <2>1, <2>2
<1> QED
  BY <1>2, <1>3, <1>4 DEF Before, b, f

LEMMA GateAgrees ==
    ASSUME HistoriesInv, NEW t \in Trackers,
           NEW k \in DOMAIN found[t] \cap DOMAIN SignalsFor(Ticker)[t]
    PROVE  \/ t = "JPVI" /\ \E n \in Range(Reads(file[t][k[1]], k[2])) : n = 0
           \/ SignalsFor(Ticker)[t][k] = found[t][k]
<1> DEFINE e == k[1]
           c == k[2]
           s == file[t][e]
<1>1. PICK h \in Seq(Entry(t, e)), x \in Entry(t, e) : ScoredAgainst(t, k, h, x)
  BY DEF HistoriesInv, FoundIsFiled
<1>2. e \in Watched(t) /\ c \in Categories(t, e)
  BY DEF HistoriesInv, FoundIsFiled
<1>3. /\ s \in Seq(Entry(t, e)) /\ Len(s) \in Nat \ {0}
      /\ Last(s) = x
      /\ Len(s) >= 2 => h # <<>> /\ s[Len(s) - 1] = Last(h)
      /\ \A n \in Nat \ {0} : KeptBy(t) > n => Before(n, s) = LastOf(n, h)
  <2>1. s = LastOf(KeptBy(t), Append(h, x))
    BY <1>1 DEF ScoredAgainst
  <2>2. Continues(Entry(t, e), LastOf(KeptBy(t), Append(h, x)), h, x, KeptBy(t))
    BY KeepsSome, SavedContinues
  <2> QED
    BY <2>1, <2>2 DEF Continues
<1>4. found[t][k] = Found(t, h, x.reads, c)
  BY <1>1 DEF ScoredAgainst
<1>5. CASE t = "JPVI"
  <2> DEFINE prior == Reads(LastOf(Window, h), c)
             used == {i \in DOMAIN prior : prior[i] > 0}
  <2>1. SignalsFor(Ticker)[t][k] = CountVelocity(x.reads[c], prior)
    <3>1. SignalsFor(Ticker)[t][k] = CountSignal(Window, s, c)
      BY <1>5 DEF SignalsFor, JpviSignals
    <3>2. Window \in Nat \ {0} /\ KeptBy(t) > Window
      BY <1>5, HistoriesAssumption, WindowAssumption DEF KeptBy
    <3> QED
      BY <1>3, <3>1, <3>2 DEF CountSignal
  <2>2. found[t][k] = VelocityOver(used, x.reads[c], prior)
    BY <1>4, <1>5 DEF Found, JpviFound
  <2>3. ASSUME \A n \in Range(Reads(s, c)) : n # 0 PROVE used = DOMAIN prior
    <3>1. Before(Window, s) = LastOf(Window, h)
      BY <1>3, <1>5, HistoriesAssumption, WindowAssumption DEF KeptBy
    <3>2. ASSUME NEW i \in DOMAIN prior PROVE prior[i] > 0
      <4>1. i \in DOMAIN Before(Window, s) /\ prior[i] = Before(Window, s)[i].reads[c]
        BY <3>1 DEF Reads
      <4>2. PICK j \in DOMAIN s : Before(Window, s)[i] = s[j]
        <5> HIDE DEF s
        <5> QED
          BY <1>3, <4>1, BeforeIsFiled, WindowAssumption
      <4>3. s[j].reads[c] \in Nat
        <5>1. s[j] \in Entry(t, e)
          BY <1>3
        <5> QED
          BY <1>2, <1>5, <5>1 DEF Entry, Numbers
      <4>4. s[j].reads[c] \in Range(Reads(s, c))
        BY DEF Range, Reads
      <4> QED
        BY <2>3, <4>1, <4>2, <4>3, <4>4
    <3> QED
      BY <3>2
  <2> HIDE DEF prior, used
  <2>4. CASE \A n \in Range(Reads(s, c)) : n # 0
    BY <2>1, <2>2, <2>3, <2>4 DEF CountVelocity
  <2> QED
    BY <1>5, <2>4
<1>6. CASE t = "PFVT"
  <2>1. SignalsFor(Ticker)[t][k] = CountSignal(PatentWindow, s, c)
    BY <1>6 DEF SignalsFor, PfvtSignals
  <2>2. PatentWindow \in Nat \ {0} /\ KeptBy(t) > PatentWindow
    BY <1>6, HistoriesAssumption, WindowAssumption DEF KeptBy
  <2> QED
    BY <1>3, <1>4, <1>6, <2>1, <2>2 DEF CountSignal, Found, PfvtFound
<1>7. CASE t = "SCCR"
  <2>1. SignalsFor(Ticker)[t][k] = CountSignal(Window, s, c)
    BY <1>7 DEF SignalsFor, SccrSignals
  <2>2. Window \in Nat \ {0} /\ KeptBy(t) > Window
    BY <1>7, HistoriesAssumption, WindowAssumption DEF KeptBy
  <2> QED
    BY <1>3, <1>4, <1>7, <2>1, <2>2 DEF CountSignal, Found, SccrFound
<1>8. CASE t = "ELVT"
  <2>1. /\ SignalsFor(Ticker)[t][k] = ScoreVelocity(Last(s).reads[c] - s[Len(s) - 1].reads[c])
        /\ Len(s) >= 2
    BY <1>8 DEF SignalsFor, ElvtSignals, LongEnough
  <2> QED
    BY <1>3, <1>4, <1>8, <2>1 DEF Found, ElvtFound
<1> QED
  BY <1>5, <1>6, <1>7, <1>8 DEF Trackers

\* What the gate makes of the files is what the trackers logged when they wrote
\* them, for any readings, windows, retries and crashes.
THEOREM GateScoresFindings == Spec => []GateSeesWhatWasFound
<1>1. HistoriesInv => GateSeesWhatWasFound
  BY GateAgrees DEF GateSeesWhatWasFound
<1> QED
  BY <1>1, HistoriesInvariance, PTL

----------------------------------------------------------------------------
(* What growth and decline come to.                                        *)

\* A signal that does a position no harm, and one that does it no good.
Harmless(signal) == Impact(signal) \in Int /\ Impact(signal) >= 0
Useless(signal) == Impact(signal) \in Int /\ Impact(signal) <= 0

LEMMA GradedFollows ==
    ASSUME NEW change \in Int, NEW base \in Nat \ {0}
    PROVE  /\ change >= 0 => Harmless(Graded(change, base))
           /\ change <= 0 => Useless(Graded(change, base))
BY DEF Graded, Signal, Harmless, Useless, Impact, SeverityMultiplier, DirectionMultiplier

LEMMA ScoreVelocityFollows ==
    ASSUME NEW change \in Int
    PROVE  /\ change >= 0 => Harmless(ScoreVelocity(change))
           /\ change <= 0 => Useless(ScoreVelocity(change))
BY DEF ScoreVelocity, Signal, Harmless, Useless, Impact, SeverityMultiplier, DirectionMultiplier

\* A count against the average of counts none of which is larger, or smaller.
LEMMA VelocityFollows ==
    ASSUME NEW used, IsFiniteSet(used), used # {}, NEW prior, NEW count \in Nat,
           \A i \in used : prior[i] \in Nat
    PROVE  /\ (\A i \in used : prior[i] <= count) => Harmless(VelocityOver(used, count, prior))
           /\ (\A i \in used : prior[i] >= count) => Useless(VelocityOver(used, count, prior))
<1> DEFINE total == Sum(prior, used)
           change == Cardinality(used) * count - total
           none == [i \in used |-> 0]
<1>1. total \in Nat /\ \A i \in used : prior[i] <= total
  BY SumOfNats
<1>2. Cardinality(used) \in Nat
  BY FS_CardinalityType
<1>3. Sum(none, used) = 0
  <2>1. \A i \in used : prior[i] \in Int /\ none[i] = 0 * prior[i]
    OBVIOUS
  <2> HIDE DEF none
  <2>2. Sum(none, used) = 0 * Sum(prior, used)
    BY <2>1, SumScales
  <2> QED
    BY <1>1, <2>2
<1>4. ASSUME \A i \in used : prior[i] <= count PROVE change >= 0
  <2>1. \A i \in used : prior[i] \in Int /\ none[i] \in Int /\ prior[i] <= none[i] + count
    BY <1>4
  <2> HIDE DEF none
  <2>2. Sum(prior, used) <= Sum(none, used) + Cardinality(used) * count
    <3>1. count \in Int
      OBVIOUS
    <3> QED
      BY <2>1, <3>1, SumsWithin, Zenon
  <2> QED
    BY <1>1, <1>2, <1>3, <2>2
<1>5. ASSUME \A i \in used : prior[i] >= count PROVE change <= 0
  <2>1. \A i \in used : none[i] \in Int /\ prior[i] \in Int /\ none[i] <= prior[i] + (-count)
    BY <1>5
  <2> HIDE DEF none
  <2>2. Sum(none, used) <= Sum(prior, used) + Cardinality(used) * (-count)
    <3>1. -count \in Int
      OBVIOUS
    <3> QED
      BY <2>1, <3>1, SumsWithin, Zenon
  <2> QED
    BY <1>1, <1>2, <1>3, <2>2
<1>6. change \in Int
  BY <1>1, <1>2
<1>7. VelocityOver(used, count, prior) =
        IF total > 0 THEN Graded(change, total)
        ELSE IF count > 0 THEN Graded(1, 1) ELSE Graded(0, 1)
  BY DEF VelocityOver, Sum
<1> HIDE DEF total, change
<1>8. CASE total > 0
  BY <1>1, <1>4, <1>5, <1>6, <1>7, <1>8, GradedFollows
<1>9. CASE total = 0
  <2>1. Harmless(Graded(1, 1)) /\ Harmless(Graded(0, 1)) /\ Useless(Graded(0, 1))
    BY GradedFollows
  <2>2. (\A i \in used : prior[i] >= count) => count = 0
    BY <1>1, <1>9
  <2> QED
    BY <1>7, <1>9, <2>1, <2>2
<1> QED
  BY <1>1, <1>8, <1>9

\* What is harmless, or useless, signal by signal is so on average.
LEMMA ContributionFollows ==
    ASSUME NEW signals, IsFiniteSet(DOMAIN signals), NEW weight \in Nat
    PROVE  /\ (\A k \in DOMAIN signals : Harmless(signals[k])) =>
                  Contribution(signals, weight) \in Nat
           /\ (\A k \in DOMAIN signals : Useless(signals[k])) =>
                  Contribution(signals, weight) \in Int /\ Contribution(signals, weight) <= 0
<1> DEFINE counted == {k \in DOMAIN signals : signals[k].severity # "LOW"}
           impact == [k \in counted |-> Impact(signals[k])]
           total == Sum(impact, counted)
           n == Cardinality(counted)
<1>1. IsFiniteSet(counted)
  BY FS_Subset
<1>2. n \in Nat /\ (counted # {} => n # 0)
  BY <1>1, FS_CardinalityType, FS_EmptySet
<1>3. Contribution(signals, weight) = IF counted = {} THEN 0 ELSE (500 * weight * total) \div n
  BY DEF Contribution, Sum
<1>4. ASSUME \A k \in DOMAIN signals : Harmless(signals[k]) PROVE total \in Nat
  <2>1. \A k \in counted : impact[k] \in Nat
    BY <1>4 DEF Harmless
  <2> QED
    BY <1>1, <2>1, SumOfNats
<1>5. ASSUME \A k \in DOMAIN signals : Useless(signals[k]) PROVE total \in Int /\ total <= 0
  <2> DEFINE none == [k \in counted |-> 0]
  <2>1. \A k \in counted : impact[k] \in Int /\ none[k] \in Int /\ impact[k] <= none[k]
    BY <1>5 DEF Useless
  <2>2. \A k \in counted : impact[k] \in Int /\ none[k] = 0 * impact[k]
    BY <2>1
  <2> HIDE DEF none, impact, counted
  <2>3. Sum(impact, counted) \in Int
    BY <1>1, <2>1, SumPicks
  <2>4. Sum(none, counted) = 0 * Sum(impact, counted)
    BY <1>1, <2>2, SumScales
  <2>5. Sum(impact, counted) <= Sum(none, counted)
    BY <1>1, <2>1, SumsOrdered
  <2> QED
    BY <2>3, <2>4, <2>5
<1> HIDE DEF counted, total, n
<1>6. ASSUME total \in Nat, counted # {} PROVE (500 * weight * total) \div n \in Nat
  <2>1. 500 * weight * total \in Nat
    BY <1>6
  <2> QED
    BY <1>2, <1>6, <2>1
<1>7. ASSUME total \in Int, total <= 0, counted # {}
      PROVE  (500 * weight * total) \div n \in Int /\ (500 * weight * total) \div n <= 0
  <2> DEFINE m == 500 * weight * total
             q == m \div n
  <2>1. m \in Int /\ m <= 0
    BY <1>7
  <2> HIDE DEF m
  <2>2. q \in Int /\ n * q <= m
    BY <1>2, <1>7, <2>1
  <2> HIDE DEF q
  <2>3. q <= 0
    BY <1>2, <1>7, <2>1, <2>2
  <2> QED
    BY <2>2, <2>3 DEF m, q
<1> QED
  BY <1>3, <1>4, <1>5, <1>6, <1>7

LEMMA RoundingFollows ==
    ASSUME NEW n \in Int
    PROVE  LET r == RoundHalfEven(Clamp(-5000000, 5000000, n), 10000)
           IN  /\ r \in Int
               /\ n >= 0 => r >= 0
               /\ n <= 0 => r <= 0
<1> DEFINE c == Clamp(-5000000, 5000000, n)
           up == (2 * c + 10000) \div 20000
<1>1. c \in Int /\ (n >= 0 => c >= 0) /\ (n <= 0 => c <= 0)
  BY DEF Clamp, Max, Min
<1> HIDE DEF c
<1>2. up \in Int /\ (c >= 0 => up >= 0) /\ (c <= 0 => up <= 0)
  BY <1>1
<1>3. RoundHalfEven(c, 10000) \in {up, up - 1} /\ (up % 2 = 0 => RoundHalfEven(c, 10000) = up)
  BY DEF RoundHalfEven
<1> HIDE DEF up
<1>4. up >= 0 => RoundHalfEven(c, 10000) >= 0
  <2>1. up = 0 => up % 2 = 0
    BY <1>2
  <2> QED
    BY <1>2, <1>3, <2>1
<1> QED
  BY <1>1, <1>2, <1>3, <1>4 DEF c

\* The signals of a position come to what each of them comes to.
LEMMA AdjustmentFollows ==
    ASSUME NEW signals, DOMAIN signals = Trackers,
           \A t \in Trackers : IsFiniteSet(DOMAIN signals[t])
    PROVE  /\ (\A t \in Trackers : \A k \in DOMAIN signals[t] : Harmless(signals[t][k]))
                 => Adjustment(signals) >= 0
           /\ (\A t \in Trackers : \A k \in DOMAIN signals[t] : Useless(signals[t][k]))
                 => Adjustment(signals) <= 0
<1> DEFINE points == [t \in Trackers |-> Contribution(signals[t], Weight[t])]
           total == Sum(points, Trackers)
<1>1. \A t \in Trackers : Weight[t] \in Nat
  BY DEF Trackers, Weight
<1>2. IsFiniteSet(Trackers)
  <2>1. IsFiniteSet({"JPVI"})
    BY FS_Singleton
  <2>2. IsFiniteSet((({"JPVI"} \cup {"SCCR"}) \cup {"PFVT"}) \cup {"ELVT"})
    BY <2>1, FS_AddElement, Zenon
  <2>3. Trackers = (({"JPVI"} \cup {"SCCR"}) \cup {"PFVT"}) \cup {"ELVT"}
    BY DEF Trackers
  <2> QED
    BY <2>2, <2>3
<1>3. Adjustment(signals) = RoundHalfEven(Clamp(-5000000, 5000000, total), 10000)
  BY DEF Adjustment, Sum
<1>4. ASSUME \A t \in Trackers : \A k \in DOMAIN signals[t] : Harmless(signals[t][k])
      PROVE  total \in Int /\ total >= 0
  <2>1. ASSUME NEW t \in Trackers PROVE points[t] \in Nat
    BY <1>1, <1>4, ContributionFollows
  <2> HIDE DEF points
  <2> QED
    BY <1>2, <2>1, SumOfNats
<1>5. ASSUME \A t \in Trackers : \A k \in DOMAIN signals[t] : Useless(signals[t][k])
      PROVE  total \in Int /\ total <= 0
  <2> DEFINE none == [t \in Trackers |-> 0]
  <2>1. ASSUME NEW t \in Trackers PROVE points[t] \in Int /\ points[t] <= 0
    BY <1>1, <1>5, ContributionFollows
  <2> HIDE DEF points
  <2>2. \A t \in Trackers : /\ points[t] \in Int /\ none[t] \in Int
                            /\ points[t] <= none[t] /\ none[t] = 0 * points[t]
    BY <2>1
  <2> HIDE DEF none
  <2>3. total \in Int /\ Sum(none, Trackers) = 0 * total
    BY <1>2, <2>2, SumPicks, SumScales
  <2>4. total <= Sum(none, Trackers)
    BY <1>2, <2>2, SumsOrdered
  <2> QED
    BY <2>3, <2>4
<1> HIDE DEF total
<1> QED
  BY <1>3, <1>4, <1>5, RoundingFollows

LEMMA SignalsAreFinite ==
    ASSUME HistoriesInv
    PROVE  /\ DOMAIN SignalsFor(Ticker) = Trackers
           /\ \A t \in Trackers : IsFiniteSet(DOMAIN SignalsFor(Ticker)[t])
<1> DEFINE Jobs == JobCategories
           Patents == PatentCategories
<1>1. \A t \in Trackers : DOMAIN file[t] = Watched(t) /\ IsFiniteSet(Watched(t))
  <2>1. ASSUME NEW t \in Trackers PROVE IsFiniteSet(Watched(t))
    <3> DEFINE s == Entities[t]
               n == Len(s)
    <3>1. s \in Seq(STRING)
      BY HistoriesAssumption
    <3>2. n \in Nat /\ DOMAIN s = 1..n /\ s = [i \in 1..n |-> s[i]]
      BY <3>1
    <3>3. Watched(t) = {s[i] : i \in 1..n}
      BY <3>2 DEF Watched, ToSet
    <3> HIDE DEF s, n
    <3>4. s \in Surjection(1..n, Watched(t))
      BY <3>2, <3>3 DEF Surjection
    <3>5. IsFiniteSet(1..n)
      BY <3>2, FS_Interval
    <3> QED
      BY <3>4, <3>5, FS_Surjection, Zenon
  <2> QED
    BY <2>1 DEF HistoriesInv, HistoriesTyped, Filed
<1>2. IsFiniteSet(LanguageCategories)
  <2>1. IsFiniteSet({"capex_commitment"})
    BY FS_Singleton
  <2>2. LanguageCategories = ({"capex_commitment"} \cup {"demand_visibility"})
                               \cup {"competitive_posture"}
    BY DEF LanguageCategories
  <2> QED
    BY <2>1, <2>2, FS_AddElement
<1>3. IsFiniteSet(Jobs)
  <2>1. IsFiniteSet({"data_center_infrastructure"})
    BY FS_Singleton
  <2>2. Jobs = (({"data_center_infrastructure"} \cup {"ai_ml_infrastructure"})
                  \cup {"network_engineering"}) \cup {"power_cooling"}
    BY DEF JobCategories
  <2> QED
    BY <2>1, <2>2, FS_AddElement
<1>4. IsFiniteSet(Patents)
  <2>1. IsFiniteSet({"hbm_memory_packaging"})
    BY FS_Singleton
  <2>2. Patents = ((({"hbm_memory_packaging"} \cup {"ai_inference_chip"})
                      \cup {"pcie_cxl_interconnect"}) \cup {"datacenter_power_cooling"})
                     \cup {"custom_networking_silicon"}
    BY DEF PatentCategories
  <2> QED
    BY <2>1, <2>2, FS_AddElement
<1>5. IsFiniteSet({"volume"})
  BY FS_Singleton
<1> HIDE DEF Jobs, Patents
<1>6. ASSUME NEW t \in Trackers, NEW C, IsFiniteSet(C), NEW D, D \subseteq Watched(t) \X C
      PROVE  IsFiniteSet(D)
  BY <1>1, <1>6, FS_Product, FS_Subset
<1>7. /\ DOMAIN SignalsFor(Ticker) = Trackers
      /\ DOMAIN SignalsFor(Ticker)["ELVT"] \subseteq Watched("ELVT") \X LanguageCategories
      /\ DOMAIN SignalsFor(Ticker)["JPVI"] \subseteq Watched("JPVI") \X Jobs
      /\ DOMAIN SignalsFor(Ticker)["PFVT"] \subseteq Watched("PFVT") \X Patents
      /\ DOMAIN SignalsFor(Ticker)["SCCR"] \subseteq Watched("SCCR") \X {"volume"}
  BY <1>1 DEF SignalsFor, ElvtSignals, JpviSignals, PfvtSignals, SccrSignals, LongEnough,
              Trackers, Jobs, Patents
<1> QED
  BY <1>2, <1>3, <1>4, <1>5, <1>6, <1>7 DEF Trackers

LEMMA EntriesRead ==
    ASSUME NEW C, NEW c \in C, NEW N, NEW h \in Seq([monday : Nat, reads : [C -> N]])
    PROVE  \A i \in DOMAIN h : DOMAIN h[i].reads = C /\ h[i].reads[c] \in N
<1> DEFINE E == [monday : Nat, reads : [C -> N]]
<1>1. h \in Seq(E)
  OBVIOUS
<1>2. \A y \in E : DOMAIN y.reads = C /\ y.reads[c] \in N
  OBVIOUS
<1> HIDE DEF E
<1>3. \A i \in DOMAIN h : h[i] \in E
  BY <1>1
<1> QED
  BY <1>2, <1>3

\* A count compared with the entries before it in its file.
LEMMA CountFollows ==
    ASSUME NEW C, NEW c \in C, NEW h \in Seq([monday : Nat, reads : [C -> Nat]]), Len(h) >= 2,
           NEW n \in Nat \ {0}
    PROVE  /\ Rising(h) => Harmless(CountSignal(n, h, c))
           /\ Falling(h) => Useless(CountSignal(n, h, c))
<1> DEFINE E == [monday : Nat, reads : [C -> Nat]]
           b == Before(n, h)
           prior == Reads(b, c)
           count == Last(h).reads[c]
<1>1. h \in Seq(E)
  OBVIOUS
<1>2. Len(h) \in DOMAIN h /\ Last(h) = h[Len(h)]
  BY DEF Last
<1>3. \A i \in DOMAIN h : DOMAIN h[i].reads = C /\ h[i].reads[c] \in Nat
  BY <1>1, EntriesRead
<1>4. /\ b \in Seq(E)
      /\ \A i \in DOMAIN b : \E j \in DOMAIN h : j < Len(h) /\ b[i] = h[j]
      /\ Len(b) >= 1
  <2> HIDE DEF E
  <2>1. Len(h) \in Nat /\ Len(h) >= 1
    BY <1>1
  <2> QED
    BY <1>1, <2>1, BeforeIsFiled
<1>5. count \in Nat
  BY <1>2, <1>3
<1>6. /\ DOMAIN prior = DOMAIN b /\ IsFiniteSet(DOMAIN b) /\ DOMAIN b # {}
      /\ \A i \in DOMAIN b : \E j \in DOMAIN h : j < Len(h) /\ prior[i] = h[j].reads[c]
  <2>1. DOMAIN b = 1..Len(b) /\ Len(b) \in Nat
    BY <1>4
  <2>2. IsFiniteSet(1..Len(b))
    BY <2>1, FS_Interval
  <2> HIDE DEF b
  <2>3. DOMAIN b # {}
    BY <1>4, <2>1
  <2>4. prior = [i \in DOMAIN b |-> b[i].reads[c]]
    BY DEF Reads
  <2> HIDE DEF prior
  <2> QED
    BY <1>4, <2>1, <2>2, <2>3, <2>4
<1> HIDE DEF b, prior
<1>7. \A i \in DOMAIN prior : prior[i] \in Nat
  BY <1>3, <1>6
<1>8. Rising(h) => \A i \in DOMAIN prior : prior[i] <= count
  BY <1>2, <1>3, <1>6 DEF Rising
<1>9. Falling(h) => \A i \in DOMAIN prior : prior[i] >= count
  BY <1>2, <1>3, <1>6 DEF Falling
<1> HIDE DEF count
<1>10. CountSignal(n, h, c) = VelocityOver(DOMAIN prior, count, prior)
  BY DEF CountSignal, CountVelocity, prior, b, count
<1> QED
  BY <1>5, <1>6, <1>7, <1>8, <1>9, <1>10, VelocityFollows

\* The position's categories are categories of the files.
LEMMA CategoriesFollowed ==
    /\ \A e \in Watched("JPVI") : \A c \in JobCategories :
          Ticker \in JpviPositions[e][c] => c \in Categories("JPVI", e)
    /\ \A e \in Watched("PFVT") : \A c \in PatentCategories :
          Ticker \in PfvtPositions[e][c] => c \in Categories("PFVT", e)
<1>1. \A e \in Watched("JPVI") : DOMAIN JpviPositions[e] = JobCategories
  <2>1. \A e \in Watched("JPVI") : e \in {"Microsoft", "Google", "Amazon", "Meta", "Oracle"}
    BY HistoriesAssumption DEF Watched, JpviPositions
  <2>2. DOMAIN Hyperscaler = JobCategories
    BY DEF Hyperscaler, JobCategories
  <2>3. /\ JpviPositions["Microsoft"] = Hyperscaler /\ JpviPositions["Google"] = Hyperscaler
        /\ JpviPositions["Amazon"] = Hyperscaler
        /\ DOMAIN JpviPositions["Meta"] = DOMAIN Hyperscaler
        /\ DOMAIN JpviPositions["Oracle"] = JobCategories
    BY DEF JpviPositions
  <2> QED
    BY <2>1, <2>2, <2>3
<1>2. \A e \in Watched("PFVT") : DOMAIN PfvtPositions[e] = PatentCategories
  <2>1. \A e \in Watched("PFVT") :
           e \in {"Google", "Microsoft", "Amazon", "Meta", "Samsung", "SKHynix", "Intel"}
    BY HistoriesAssumption DEF Watched, PfvtPositions
  <2>2. DOMAIN Assignee = PatentCategories /\ \A C : DOMAIN OnlyFor(C) = PatentCategories
    BY DEF Assignee, PatentCategories, OnlyFor
  <2>3. /\ DOMAIN PfvtPositions["Google"] = DOMAIN Assignee
        /\ PfvtPositions["Microsoft"] = Assignee /\ PfvtPositions["Amazon"] = Assignee
        /\ DOMAIN PfvtPositions["Meta"] = DOMAIN Assignee
        /\ \A e \in {"Samsung", "SKHynix", "Intel"} : \E C : PfvtPositions[e] = OnlyFor(C)
    BY DEF PfvtPositions
  <2> QED
    BY <2>1, <2>2, <2>3
<1> QED
  BY <1>1, <1>2 DEF Categories, Followed

AllRising == \A t \in Trackers : \A e \in Watched(t) : Rising(file[t][e])
AllFalling == \A t \in Trackers : \A e \in Watched(t) : Falling(file[t][e])

LEMMA SignalsFollow ==
    ASSUME HistoriesInv, NEW t \in Trackers, NEW k \in DOMAIN SignalsFor(Ticker)[t]
    PROVE  /\ AllRising => Harmless(SignalsFor(Ticker)[t][k])
           /\ AllFalling => Useless(SignalsFor(Ticker)[t][k])
<1> DEFINE e == k[1]
           c == k[2]
           h == file[t][e]
<1>1. ASSUME e \in Watched(t), c \in Categories(t, e), Len(h) >= 2, t # "ELVT",
             NEW n \in Nat \ {0}, SignalsFor(Ticker)[t][k] = CountSignal(n, h, c)
      PROVE  /\ AllRising => Harmless(SignalsFor(Ticker)[t][k])
             /\ AllFalling => Useless(SignalsFor(Ticker)[t][k])
  <2> DEFINE C == Categories(t, e)
  <2>1. h \in Seq([monday : Nat, reads : [C -> Nat]])
    BY <1>1 DEF HistoriesInv, HistoriesTyped, Filed, Entry, Numbers
  <2>2. (AllRising => Rising(h)) /\ (AllFalling => Falling(h))
    BY <1>1 DEF AllRising, AllFalling
  <2> HIDE DEF C, h, c
  <2>3. /\ Rising(h) => Harmless(CountSignal(n, h, c))
        /\ Falling(h) => Useless(CountSignal(n, h, c))
    BY <1>1, <2>1, CountFollows DEF C
  <2> QED
    BY <1>1, <2>2, <2>3
<1>2. DOMAIN file[t] = Watched(t)
  BY DEF HistoriesInv, HistoriesTyped, Filed
<1>3. CASE t = "JPVI"
  <2>1. /\ e \in Watched(t) /\ c \in JobCategories /\ Len(h) >= MinWeeks
        /\ Ticker \in JpviPositions[e][c]
        /\ SignalsFor(Ticker)[t][k] = CountSignal(Window, h, c)
    BY <1>2, <1>3 DEF SignalsFor, JpviSignals, LongEnough
  <2>2. Len(h) >= 2
    <3>1. MinWeeks \in Nat /\ MinWeeks >= 2
      BY WindowAssumption
    <3>2. Len(h) \in Nat
      BY <2>1 DEF HistoriesInv, HistoriesTyped, Filed
    <3> QED
      BY <2>1, <3>1, <3>2
  <2> QED
    BY <1>1, <1>3, <2>1, <2>2, CategoriesFollowed, WindowAssumption
<1>4. CASE t = "PFVT"
  <2>1. /\ e \in Watched(t) /\ c \in PatentCategories /\ Len(h) >= 2
        /\ Ticker \in PfvtPositions[e][c]
        /\ SignalsFor(Ticker)[t][k] = CountSignal(PatentWindow, h, c)
    BY <1>2, <1>4 DEF SignalsFor, PfvtSignals, LongEnough
  <2> QED
    BY <1>1, <1>4, <2>1, CategoriesFollowed, WindowAssumption
<1>5. CASE t = "SCCR"
  <2>1. /\ e \in Watched(t) /\ c \in Categories(t, e) /\ Len(h) >= 2
        /\ SignalsFor(Ticker)[t][k] = CountSignal(Window, h, c)
    BY <1>2, <1>5 DEF SignalsFor, SccrSignals, LongEnough, Categories
  <2> QED
    BY <1>1, <1>5, <2>1, WindowAssumption
<1>6. CASE t = "ELVT"
  <2>1. /\ e \in Watched(t) /\ c \in LanguageCategories /\ Len(h) >= 2
        /\ SignalsFor(Ticker)[t][k] = ScoreVelocity(Last(h).reads[c] - h[Len(h) - 1].reads[c])
    BY <1>2, <1>6 DEF SignalsFor, ElvtSignals, LongEnough
  <2>2. h \in Seq([monday : Nat, reads : [LanguageCategories -> Int]])
    BY <1>6, <2>1 DEF HistoriesInv, HistoriesTyped, Filed, Entry, Numbers, Categories
  <2>3. (AllRising => Rising(h)) /\ (AllFalling => Falling(h))
    BY <2>1 DEF AllRising, AllFalling
  <2> DEFINE C == LanguageCategories
             a == h[Len(h) - 1].reads[c]
             z == h[Len(h)].reads[c]
  <2> HIDE DEF h, c, C
  <2>4. /\ Len(h) - 1 \in DOMAIN h /\ Len(h) \in DOMAIN h /\ Len(h) - 1 < Len(h)
        /\ \A i \in DOMAIN h : DOMAIN h[i].reads = C /\ h[i].reads[c] \in Int
    <3>1. c \in C /\ h \in Seq([monday : Nat, reads : [C -> Int]])
      BY <2>1, <2>2 DEF C
    <3>2. \A i \in DOMAIN h : DOMAIN h[i].reads = C /\ h[i].reads[c] \in Int
      BY <3>1, EntriesRead
    <3>3. DOMAIN h = 1..Len(h) /\ Len(h) \in Nat
      BY <3>1
    <3> QED
      BY <2>1, <3>2, <3>3
  <2>5. a \in Int /\ z \in Int /\ (Rising(h) => a <= z) /\ (Falling(h) => a >= z)
    BY <2>1, <2>4 DEF Rising, Falling, C
  <2>6. SignalsFor(Ticker)[t][k] = ScoreVelocity(z - a)
    BY <2>1 DEF Last
  <2> HIDE DEF a, z
  <2>7. z - a \in Int /\ (Rising(h) => z - a >= 0) /\ (Falling(h) => z - a <= 0)
    BY <2>5
  <2> QED
    BY <2>3, <2>6, <2>7, ScoreVelocityFollows
<1> QED
  BY <1>3, <1>4, <1>5, <1>6 DEF Trackers

\* Readings that only grew never take a point from a position, and those that
\* only fell never give it one, for any readings, windows, retries and crashes.
THEOREM GrowthIsHarmless == Spec => []GrowthIsNeverPenalised
<1>1. ASSUME HistoriesInv PROVE GrowthIsNeverPenalised
  <2> DEFINE signals == SignalsFor(Ticker)
  <2>1. /\ AllRising => \A t \in Trackers : \A k \in DOMAIN signals[t] : Harmless(signals[t][k])
        /\ AllFalling => \A t \in Trackers : \A k \in DOMAIN signals[t] : Useless(signals[t][k])
    BY <1>1, SignalsFollow
  <2>2. /\ DOMAIN signals = Trackers
        /\ \A t \in Trackers : IsFiniteSet(DOMAIN signals[t])
    BY <1>1, SignalsAreFinite
  <2> HIDE DEF signals
  <2>3. (AllRising => Adjustment(signals) >= 0) /\ (AllFalling => Adjustment(signals) <= 0)
    BY <2>1, <2>2, AdjustmentFollows
  <2> QED
    BY <2>3 DEF GrowthIsNeverPenalised, Supplementary, AllRising, AllFalling, signals
<1> QED
  BY <1>1, HistoriesInvariance, PTL

=============================================================================
