---------------------------- MODULE GroupProofs ----------------------------
(***************************************************************************)
(* The groups that choose by delay, for every list of outbounds.  LoopInv  *)
(* is the URL test group's ticker and its loops, ChoiceInv the types of a  *)
(* check, and Tolerant what its fold keeps.  SessionInv is a sticky        *)
(* session of the balancer and its cached index, RotationInv RoundRobin's  *)
(* index and its last turns, LowestInv and HashInv what an update leaves   *)
(* to the other strategies.                                                *)
(*                                                                         *)
(* A FoldLeft is the choice of a function on sets of indices.  FoldExists  *)
(* shows that there is one, so that the value of a prefix follows from the *)
(* one before, and UpTo is the induction over prefixes.  IsSort is what    *)
(* the proofs need of SortByDelay, LastAcceptable of AcceptableIndex and   *)
(* IsLeast of MinDelay.                                                    *)
(***************************************************************************)
EXTENDS URLTestGroup, Balancer, FiniteSetTheorems, WellFoundedInduction, TLAPS

-----------------------------------------------------------------------------
(* Numbers and folds *)

\* A set of natural numbers has a least element.
LEMMA LeastNat ==
  ASSUME NEW T \in SUBSET Nat, T # {}
  PROVE  \E x \in T : \A y \in T : x <= y
  <1> DEFINE R == {r \in Nat \X Nat : r[1] < r[2]}
  <1>1. IsWellFoundedOn(R, Nat)  BY NatLessThanWellFounded DEF OpToRel
  <1>2. PICK x \in T : \A y \in T : <<y, x>> \notin R
    <2> HIDE DEF R
    <2> QED  BY <1>1, WFMin
  <1>3. ASSUME NEW y \in T  PROVE x <= y
    <2>1. <<y, x>> \in Nat \X Nat /\ <<y, x>>[1] = y /\ <<y, x>>[2] = x  OBVIOUS
    <2>2. ~(y < x)  BY <1>2, <2>1
    <2> QED  BY <2>2
  <1> QED  BY <1>3

\* A bounded one has a greatest, which Max finds.
LEMMA MaxNat ==
  ASSUME NEW T \in SUBSET Nat, T # {}, NEW b \in Nat, \A y \in T : y <= b
  PROVE  Max(T) \in T /\ \A y \in T : y <= Max(T)
  <1> DEFINE D == {b - y : y \in T}
  <1>1. D \subseteq Nat /\ D # {}
    <2>1. \A y \in T : b - y \in Nat  OBVIOUS
    <2> QED  BY <2>1
  <1>2. PICK z \in D : \A w \in D : z <= w
    <2> HIDE DEF D
    <2> QED BY <1>1, LeastNat
  <1>3. PICK x \in T : z = b - x  BY <1>2
  <1>4. ASSUME NEW y \in T  PROVE x >= y
    <2>1. b - y \in D  OBVIOUS
    <2>2. z <= b - y  BY <1>2, <2>1
    <2> QED  BY <1>3, <2>2
  <1>5. \E m \in T : \A y \in T : m >= y  BY <1>4
  <1>6. Max(T) \in T /\ \A y \in T : Max(T) >= y  BY <1>5 DEF Max
  <1>7. Max(T) \in Nat  BY <1>6
  <1> QED  BY <1>6, <1>7

\* The least number of a set, which Min finds.
LEMMA MinNat ==
  ASSUME NEW S \in SUBSET Nat, S # {}
  PROVE  Min(S) \in S /\ \A y \in S : Min(S) <= y
  <1>1. \E x \in S : \A y \in S : x <= y  BY LeastNat
  <1> QED  BY <1>1 DEF Min

\* A smaller set that keeps the least number.
LEMMA MinStays ==
  ASSUME NEW S \in SUBSET Nat, NEW U \in SUBSET S, S # {}, Min(S) \in U
  PROVE  Min(U) = Min(S)
  <1>1. Min(S) \in S /\ \A y \in S : Min(S) <= y  BY MinNat
  <1>2. U \in SUBSET Nat /\ U # {}  OBVIOUS
  <1>3. Min(U) \in U /\ \A y \in U : Min(U) <= y  BY <1>2, MinNat
  <1>4. Min(U) <= Min(S) /\ Min(S) <= Min(U) /\ Min(U) \in Nat /\ Min(S) \in Nat  BY <1>1, <1>3
  <1> QED  BY <1>4

\* The delay of a timeout is a natural number.
LEMMA TimeoutTyped ==  TimeoutDelay \in Nat /\ 0 \in 0..TimeoutDelay
  <1>1. TimeoutDelay \in Nat  BY DEF TimeoutDelay
  <1> QED  BY <1>1

\* Its value, by two inequalities.
LEMMA TimeoutValue ==  65535 <= TimeoutDelay /\ TimeoutDelay <= 65535  BY DEF TimeoutDelay

\* Induction: a set of numbers with 0 that is closed under successor up to n.
LEMMA UpTo ==
  ASSUME NEW n \in Nat, NEW T, 0 \in T, \A k \in 0..n-1 : k \in T => k + 1 \in T
  PROVE  \A k \in 0..n : k \in T
  <1> DEFINE M == {k \in 0..n : k \notin T}
  <1>1. SUFFICES ASSUME M # {}  PROVE FALSE  OBVIOUS
  <1>2. PICK m \in M : \A y \in M : m <= y
    <2>1. M \in SUBSET Nat  OBVIOUS
    <2> HIDE DEF M
    <2> QED  BY <1>1, <2>1, LeastNat
  <1>3. m # 0 /\ m - 1 \in 0..n-1  OBVIOUS
  <1>4. m - 1 \in T  BY <1>2, <1>3
  <1>5. m - 1 + 1 \in T  BY <1>3, <1>4
  <1> QED  BY <1>5

\* The greatest index of a set of them.
LEMMA MaxIndex ==
  ASSUME NEW n \in Nat, NEW s \in SUBSET (1..n), s # {}
  PROVE  Max(s) \in s /\ \A y \in s : y <= Max(s)
  <1>1. s \in SUBSET Nat /\ \A y \in s : y <= n  OBVIOUS
  <1> QED  BY <1>1, MaxNat

\* f folds step, from base, over every set of indices, the greatest last.
IsFold(f, n, R, base, step) ==
    /\ f \in [SUBSET (1..n) -> R]
    /\ \A s \in SUBSET (1..n) :
          f[s] = IF s = {} THEN base ELSE step[<<Max(s), f[s \ {Max(s)}]>>]

\* There is one: MapThenFoldSet chooses such a function.
LEMMA FoldExists ==
  ASSUME NEW n \in Nat, NEW R, NEW base \in R, NEW step \in [(1..n) \X R -> R]
  PROVE  \E f : IsFold(f, n, R, base, step)
  <1> DEFINE T == {k \in 0..n : \E f : IsFold(f, k, R, base, step)}
  <1>1. 0 \in T
    <2> DEFINE f == [s \in SUBSET (1..0) |-> base]
    <2>1. IsFold(f, 0, R, base, step)  BY DEF IsFold
    <2> QED  BY <2>1
  <1>2. ASSUME NEW k \in 0..n-1, k \in T  PROVE k + 1 \in T
    <2>1. PICK f : IsFold(f, k, R, base, step)  BY <1>2
    <2> DEFINE g == [s \in SUBSET (1..k+1) |->
                       IF k + 1 \in s THEN step[<<k + 1, f[s \ {k + 1}]>>] ELSE f[s]]
    <2>2. \A s \in SUBSET (1..k+1) : s \ {k + 1} \in SUBSET (1..k)  OBVIOUS
    <2>3. \A s \in SUBSET (1..k) : f[s] \in R /\ s \in SUBSET (1..k+1) /\ k + 1 \notin s
      BY <2>1 DEF IsFold
    <2>4. g \in [SUBSET (1..k+1) -> R]
      <3>1. ASSUME NEW s \in SUBSET (1..k+1), k + 1 \in s
            PROVE  step[<<k + 1, f[s \ {k + 1}]>>] \in R
        BY <2>2, <2>3
      <3>2. ASSUME NEW s \in SUBSET (1..k+1), k + 1 \notin s  PROVE f[s] \in R
        <4>1. s \in SUBSET (1..k)  BY <3>2
        <4> QED  BY <4>1, <2>3
      <3> QED  BY <3>1, <3>2
    <2>5. \A s \in SUBSET (1..k) : g[s] = f[s]  BY <2>3
    <2>6. ASSUME NEW s \in SUBSET (1..k+1)
          PROVE  g[s] = IF s = {} THEN base ELSE step[<<Max(s), g[s \ {Max(s)}]>>]
      <3>1. CASE k + 1 \in s
        <4>1. Max(s) = k + 1
          <5>1. k + 1 \in Nat /\ s # {}  BY <3>1
          <5> HIDE DEF g
          <5>2. Max(s) \in s /\ \A y \in s : y <= Max(s)  BY <5>1, MaxIndex
          <5>3. Max(s) \in 1..k+1  BY <5>2
          <5>4. k + 1 <= Max(s)  BY <3>1, <5>2
          <5> QED  BY <5>3, <5>4
        <4>3. g[s] = step[<<k + 1, f[s \ {k + 1}]>>]  BY <3>1
        <4>4. g[s \ {k + 1}] = f[s \ {k + 1}]  BY <2>2, <2>5
        <4> QED  BY <3>1, <4>1, <4>3, <4>4
      <3>2. CASE k + 1 \notin s
        <4>0. \A y \in 1..k+1 : y # k + 1 => y \in 1..k  OBVIOUS
        <4>1. s \in SUBSET (1..k) /\ s \ {Max(s)} \in SUBSET (1..k)  BY <3>2, <4>0
        <4>2. g[s] = f[s] /\ g[s \ {Max(s)}] = f[s \ {Max(s)}]  BY <4>1, <2>5
        <4> QED  BY <2>1, <4>1, <4>2 DEF IsFold
      <3> QED  BY <3>1, <3>2
    <2>7. IsFold(g, k + 1, R, base, step)
      <3> HIDE DEF g
      <3> QED  BY <2>4, <2>6 DEF IsFold
    <2> QED  BY <2>7
  <1>3. \A k \in 0..n : k \in T
    <2> HIDE DEF T
    <2> QED  BY <1>1, <1>2, UpTo
  <1> QED  BY <1>3

\* The first k indices.
LEMMA Prefix ==
  ASSUME NEW n \in Nat, NEW k \in 1..n
  PROVE  /\ 1..k \in SUBSET (1..n) /\ 1..k # {}
         /\ Max(1..k) = k /\ (1..k) \ {k} = 1..(k-1)
  <1>1. 1..k \in SUBSET (1..n) /\ k \in 1..k  OBVIOUS
  <1>2. Max(1..k) \in 1..k /\ \A y \in 1..k : y <= Max(1..k)  BY <1>1, MaxIndex
  <1>3. Max(1..k) = k  BY <1>1, <1>2
  <1> QED  BY <1>1, <1>3

-----------------------------------------------------------------------------
(* URLTestGroup: the ticker and its loops *)

\* A loopCheck goroutine that has begun and not ended.
Running(l) == loop[l] \notin {"none", "exited"}

\* Two loops never run at once and a running one has the ticker; until
\* g.close is closed a ticker has a loop; a loop that holds g.checking is in
\* its check.
LoopInv ==
    /\ loop \in [Loop -> {"none", "start", "wait", "check", "stop", "exited"}]
    /\ ticker \in BOOLEAN /\ registered \in BOOLEAN
    /\ closed \in {"no", "noop", "yes"}
    /\ \A l, m \in Loop : Running(l) /\ Running(m) => l = m
    /\ \A l \in Loop : Running(l) => ticker
    /\ closed # "yes" /\ ticker => \E l \in Loop : Running(l)
    /\ checking \in Loop => loop[checking] = "check"

\* Before the first Touch nothing runs.
LEMMA LoopInit ==
  ASSUME URLTestInit  PROVE LoopInv
  BY URLTestAssumption DEF URLTestInit, LoopInv, Running

\* What LoopInv says of the ticker.
LEMMA LoopOne ==
  ASSUME LoopInv  PROVE LoopPerTicker
  <1> DEFINE alive == {l \in Loop : loop[l] \notin {"none", "exited"}}
  <1>1. \A l, m \in alive : l = m  BY DEF LoopInv, Running
  <1>2. closed # "yes" => ticker = (alive # {})
    <2>1. (alive # {}) => ticker  BY DEF LoopInv, Running
    <2>2. closed # "yes" /\ ticker => alive # {}  BY DEF LoopInv, Running
    <2>3. ticker \in BOOLEAN /\ (alive # {}) \in BOOLEAN  BY DEF LoopInv
    <2> QED  BY <2>1, <2>2, <2>3
  <1> QED  BY <1>1, <1>2 DEF LoopPerTicker

\* A Touch that starts the ticker finds no running loop.
LEMMA LoopTouch ==
  ASSUME LoopInv, Touch  PROVE LoopInv'
  <1>1. CASE ticker  BY <1>1 DEF Touch, checkVars, LoopInv, Running
  <1>2. CASE ~ticker
    <2> DEFINE new == CHOOSE l \in Unused : TRUE
    <2>1. new \in Loop /\ loop[new] = "none"  BY <1>2 DEF Touch, Unused
    <2>2. loop' = [loop EXCEPT ![new] = "start"] /\ ticker' = TRUE /\ registered' = TRUE
      BY <1>2 DEF Touch
    <2> HIDE DEF new
    <2>3. closed' = closed /\ checking' = checking  BY DEF Touch, checkVars
    <2>4. \A l \in Loop : ~Running(l)  BY <1>2 DEF LoopInv
    <2> QED  BY <2>1, <2>2, <2>3, <2>4 DEF LoopInv, Running
  <1> QED  BY <1>1, <1>2 DEF LoopInv

\* Steps that the ticker and its loops do not see.
LEMMA LoopOther ==
  ASSUME LoopInv, UNCHANGED <<ticker, registered, loop, closed, checking>>  PROVE LoopInv'
  BY DEF LoopInv, Running

\* The steps of a loop.  A busy one is not the holder of g.checking.
LEMMA LoopStepInv ==
  ASSUME LoopInv, NEW l \in Loop, LoopStep(l)  PROVE LoopInv'
  <1> USE DEF checkVars, LoopInv, Running
  <1>1. CASE LoopStart(l)
    <2>1. PICK s \in {"wait", "check"} : loop' = [loop EXCEPT ![l] = s]  BY <1>1 DEF LoopStart
    <2> QED  BY <1>1, <2>1 DEF LoopStart
  <1>2. CASE LoopTick(l)
    <2>1. PICK s \in {"stop", "check"} : loop' = [loop EXCEPT ![l] = s]  BY <1>2 DEF LoopTick
    <2> QED  BY <1>2, <2>1 DEF LoopTick
  <1>3. CASE LoopClosed(l)  BY <1>3 DEF LoopClosed
  <1>4. CASE LoopStop(l)  BY <1>4 DEF LoopStop
  <1>5. CASE CheckBusy(l)  BY <1>5 DEF CheckBusy
  <1> QED  BY <1>1, <1>2, <1>3, <1>4, <1>5 DEF LoopStep

\* The steps of a check; its end returns a loop to its select.
LEMMA LoopCheckInv ==
  ASSUME LoopInv,
         \/ CheckStep
         \/ \E c \in Loop \cup {Api}, force \in BOOLEAN : CheckBegin(c, force)
  PROVE  LoopInv'
  <1>1. CASE CheckEnd
    <2>1. CASE checking \in Loop
      <3>1. loop' = [loop EXCEPT ![checking] = "wait"]  BY <1>1, <2>1 DEF CheckEnd
      <3>2. checking' = None /\ UNCHANGED <<ticker, registered, closed>>  BY <1>1 DEF CheckEnd
      <3>3. None \notin Loop  BY URLTestAssumption
      <3> QED  BY <2>1, <3>1, <3>2, <3>3 DEF LoopInv, Running
    <2>2. CASE checking \notin Loop
      BY <1>1, <2>2, URLTestAssumption DEF CheckEnd, LoopInv, Running
    <2> QED  BY <2>1, <2>2
  <1>2. CASE \E c \in Loop \cup {Api}, force \in BOOLEAN : CheckBegin(c, force)
    BY <1>2, URLTestAssumption DEF CheckBegin, loopVars, LoopInv, Running
  <1>3. ASSUME NEW t, NEW d, TestEnds(t, d)  PROVE LoopInv'
    BY <1>3, LoopOther DEF TestEnds, loopVars
  <1>4. CASE BatchDone  BY <1>4, LoopOther DEF BatchDone, loopVars
  <1>5. ASSUME NEW n, NEW m, UpdateSelected(n, m)  PROVE LoopInv'
    BY <1>5, LoopOther DEF UpdateSelected, loopVars
  <1> QED  BY <1>1, <1>2, <1>3, <1>4, <1>5 DEF CheckStep

\* Every step keeps LoopInv.
LEMMA LoopNext ==
  ASSUME LoopInv, [URLTestNext]_urlTestVars  PROVE LoopInv'
  <1>1. CASE Touch  BY <1>1, LoopTouch
  <1>2. CASE Close  BY <1>2 DEF Close, checkVars, LoopInv, Running
  <1>3. CASE Idle  BY <1>3, LoopOther DEF Idle, checkVars
  <1>4. ASSUME NEW l \in Loop, LoopStep(l)  PROVE LoopInv'  BY <1>4, LoopStepInv
  <1>5. CASE CheckStep \/ \E c \in Loop \cup {Api}, force \in BOOLEAN : CheckBegin(c, force)
    BY <1>5, LoopCheckInv
  <1>6. ASSUME NEW o, DialFails(o) \/ ResultExpires(o)  PROVE LoopInv'
    BY <1>6, LoopOther DEF DialFails, ResultExpires, loopVars, checkVars
  <1>7. CASE UNCHANGED urlTestVars  BY <1>7, LoopOther DEF urlTestVars, loopVars, checkVars
  <1>8. ASSUME NEW o, NEW t, Switch(o, t)  PROVE LoopInv'
    BY <1>8, LoopOther DEF Switch, loopVars, checkVars
  <1>9. CASE PauseOrWake  BY <1>9, LoopOther DEF PauseOrWake, loopVars, checkVars
  <1> QED  BY <1>1, <1>2, <1>3, <1>4, <1>5, <1>6, <1>7, <1>8, <1>9 DEF URLTestNext

\* As long as g.close is open a ticker runs exactly when one loop does
\* (Touch, Close, loopCheck), for any number of loops and outbounds.
THEOREM TickerHasOneLoop ==  URLTestSpec => []LoopPerTicker
  <1>1. URLTestInit => LoopInv  BY LoopInit
  <1>2. LoopInv /\ [URLTestNext]_urlTestVars => LoopInv'  BY LoopNext
  <1>3. LoopInv => LoopPerTicker  BY LoopOne
  <1> QED  BY <1>1, <1>2, <1>3, PTL DEF URLTestSpec

-----------------------------------------------------------------------------
(* URLTestGroup: the choice of an outbound *)

\* The types of what a check reads and writes; an outbound is selected for a
\* network that it supports.
ChoiceInv ==
    /\ realTag \in [Outbound -> Tag] /\ paused \in BOOLEAN
    /\ age \in {"fresh", "stale", "idle"}
    /\ history \in [Tag -> Entry \cup {None}]
    /\ checking \in Loop \cup {Api, None}
    /\ phase \in {"none", "test", "tcp", "udp", "interrupt"}
    /\ todo \in SUBSET Tag
    /\ updated \in BOOLEAN
    /\ selectedOutbound \in [Net -> Outbound \cup {None}]
    /\ (checking = None) = (phase = "none")
    /\ \A n \in Net : selectedOutbound[n] # None => n \in Supports[selectedOutbound[n]]

\* What SelectBest begins with: the selection, if it has a result.
Current(n) ==
    IF selectedOutbound[n] = None \/ history[realTag[selectedOutbound[n]]] = None
    THEN [delay |-> 0, out |-> None]
    ELSE [delay |-> history[realTag[selectedOutbound[n]]].delay, out |-> selectedOutbound[n]]

\* A step of its fold.
Closer(n, k, min) ==
    IF /\ n \in Supports[Outbounds[k]] /\ history[realTag[Outbounds[k]]] # None
       /\ min.delay = 0 \/ min.delay > Uint16(history[realTag[Outbounds[k]]].delay + Tolerance)
    THEN [delay |-> history[realTag[Outbounds[k]]].delay, out |-> Outbounds[k]] ELSE min

\* A result is a 16-bit delay.
LEMMA ResultTyped ==
  ASSUME ChoiceInv, NEW o \in Outbound, history[realTag[o]] # None
  PROVE  history[realTag[o]].delay \in 0..TimeoutDelay
  <1>1. realTag[o] \in Tag  BY DEF ChoiceInv
  <1>2. history[realTag[o]] \in Entry  BY <1>1 DEF ChoiceInv
  <1> QED  BY <1>2 DEF Entry

\* FoldLeft in SelectBest, outbound by outbound.
LEMMA SelectFold ==
  ASSUME ChoiceInv, NEW n \in Net
  PROVE  \E f : /\ f[1..0] = Current(n)
                /\ \A k \in 1..Len(Outbounds) : f[1..k] = Closer(n, k, f[1..(k-1)])
                /\ f[1..Len(Outbounds)].out = SelectBest(n)
  <1> DEFINE len == Len(Outbounds)
             base == Current(n)
             R == [delay : 0..TimeoutDelay, out : Outbound \cup {None}]
             step == [x \in (1..len) \X R |-> Closer(n, x[1], x[2])]
             Solves(f) == f = [s \in SUBSET (1..len) |->
                               IF s = {} THEN base ELSE Closer(n, Max(s), f[s \ {Max(s)}])]
  <1>1. len \in Nat /\ DOMAIN Outbounds = 1..len /\ \A k \in 1..len : Outbounds[k] \in Outbound
    BY MemberAssumption
  <1>2. base \in R
    <2>1. 0 \in 0..TimeoutDelay  BY TimeoutTyped
    <2>2. selectedOutbound[n] \in Outbound \cup {None}  BY DEF ChoiceInv
    <2>3. selectedOutbound[n] # None /\ history[realTag[selectedOutbound[n]]] # None =>
             history[realTag[selectedOutbound[n]]].delay \in 0..TimeoutDelay
      BY <2>2, ResultTyped
    <2> QED  BY <2>1, <2>2, <2>3 DEF Current
  <1>3. \A k \in 1..len, r \in R : Closer(n, k, r) \in R
    <2>1. \A k \in 1..len : history[realTag[Outbounds[k]]] # None =>
             history[realTag[Outbounds[k]]].delay \in 0..TimeoutDelay
      BY <1>1, ResultTyped
    <2> QED  BY <1>1, <2>1 DEF Closer
  <1>4. step \in [(1..len) \X R -> R]  BY <1>3
  <1>5. \A k \in 1..len, r \in R : step[<<k, r>>] = Closer(n, k, r)  OBVIOUS
  <1>6. PICK f : IsFold(f, len, R, base, step)
    <2> HIDE DEF len, R, base, step
    <2> QED  BY <1>1, <1>2, <1>4, FoldExists
  <1>7. Solves(f)
    <2>1. ASSUME NEW s \in SUBSET (1..len), s # {}
          PROVE  Max(s) \in 1..len /\ f[s \ {Max(s)}] \in R
      <3> HIDE DEF R, len
      <3> QED  BY <1>1, <1>6, <2>1, MaxIndex DEF IsFold
    <2>2. ASSUME NEW s \in SUBSET (1..len), s # {}
          PROVE  f[s] = Closer(n, Max(s), f[s \ {Max(s)}])
      <3> HIDE DEF R, len, step
      <3> QED  BY <1>5, <1>6, <2>1, <2>2 DEF IsFold
    <2>3. f[{}] = base /\ f = [s \in SUBSET (1..len) |-> f[s]]  BY <1>6 DEF IsFold
    <2> QED  BY <2>2, <2>3
  <1> DEFINE it == CHOOSE g : Solves(g)
  <1>8. Solves(it)  BY <1>7
  <1>9. SelectBest(n) = it[1..len].out
    BY <1>1 DEF SelectBest, FoldLeft, MapThenFoldSet, Closer, Current
  <1> HIDE DEF it
  <1>10. it[1..0] = base  BY <1>8
  <1>11. ASSUME NEW k \in 1..len  PROVE it[1..k] = Closer(n, k, it[1..(k-1)])
    <2> HIDE DEF len, base
    <2>1. /\ 1..k \in SUBSET (1..len) /\ 1..k # {} /\ Max(1..k) = k /\ (1..k) \ {k} = 1..(k-1)
      BY <1>1, Prefix
    <2> QED  BY <1>8, <2>1
  <1> QED  BY <1>9, <1>10, <1>11

\* Select chooses an outbound of the group that supports the network, or none.
LEMMA SelectTyped ==
  ASSUME ChoiceInv, NEW n \in Net
  PROVE  /\ Select(n) \in Outbound \cup {None}
         /\ Select(n) # None => n \in Supports[Select(n)]
  <1> DEFINE len == Len(Outbounds)
             Fits(o) == o = None \/ (o \in Outbound /\ n \in Supports[o])
  <1>1. len \in Nat /\ DOMAIN Outbounds = 1..len /\ \A k \in 1..len : Outbounds[k] \in Outbound
    BY MemberAssumption
  <1>2. PICK f : /\ f[1..0] = Current(n)
                 /\ \A k \in 1..len : f[1..k] = Closer(n, k, f[1..(k-1)])
                 /\ f[1..len].out = SelectBest(n)
    BY SelectFold
  <1> DEFINE T == {k \in 0..len : Fits(f[1..k].out)}
  <1>3. 0 \in T
    <2>1. Fits(Current(n).out)  BY DEF Current, ChoiceInv
    <2> QED  BY <1>1, <1>2, <2>1
  <1>4. ASSUME NEW k \in 0..len-1, k \in T  PROVE k + 1 \in T
    <2>1. k + 1 \in 1..len /\ k + 1 \in 0..len /\ (k + 1) - 1 = k  BY <1>1
    <2>2. f[1..(k+1)] = Closer(n, k + 1, f[1..k])  BY <1>2, <2>1
    <2>3. \/ f[1..(k+1)] = f[1..k]
          \/ f[1..(k+1)].out = Outbounds[k+1] /\ n \in Supports[Outbounds[k+1]]
      BY <2>2 DEF Closer
    <2> QED  BY <1>1, <1>4, <2>1, <2>3
  <1>5. Fits(SelectBest(n))
    <2>1. len \in T
      <3> HIDE DEF T, len
      <3>1. \A k \in 0..len : k \in T  BY <1>1, <1>3, <1>4, UpTo
      <3> QED  BY <1>1, <3>1
    <2> QED  BY <1>2, <2>1
  <1> DEFINE usable == {i \in 1..len : n \in Supports[Outbounds[i]]}
  <1>6. Select(n) = IF SelectBest(n) # None THEN SelectBest(n)
                    ELSE IF usable # {} THEN Outbounds[Min(usable)] ELSE None
    BY <1>1 DEF Select
  <1>7. usable # {} => Min(usable) \in usable
    <2>1. usable \in SUBSET Nat  OBVIOUS
    <2> HIDE DEF usable
    <2> QED  BY <2>1, MinNat
  <1>8. usable # {} => Fits(Outbounds[Min(usable)])  BY <1>1, <1>7
  <1> QED  BY <1>5, <1>6, <1>8

\* At first nothing is tested or selected.
LEMMA ChoiceInit ==
  ASSUME URLTestInit  PROVE ChoiceInv
  <1>1. \A n \in Net : selectedOutbound[n] = None  BY DEF URLTestInit
  <1>2. selectedOutbound \in [Net -> Outbound \cup {None}]  BY DEF URLTestInit
  <1>3. history \in [Tag -> Entry \cup {None}]  BY DEF URLTestInit
  <1> QED  BY <1>1, <1>2, <1>3 DEF URLTestInit, ChoiceInv

\* Steps that a check does not see.
LEMMA ChoiceOther ==
  ASSUME ChoiceInv, UNCHANGED <<envVars, history, checkVars>>, age' \in {"fresh", "stale", "idle"}
  PROVE  ChoiceInv'
  BY DEF envVars, checkVars, ChoiceInv

\* A result is stored.
LEMMA ChoiceStore ==
  ASSUME ChoiceInv, NEW t \in Tag, NEW d \in 0..TimeoutDelay, Store(t, d)
  PROVE  history' \in [Tag -> Entry \cup {None}]
  <1>1. [delay |-> d, fresh |-> TRUE] \in Entry  BY DEF Entry
  <1> QED  BY <1>1 DEF Store, ChoiceInv

\* The steps of a check.
LEMMA ChoiceCheck ==
  ASSUME ChoiceInv, CheckStep  PROVE ChoiceInv'
  <1> USE DEF envVars, loopVars
  <1>0. None \notin Loop \cup {Api}  BY URLTestAssumption
  <1>1. ASSUME NEW t \in Tag, NEW d \in Delay[t] \cup {TimeoutDelay}, TestEnds(t, d)
        PROVE  ChoiceInv'
    <2>0. TimeoutDelay \in 0..TimeoutDelay  BY TimeoutTyped
    <2>1. d \in 0..TimeoutDelay  BY <2>0, URLTestAssumption
    <2>2. history' \in [Tag -> Entry \cup {None}]
      BY <1>1, <2>1, ChoiceStore DEF TestEnds
    <2>3. todo' \in SUBSET Tag  BY <1>1 DEF TestEnds, ChoiceInv
    <2>4. UNCHANGED <<envVars, age, checking, phase, updated, selectedOutbound>>
      BY <1>1 DEF TestEnds
    <2> QED  BY <2>2, <2>3, <2>4 DEF ChoiceInv
  <1>2. CASE BatchDone
    <2>1. checking # None  BY <1>2 DEF BatchDone, ChoiceInv
    <2>2. /\ phase' = "tcp"
          /\ UNCHANGED <<envVars, age, history, checking, todo, updated, selectedOutbound>>
      BY <1>2 DEF BatchDone
    <2> QED  BY <2>1, <2>2 DEF ChoiceInv
  <1>3. ASSUME NEW n \in Net, NEW next \in {"udp", "interrupt"}, UpdateSelected(n, next)
        PROVE  ChoiceInv'
    <2>1. checking # None  BY <1>3 DEF UpdateSelected, ChoiceInv, Net
    <2>2. PICK new \in {Select(n), selectedOutbound[n]} :
             selectedOutbound' = [selectedOutbound EXCEPT ![n] = new]
      BY <1>3 DEF UpdateSelected
    <2>3. new \in Outbound \cup {None} /\ (new # None => n \in Supports[new])
      BY <2>2, SelectTyped DEF ChoiceInv
    <2>4. /\ selectedOutbound' \in [Net -> Outbound \cup {None}]
          /\ \A m \in Net : selectedOutbound'[m] # None => m \in Supports[selectedOutbound'[m]]
      BY <2>2, <2>3 DEF ChoiceInv
    <2>5. updated' \in BOOLEAN  BY <1>3 DEF UpdateSelected
    <2>6. phase' = next /\ UNCHANGED <<envVars, age, history, checking, todo>>  BY <1>3 DEF UpdateSelected
    <2> QED  BY <2>1, <2>4, <2>5, <2>6 DEF ChoiceInv
  <1>4. CASE CheckEnd
    <2>1. /\ phase' = "none" /\ checking' = None /\ updated' = FALSE
          /\ UNCHANGED <<envVars, age, history, todo, selectedOutbound>>
      BY <1>4 DEF CheckEnd
    <2> QED  BY <2>1 DEF ChoiceInv
  <1> QED  BY <1>1, <1>2, <1>3, <1>4 DEF CheckStep, Net

\* Every step keeps ChoiceInv.
LEMMA ChoiceNext ==
  ASSUME ChoiceInv, [URLTestNext]_urlTestVars  PROVE ChoiceInv'
  <1>1. CASE Touch \/ Close \/ Idle
    <2>1. age' \in {"fresh", "stale", "idle"}  BY <1>1 DEF Touch, Close, Idle, ChoiceInv
    <2>2. UNCHANGED <<envVars, history, checkVars>>  BY <1>1 DEF Touch, Close, Idle
    <2> QED  BY <2>1, <2>2, ChoiceOther
  <1>2. ASSUME NEW l \in Loop, LoopStep(l)  PROVE ChoiceInv'
    <2> USE DEF LoopStep, LoopStart, LoopTick, LoopClosed, LoopStop, CheckBusy
    <2>1. age' \in {"fresh", "stale", "idle"}  BY <1>2 DEF ChoiceInv
    <2>2. UNCHANGED <<envVars, history, checkVars>>  BY <1>2
    <2> QED  BY <2>1, <2>2, ChoiceOther
  <1>3. ASSUME NEW c \in Loop \cup {Api}, NEW force \in BOOLEAN, CheckBegin(c, force)
        PROVE  ChoiceInv'
    <2>1. c # None  BY URLTestAssumption
    <2>2. Targets(force) \in SUBSET Tag  BY URLTestAssumption DEF Targets
    <2>3. /\ checking' = c /\ phase' = "test" /\ todo' = Targets(force) /\ updated' = FALSE
          /\ UNCHANGED <<envVars, age, history, selectedOutbound>>
      BY <1>3 DEF CheckBegin, loopVars
    <2> QED  BY <2>1, <2>2, <2>3 DEF ChoiceInv, envVars
  <1>4. CASE CheckStep  BY <1>4, ChoiceCheck
  <1>5. ASSUME NEW o \in Outbound, DialFails(o)  PROVE ChoiceInv'
    <2>1. TimeoutDelay \in 0..TimeoutDelay  BY TimeoutTyped
    <2>2. history' \in [Tag -> Entry \cup {None}]  BY <1>5, <2>1, ChoiceStore DEF DialFails
    <2>3. UNCHANGED <<envVars, age, checkVars>>  BY <1>5 DEF DialFails, loopVars
    <2> QED  BY <2>2, <2>3 DEF ChoiceInv, envVars, checkVars
  <1>6. ASSUME NEW o \in Tag, ResultExpires(o)  PROVE ChoiceInv'
    <2>1. history[o] \in Entry  BY <1>6 DEF ResultExpires, ChoiceInv
    <2>2. history' \in [Tag -> Entry \cup {None}]
      BY <1>6, <2>1 DEF ResultExpires, ChoiceInv, Entry
    <2>3. UNCHANGED <<envVars, age, checkVars>>  BY <1>6 DEF ResultExpires, loopVars
    <2> QED  BY <2>2, <2>3 DEF ChoiceInv, envVars, checkVars
  <1>7. CASE UNCHANGED urlTestVars
    <2>1. age' \in {"fresh", "stale", "idle"}  BY <1>7 DEF urlTestVars, loopVars, ChoiceInv
    <2> QED  BY <1>7, <2>1, ChoiceOther DEF urlTestVars
  <1>8. ASSUME NEW o \in Outbound, NEW t \in Tag, Switch(o, t)  PROVE ChoiceInv'
    <2>1. realTag' \in [Outbound -> Tag] /\ paused' \in BOOLEAN
      BY <1>8 DEF Switch, ChoiceInv
    <2>2. UNCHANGED <<age, history, checkVars>>  BY <1>8 DEF Switch, loopVars
    <2> QED  BY <2>1, <2>2 DEF ChoiceInv, checkVars
  <1>9. CASE PauseOrWake
    <2>1. UNCHANGED <<realTag, age, history, checkVars>> /\ paused' \in BOOLEAN
      BY <1>9 DEF PauseOrWake, loopVars
    <2> QED  BY <2>1 DEF ChoiceInv, checkVars
  <1> QED  BY <1>1, <1>2, <1>3, <1>4, <1>5, <1>6, <1>7, <1>8, <1>9 DEF URLTestNext

\* It holds in every behaviour.
LEMMA ChoiceAlways ==  URLTestSpec => []ChoiceInv
  <1>1. URLTestInit => ChoiceInv  BY ChoiceInit
  <1>2. ChoiceInv /\ [URLTestNext]_urlTestVars => ChoiceInv'  BY ChoiceNext
  <1> QED  BY <1>1, <1>2, PTL DEF URLTestSpec

\* The types of the group's state, g.checking included: it is held exactly
\* while a check is in one of its phases (urlTest, performUpdateCheck).
THEOREM URLTestTyped ==  URLTestSpec => []URLTestTypeOK
  <1>1. URLTestInit => LoopInv  BY LoopInit
  <1>2. LoopInv /\ [URLTestNext]_urlTestVars => LoopInv'  BY LoopNext
  <1>3. LoopInv /\ ChoiceInv => URLTestTypeOK  BY DEF LoopInv, ChoiceInv, URLTestTypeOK
  <1> QED  BY <1>1, <1>2, <1>3, ChoiceAlways, PTL DEF URLTestSpec

\* The outbounds of a network with a result.
Tested(n) == {o \in Outbound : n \in Supports[o] /\ history[realTag[o]] # None}

\* That result.
Took(o) == history[realTag[o]].delay

\* Every result of the network is one that Select can add the tolerance to.
InRange(n) == \A o \in Tested(n) : Took(o) \in 1..(TimeoutDelay - Tolerance)

\* m is a tolerant choice among the current selection and the first k
\* outbounds: nothing if none of them is tested.
Tolerant(m, n, k) ==
    LET cur == selectedOutbound[n]
    IN  \/ /\ m.out = None /\ m.delay = 0 /\ cur \notin Tested(n)
           /\ \A j \in 1..k : Outbounds[j] \notin Tested(n)
        \/ /\ m.out \in Tested(n) /\ m.delay = Took(m.out)
           /\ \A j \in 1..k : Outbounds[j] \in Tested(n) =>
                                 m.delay <= Took(Outbounds[j]) + Tolerance
           /\ cur \in Tested(n) /\ m.out # cur => Took(cur) > m.delay + Tolerance

\* The sum of a delay in range and the tolerance fits into 16 bits.
LEMMA NoWrap ==
  ASSUME NEW t \in 1..TimeoutDelay, NEW d \in 1..(TimeoutDelay - t)
  PROVE  d \in Nat /\ d # 0 /\ d + t \in Nat /\ Uint16(d + t) = d + t
  <1>1. t \in Nat /\ d \in Nat /\ d # 0 /\ d + t <= TimeoutDelay  BY TimeoutTyped
  <1>2. d + t \in Nat /\ d + t <= 65535  BY <1>1, TimeoutTyped, TimeoutValue
  <1>3. (d + t) % 65536 = d + t  BY <1>2
  <1> QED  BY <1>1, <1>2, <1>3 DEF Uint16

\* The next outbound of the list keeps the choice tolerant.
LEMMA TolerantStep ==
  ASSUME ChoiceInv, NEW n \in Net, InRange(n),
         NEW k \in 0..Len(Outbounds)-1, NEW m, Tolerant(m, n, k)
  PROVE  Tolerant(Closer(n, k + 1, m), n, k + 1)
  <1> DEFINE o == Outbounds[k+1]
             cur == selectedOutbound[n]
  <1>1. o \in Outbound /\ Tolerance \in 1..TimeoutDelay
    BY MemberAssumption, URLTestAssumption
  <1>2. 1..(k+1) = (1..k) \cup {k + 1}  OBVIOUS
  <1>3. \A p \in Tested(n) : /\ Took(p) \in Nat /\ Took(p) # 0 /\ Took(p) + Tolerance \in Nat
                             /\ Uint16(Took(p) + Tolerance) = Took(p) + Tolerance
    <2>1. \A p \in Tested(n) : Took(p) \in 1..(TimeoutDelay - Tolerance)  BY DEF InRange
    <2> QED  BY <1>1, <2>1, NoWrap
  <1>4. Tolerance \in Nat  BY <1>1, TimeoutTyped
  <1>5. CASE o \notin Tested(n)
    <2>1. Closer(n, k + 1, m) = m  BY <1>1, <1>5 DEF Closer, Tested
    <2> HIDE DEF o
    <2> QED  BY <1>2, <1>5, <2>1 DEF Tolerant, o
  <1>6. CASE o \in Tested(n)
    <2>1. Closer(n, k + 1, m) =
             IF m.delay = 0 \/ m.delay > Took(o) + Tolerance
             THEN [delay |-> Took(o), out |-> o] ELSE m
      <3>1. n \in Supports[o] /\ history[realTag[o]] # None  BY <1>6 DEF Tested
      <3>2. Uint16(history[realTag[o]].delay + Tolerance) = Took(o) + Tolerance
        BY <1>3, <1>6 DEF Took
      <3> QED  BY <3>1, <3>2 DEF Closer, Took
    <2>2. Took(o) \in Nat /\ Took(o) <= Took(o) + Tolerance  BY <1>3, <1>4, <1>6
    <2> DEFINE c == Closer(n, k + 1, m)
               Rest == \A j \in 1..k : Outbounds[j] \in Tested(n) =>
                                          c.delay <= Took(Outbounds[j]) + Tolerance
               Left == cur \in Tested(n) /\ c.out # cur => Took(cur) > c.delay + Tolerance
    <2>3. ASSUME c.out \in Tested(n), c.delay = Took(c.out), c.delay <= Took(o) + Tolerance,
                 Rest, Left
          PROVE  Tolerant(c, n, k + 1)
      <3> HIDE DEF c
      <3>1. \A j \in 1..(k+1) : Outbounds[j] \in Tested(n) =>
                                   c.delay <= Took(Outbounds[j]) + Tolerance
        BY <1>2, <2>3
      <3> QED  BY <2>3, <3>1 DEF Tolerant
    <2>4. CASE m.out = None /\ m.delay = 0
      <3>0. None \notin Tested(n)  BY MemberAssumption DEF Tested
      <3>1. cur \notin Tested(n) /\ \A j \in 1..k : Outbounds[j] \notin Tested(n)
        BY <2>4, <3>0 DEF Tolerant
      <3>2. c.delay = Took(o) /\ c.out = o  BY <2>1, <2>4
      <3>3. Rest /\ Left  BY <3>1
      <3> HIDE DEF c, o, Rest, Left
      <3>4. c.out \in Tested(n) /\ c.delay = Took(c.out) /\ c.delay <= Took(o) + Tolerance
        BY <1>6, <2>2, <3>2
      <3>5. Tolerant(c, n, k + 1)  BY <2>3, <3>3, <3>4
      <3> QED  BY <3>5 DEF c
    <2>5. CASE ~(m.out = None /\ m.delay = 0)
      <3>1. /\ m.out \in Tested(n) /\ m.delay = Took(m.out)
            /\ \A j \in 1..k : Outbounds[j] \in Tested(n) =>
                                  m.delay <= Took(Outbounds[j]) + Tolerance
            /\ cur \in Tested(n) /\ m.out # cur => Took(cur) > m.delay + Tolerance
        BY <2>5 DEF Tolerant
      <3>2. m.delay \in Nat /\ m.delay # 0  BY <1>3, <3>1
      <3>3. CASE m.delay > Took(o) + Tolerance
        <4>1. c.delay = Took(o) /\ c.out = o  BY <2>1, <3>3
        <4>2. Rest
          <5>1. ASSUME NEW j \in 1..k, Outbounds[j] \in Tested(n)
                PROVE  Took(o) <= Took(Outbounds[j]) + Tolerance
            <6>1. Took(Outbounds[j]) + Tolerance \in Nat  BY <1>3, <5>1
            <6>2. m.delay <= Took(Outbounds[j]) + Tolerance  BY <3>1, <5>1
            <6> HIDE DEF o
            <6> QED  BY <1>4, <2>2, <3>2, <3>3, <6>1, <6>2
          <5> HIDE DEF c
          <5> QED  BY <4>1, <5>1
        <4>3. Left
          <5>1. ASSUME cur \in Tested(n)  PROVE Took(cur) > Took(o) + Tolerance
            <6>1. Took(cur) \in Nat  BY <1>3, <5>1
            <6>2. Took(cur) >= m.delay
              <7>1. CASE m.out = cur  BY <3>1, <6>1, <7>1
              <7>2. CASE m.out # cur
                <8>1. Took(cur) > m.delay + Tolerance  BY <3>1, <5>1, <7>2
                <8> QED  BY <1>4, <3>2, <6>1, <8>1
              <7> QED  BY <7>1, <7>2
            <6> HIDE DEF o, cur
            <6> QED  BY <1>4, <2>2, <3>2, <3>3, <6>1, <6>2
          <5> HIDE DEF c, cur
          <5> QED  BY <4>1, <5>1
        <4> HIDE DEF c, o, Rest, Left
        <4>4. c.out \in Tested(n) /\ c.delay = Took(c.out) /\ c.delay <= Took(o) + Tolerance
          BY <1>6, <2>2, <4>1
        <4>5. Tolerant(c, n, k + 1)  BY <2>3, <4>2, <4>3, <4>4
        <4> QED  BY <4>5 DEF c
      <3>4. CASE ~(m.delay > Took(o) + Tolerance)
        <4>1. c = m  BY <2>1, <3>2, <3>4
        <4>2. m.delay <= Took(o) + Tolerance  BY <1>4, <2>2, <3>2, <3>4
        <4>3. c.out \in Tested(n) /\ c.delay = Took(c.out)  BY <3>1, <4>1
        <4>4. Rest
          <5> HIDE DEF c
          <5> QED  BY <3>1, <4>1
        <4>5. Left
          <5> HIDE DEF c, cur
          <5> QED  BY <3>1, <4>1
        <4> HIDE DEF c, o, Rest, Left
        <4>6. c.delay <= Took(o) + Tolerance  BY <4>1, <4>2
        <4>7. Tolerant(c, n, k + 1)  BY <2>3, <4>3, <4>4, <4>5, <4>6
        <4> QED  BY <4>7 DEF c
      <3> QED  BY <3>3, <3>4
    <2> QED  BY <2>4, <2>5
  <1> QED  BY <1>5, <1>6

\* What SelectBest returns.
LEMMA BestIsTolerant ==
  ASSUME ChoiceInv, NEW n \in Net, Tested(n) # {}, InRange(n)
  PROVE  LET best == SelectBest(n)
             cur == selectedOutbound[n]
         IN  /\ best \in Tested(n) /\ \A o \in Tested(n) : Took(best) <= Took(o) + Tolerance
             /\ cur \in Tested(n) \ {best} => Took(cur) > Took(best) + Tolerance
  <1> DEFINE len == Len(Outbounds)
             cur == selectedOutbound[n]
  <1>1. len \in Nat /\ DOMAIN Outbounds = 1..len  BY MemberAssumption
  <1>2. PICK f : /\ f[1..0] = Current(n)
                 /\ \A k \in 1..len : f[1..k] = Closer(n, k, f[1..(k-1)])
                 /\ f[1..len].out = SelectBest(n)
    BY SelectFold
  <1> DEFINE T == {k \in 0..len : Tolerant(f[1..k], n, k)}
  <1>3. 0 \in T
    <2>0. cur \in Outbound \cup {None} /\ (cur # None => n \in Supports[cur])  BY DEF ChoiceInv
    <2>1. CASE cur = None \/ history[realTag[cur]] = None
      <3>1. Current(n) = [delay |-> 0, out |-> None]  BY <2>1 DEF Current
      <3>2. cur \notin Tested(n)  BY <2>1, MemberAssumption DEF Tested
      <3>3. Tolerant(Current(n), n, 0)  BY <3>1, <3>2 DEF Tolerant
      <3> QED  BY <1>1, <1>2, <3>3
    <2>2. CASE ~(cur = None \/ history[realTag[cur]] = None)
      <3>1. Current(n).delay = Took(cur) /\ Current(n).out = cur  BY <2>2 DEF Current, Took
      <3>2. cur \in Tested(n)  BY <2>0, <2>2 DEF Tested
      <3>3. Tolerant(Current(n), n, 0)  BY <3>1, <3>2 DEF Tolerant
      <3> QED  BY <1>1, <1>2, <3>3
    <2> QED  BY <2>1, <2>2
  <1>4. ASSUME NEW k \in 0..len-1, k \in T  PROVE k + 1 \in T
    <2>1. k + 1 \in 1..len /\ k + 1 \in 0..len /\ (k + 1) - 1 = k  BY <1>1
    <2>2. f[1..(k+1)] = Closer(n, k + 1, f[1..k])  BY <1>2, <2>1
    <2>3. Tolerant(f[1..(k+1)], n, k + 1)  BY <1>4, <2>2, TolerantStep
    <2> QED  BY <2>1, <2>3
  <1>5. Tolerant(f[1..len], n, len)
    <2>1. len \in T
      <3> HIDE DEF T, len
      <3>1. \A k \in 0..len : k \in T  BY <1>1, <1>3, <1>4, UpTo
      <3> QED  BY <1>1, <3>1
    <2> QED  BY <2>1
  <1>6. ASSUME NEW o \in Tested(n)  PROVE \E j \in 1..len : o = Outbounds[j]
    <2>1. o \in ToSet(Outbounds)  BY DEF Tested, Outbound
    <2> QED  BY <1>1, <2>1 DEF ToSet
  <1> DEFINE m == f[1..len]
  <1> HIDE DEF m, len
  <1>7. /\ m.out \in Tested(n) /\ m.delay = Took(m.out)
        /\ \A j \in 1..len : Outbounds[j] \in Tested(n) => m.delay <= Took(Outbounds[j]) + Tolerance
        /\ cur \in Tested(n) /\ m.out # cur => Took(cur) > m.delay + Tolerance
    BY <1>5, <1>6 DEF Tolerant, m
  <1>8. m.out = SelectBest(n)  BY <1>2 DEF m
  <1>9. \A o \in Tested(n) : m.delay <= Took(o) + Tolerance  BY <1>6, <1>7
  <1> QED  BY <1>7, <1>8, <1>9

\* A step that ends the choice for a network is performUpdateCheck's.
LEMMA ChoiceEnds ==
  ASSUME ChoiceInv, NEW n \in Net, [URLTestNext]_urlTestVars, phase = n, phase' # n
  PROVE  \E next : UpdateSelected(n, next)
  <1> USE DEF checkVars
  <1>1. phase \in {"tcp", "udp"}  BY DEF Net
  <1>2. ~(Touch \/ Close \/ Idle)  BY DEF Touch, Close, Idle
  <1>3. \A l \in Loop : ~LoopStep(l)
    BY DEF LoopStep, LoopStart, LoopTick, LoopClosed, LoopStop, CheckBusy
  <1>4. \A c, force : ~CheckBegin(c, force)  BY <1>1 DEF CheckBegin, ChoiceInv
  <1>5. ~BatchDone /\ ~CheckEnd /\ \A t, d : ~TestEnds(t, d)
    BY <1>1 DEF BatchDone, CheckEnd, TestEnds
  <1>6. /\ \A o : ~(DialFails(o) \/ ResultExpires(o)) /\ \A t : ~Switch(o, t)
        /\ ~PauseOrWake
    BY DEF DialFails, ResultExpires, Switch, PauseOrWake
  <1>7. ~UNCHANGED urlTestVars  BY DEF urlTestVars
  <1>8. UpdateSelected("tcp", "udp") \/ UpdateSelected("udp", "interrupt")
    BY <1>2, <1>3, <1>4, <1>5, <1>6, <1>7 DEF URLTestNext, CheckStep
  <1>9. ASSUME NEW m, NEW next, UpdateSelected(m, next)  PROVE m = n
    BY <1>9 DEF UpdateSelected
  <1> QED  BY <1>8, <1>9

\* A check leaves each network with an outbound that no tested one beats by
\* more than the tolerance, and replaces a selection only by one that does
\* (Select, performUpdateCheck), for any list of outbounds and any results
\* that the tolerance can be added to.
THEOREM ChoiceIsTolerant ==  URLTestSpec => TolerantChoice
  <1> DEFINE Step(n) ==
        LET tested == {o \in Outbound : n \in Supports[o] /\ history[realTag[o]] # None}
            d(o) == history[realTag[o]].delay
            old == selectedOutbound[n]
            new == selectedOutbound'[n]
        IN  /\ phase = n /\ phase' # n
            /\ tested # {} /\ \A o \in tested : d(o) \in 1..(TimeoutDelay - Tolerance)
            => /\ new \in tested /\ \A o \in tested : d(new) <= d(o) + Tolerance
               /\ old \in tested \ {new} => d(old) > d(new) + Tolerance
  <1>1. ASSUME ChoiceInv, [URLTestNext]_urlTestVars, NEW n \in Net  PROVE Step(n)
    <2> SUFFICES ASSUME phase = n, phase' # n, Tested(n) # {}, InRange(n)
                 PROVE  /\ selectedOutbound'[n] \in Tested(n)
                        /\ \A o \in Tested(n) : Took(selectedOutbound'[n]) <= Took(o) + Tolerance
                        /\ selectedOutbound[n] \in Tested(n) \ {selectedOutbound'[n]} =>
                              Took(selectedOutbound[n]) > Took(selectedOutbound'[n]) + Tolerance
      BY DEF Tested, Took, InRange
    <2> DEFINE best == SelectBest(n)
               old == selectedOutbound[n]
    <2>1. PICK next : UpdateSelected(n, next)  BY <1>1, ChoiceEnds
    <2>2. /\ best \in Tested(n) /\ \A o \in Tested(n) : Took(best) <= Took(o) + Tolerance
          /\ old \in Tested(n) \ {best} => Took(old) > Took(best) + Tolerance
      BY <1>1, BestIsTolerant
    <2>3. best # None  BY <2>2, MemberAssumption DEF Tested
    <2>4. Select(n) = best  BY <2>3 DEF Select
    <2>5. selectedOutbound'[n] = best
      <3>1. selectedOutbound' = [selectedOutbound EXCEPT ![n] =
               IF best # None /\ (old = None \/ best \notin {None, old}) THEN best ELSE old]
        BY <2>1, <2>4 DEF UpdateSelected
      <3>2. n \in DOMAIN selectedOutbound  BY <1>1 DEF ChoiceInv
      <3> HIDE DEF best
      <3> QED  BY <2>3, <3>1, <3>2
    <2> HIDE DEF best
    <2> QED  BY <2>2, <2>5
  <1>2. ChoiceInv /\ [URLTestNext]_urlTestVars => [\A n \in Net : Step(n)]_urlTestVars  BY <1>1
  <1> QED  BY <1>2, ChoiceAlways, PTL DEF URLTestSpec, TolerantChoice

-----------------------------------------------------------------------------
(* Balancer: the lists of the networks *)

\* A step of the fold in Filter.
Kept(n, k, res) ==
    IF n \in Supports[Outbounds[k]] THEN Append(res, Outbounds[k]) ELSE res

\* FoldLeft in Filter, outbound by outbound.
LEMMA FilterFold ==
  ASSUME NEW n \in Net
  PROVE  \E f : /\ f[1..0] = <<>>
                /\ \A k \in 1..Len(Outbounds) : f[1..k] = Kept(n, k, f[1..(k-1)])
                /\ Filter(n) = IF f[1..Len(Outbounds)] = <<>> THEN Outbounds
                               ELSE f[1..Len(Outbounds)]
  <1> DEFINE len == Len(Outbounds)
             R == Seq(Outbound)
             step == [x \in (1..len) \X R |-> Kept(n, x[1], x[2])]
             Solves(f) == f = [s \in SUBSET (1..len) |->
                               IF s = {} THEN <<>> ELSE Kept(n, Max(s), f[s \ {Max(s)}])]
  <1>1. len \in Nat /\ DOMAIN Outbounds = 1..len /\ \A k \in 1..len : Outbounds[k] \in Outbound
    BY MemberAssumption
  <1>2. <<>> \in R  OBVIOUS
  <1>3. \A k \in 1..len, r \in R : Kept(n, k, r) \in R  BY <1>1 DEF Kept
  <1>4. step \in [(1..len) \X R -> R]  BY <1>3
  <1>5. \A k \in 1..len, r \in R : step[<<k, r>>] = Kept(n, k, r)  OBVIOUS
  <1>6. PICK f : IsFold(f, len, R, <<>>, step)
    <2> HIDE DEF len, R, step
    <2> QED  BY <1>1, <1>2, <1>4, FoldExists
  <1>7. Solves(f)
    <2>1. ASSUME NEW s \in SUBSET (1..len), s # {}
          PROVE  Max(s) \in 1..len /\ f[s \ {Max(s)}] \in R
      <3> HIDE DEF R, len
      <3> QED  BY <1>1, <1>6, <2>1, MaxIndex DEF IsFold
    <2>2. ASSUME NEW s \in SUBSET (1..len), s # {}
          PROVE  f[s] = Kept(n, Max(s), f[s \ {Max(s)}])
      <3> HIDE DEF R, len, step
      <3> QED  BY <1>5, <1>6, <2>1, <2>2 DEF IsFold
    <2>3. f[{}] = <<>> /\ f = [s \in SUBSET (1..len) |-> f[s]]  BY <1>6 DEF IsFold
    <2> QED  BY <2>2, <2>3
  <1> DEFINE it == CHOOSE g : Solves(g)
  <1>8. Solves(it)  BY <1>7
  <1>9. Filter(n) = IF it[1..len] = <<>> THEN Outbounds ELSE it[1..len]
    BY <1>1 DEF Filter, FoldLeft, MapThenFoldSet, Kept
  <1> HIDE DEF it
  <1>10. it[1..0] = <<>>  BY <1>8
  <1>11. ASSUME NEW k \in 1..len  PROVE it[1..k] = Kept(n, k, it[1..(k-1)])
    <2> HIDE DEF len
    <2>1. /\ 1..k \in SUBSET (1..len) /\ 1..k # {} /\ Max(1..k) = k /\ (1..k) \ {k} = 1..(k-1)
      BY <1>1, Prefix
    <2> QED  BY <1>8, <2>1
  <1> QED  BY <1>9, <1>10, <1>11

\* s holds outbounds among the first k, none twice.
KeptFrom(s, k) ==
    /\ s \in Seq(Outbound) /\ Len(s) <= k
    /\ \A i \in 1..Len(s) : \E j \in 1..k : s[i] = Outbounds[j]
    /\ \A i, j \in 1..Len(s) : s[i] = s[j] => i = j

\* filterOutbounds returns outbounds of the group, none twice.
LEMMA FilterFacts ==
  ASSUME NEW n \in Net
  PROVE  /\ Outs[n] \in Seq(Outbound) /\ IsInjective(Outs[n]) /\ Outs[n] # <<>>
         /\ Len(Outs[n]) <= Len(Outbounds)
  <1> DEFINE len == Len(Outbounds)
  <1>1. /\ len \in Nat /\ DOMAIN Outbounds = 1..len /\ Outbounds \in Seq(Outbound)
        /\ Outbounds # <<>> /\ \A k \in 1..len : Outbounds[k] \in Outbound
    BY MemberAssumption
  <1>2. \A i, j \in 1..len : Outbounds[i] = Outbounds[j] => i = j
    BY <1>1, BalancerAssumption DEF IsInjective
  <1>3. PICK f : /\ f[1..0] = <<>>
                 /\ \A k \in 1..len : f[1..k] = Kept(n, k, f[1..(k-1)])
                 /\ Filter(n) = IF f[1..len] = <<>> THEN Outbounds ELSE f[1..len]
    BY FilterFold
  <1> DEFINE T == {k \in 0..len : KeptFrom(f[1..k], k)}
  <1>4. 0 \in T
    <2>1. KeptFrom(<<>>, 0)  BY DEF KeptFrom
    <2> QED  BY <1>1, <1>3, <2>1
  <1>5. ASSUME NEW k \in 0..len-1, k \in T  PROVE k + 1 \in T
    <2>1. k + 1 \in 1..len /\ k + 1 \in 0..len /\ (k + 1) - 1 = k  BY <1>1
    <2>2. f[1..(k+1)] = Kept(n, k + 1, f[1..k])  BY <1>3, <2>1
    <2>3. KeptFrom(f[1..k], k)  BY <1>5
    <2>4. 1..k \subseteq 1..(k+1)  OBVIOUS
    <2>5. CASE n \notin Supports[Outbounds[k+1]]
      <3>1. f[1..(k+1)] = f[1..k]  BY <2>2, <2>5 DEF Kept
      <3>2. Len(f[1..k]) <= k + 1
        <4>1. f[1..k] \in Seq(Outbound) /\ Len(f[1..k]) <= k  BY <2>3 DEF KeptFrom
        <4> QED  BY <4>1
      <3>3. KeptFrom(f[1..k], k + 1)  BY <2>3, <2>4, <3>2 DEF KeptFrom
      <3> QED  BY <2>1, <3>1, <3>3
    <2>6. CASE n \in Supports[Outbounds[k+1]]
      <3> DEFINE r == f[1..k]
                 e == Outbounds[k+1]
                 s == Append(r, e)
      <3>1. f[1..(k+1)] = s  BY <2>2, <2>6 DEF Kept
      <3>2. r \in Seq(Outbound) /\ e \in Outbound  BY <1>1, <2>1, <2>3 DEF KeptFrom
      <3> HIDE DEF r, e
      <3>3. /\ s \in Seq(Outbound) /\ Len(s) = Len(r) + 1 /\ Len(r) \in Nat
            /\ \A i \in 1..Len(r) : s[i] = r[i]
            /\ s[Len(r) + 1] = e
        BY <3>2
      <3> HIDE DEF s
      <3>4. \A i \in 1..Len(s) : i \in 1..Len(r) \/ i = Len(r) + 1  BY <3>3
      <3>5. \A i \in 1..Len(r) : \E j \in 1..k : r[i] = Outbounds[j]  BY <2>3 DEF KeptFrom, r
      <3>6. \A j \in 1..k : Outbounds[j] # e
        <4>1. \A j \in 1..k : j \in 1..len /\ j # k + 1  BY <1>1
        <4> QED  BY <1>2, <2>1, <4>1 DEF e
      <3>7. \A i \in 1..Len(r) : r[i] # e  BY <3>5, <3>6
      <3>8. ASSUME NEW i \in 1..Len(s)  PROVE \E j \in 1..(k+1) : s[i] = Outbounds[j]
        <4>1. CASE i \in 1..Len(r)
          <5>1. PICK j \in 1..k : r[i] = Outbounds[j]  BY <3>5, <4>1
          <5> QED  BY <3>3, <4>1, <5>1, <2>4
        <4>2. CASE i = Len(r) + 1
          <5>1. k + 1 \in 1..(k+1) /\ s[i] = Outbounds[k+1]  BY <3>3, <4>2 DEF e
          <5> QED  BY <5>1
        <4> QED  BY <3>4, <4>1, <4>2
      <3>9. \A i, j \in 1..Len(r) : r[i] = r[j] => i = j  BY <2>3 DEF KeptFrom, r
      <3>10. ASSUME NEW i \in 1..Len(s), NEW j \in 1..Len(s), s[i] = s[j]  PROVE i = j
        BY <3>3, <3>4, <3>7, <3>9, <3>10
      <3>11. Len(s) <= k + 1
        <4>1. Len(r) <= k  BY <2>3 DEF KeptFrom, r
        <4> QED  BY <3>3, <4>1
      <3>12. KeptFrom(s, k + 1)  BY <3>3, <3>8, <3>10, <3>11 DEF KeptFrom
      <3> QED  BY <2>1, <3>1, <3>12
    <2> QED  BY <2>5, <2>6
  <1>6. KeptFrom(f[1..len], len)
    <2>1. len \in T
      <3> HIDE DEF T, len
      <3>1. \A k \in 0..len : k \in T  BY <1>1, <1>4, <1>5, UpTo
      <3> QED  BY <1>1, <3>1
    <2> QED  BY <2>1
  <1>7. Outs[n] = Filter(n)  BY DEF Outs
  <1>8. CASE f[1..len] = <<>>
    <2>1. Outs[n] = Outbounds  BY <1>3, <1>7, <1>8
    <2> QED  BY <1>1, <2>1, BalancerAssumption
  <1>9. CASE f[1..len] # <<>>
    <2>1. Outs[n] = f[1..len]  BY <1>3, <1>7, <1>9
    <2>2. DOMAIN Outs[n] = 1..Len(Outs[n])  BY <1>6, <2>1 DEF KeptFrom
    <2> QED  BY <1>6, <1>9, <2>1, <2>2 DEF KeptFrom, IsInjective
  <1> QED  BY <1>8, <1>9

\* The list of a network as a function on the places from 1 to its length.
LEMMA OutsFacts ==
  ASSUME NEW n \in Net
  PROVE  /\ Outs[n] \in Seq(Outbound) /\ IsInjective(Outs[n])
         /\ Len(Outs[n]) \in Nat \ {0} /\ Len(Outs[n]) <= Len(Outbounds)
         /\ Outs[n] \in [1..Len(Outs[n]) -> Outbound]
  BY FilterFacts

-----------------------------------------------------------------------------
(* Balancer: sticky sessions *)

\* A session that was served is in the cache, and unless its index is beyond
\* the network's list it is the index of the outbound it got.
SessionInv ==
    /\ lruCache \in [Key -> Nat \cup {None}]
    /\ served \in [Key -> (Net \X Outbound) \cup {None}]
    /\ \A k \in Key :
          served[k] # None =>
             /\ lruCache[k] \in Nat
             /\ lruCache[k] \in 0..Len(Outs[served[k][1]])-1 =>
                   served[k][2] = Outs[served[k][1]][lruCache[k] + 1]

\* No session has been served.
LEMMA SessionInit ==
  ASSUME BalancerInit  PROVE SessionInv
  BY DEF BalancerInit, SessionInv

\* Steps that the sessions do not see.
LEMMA SessionOther ==
  ASSUME SessionInv, UNCHANGED <<lruCache, served>>  PROVE SessionInv'
  BY DEF SessionInv

\* A session is served: from the cache, or by an index that is then cached.
LEMMA SessionSticky ==
  ASSUME SessionInv,
         NEW k \in Key, NEW n \in Net, SelectSticky(k, n)
  PROVE  SessionInv'
  <1>1. PICK start \in 0..Len(Outs[n])-1, final \in 0..Len(Outs[n])-1 :
          /\ lruCache[k] \in 0..Len(Outs[n])-1 => start = lruCache[k]
          /\ MaxRetry <= 1 \/ Alive(Outs[n][start + 1], n) => final = start
          /\ lruCache' = IF MaxRetry > 1 /\ Alive(Outs[n][start + 1], n) /\ lruCache[k] # None
                         THEN lruCache ELSE [lruCache EXCEPT ![k] = final]
          /\ served' = [served EXCEPT ![k] = <<n, Outs[n][final + 1]>>]
    BY DEF SelectSticky
  <1>2. Len(Outs[n]) \in Nat /\ Outs[n][final + 1] \in Outbound  BY OutsFacts
  <1>3. None \notin Nat /\ <<n, Outs[n][final + 1]>> # None  BY <1>2, BalancerAssumption
  <1>4. served' \in [Key -> (Net \X Outbound) \cup {None}]  BY <1>1, <1>2 DEF SessionInv
  <1>5. served'[k] = <<n, Outs[n][final + 1]>>  BY <1>1 DEF SessionInv
  <1>6. lruCache' \in [Key -> Nat \cup {None}]  BY <1>1, <1>2 DEF SessionInv
  <1>7. ASSUME NEW j \in Key \ {k}
        PROVE  lruCache'[j] = lruCache[j] /\ served'[j] = served[j]
    BY <1>1 DEF SessionInv
  <1>8. /\ lruCache'[k] \in Nat
        /\ lruCache'[k] \in 0..Len(Outs[n])-1 => lruCache'[k] = final
    <2>1. CASE MaxRetry > 1 /\ Alive(Outs[n][start + 1], n) /\ lruCache[k] # None
      <3>1. lruCache' = lruCache /\ final = start  BY <1>1, <2>1
      <3>2. lruCache[k] \in Nat  BY <2>1 DEF SessionInv
      <3> QED  BY <1>1, <3>1, <3>2
    <2>2. CASE ~(MaxRetry > 1 /\ Alive(Outs[n][start + 1], n) /\ lruCache[k] # None)
      <3>1. lruCache'[k] = final  BY <1>1, <2>2 DEF SessionInv
      <3> QED  BY <1>2, <3>1
    <2> QED  BY <2>1, <2>2
  <1>9. \A j \in Key :
          served'[j] # None =>
             /\ lruCache'[j] \in Nat
             /\ lruCache'[j] \in 0..Len(Outs[served'[j][1]])-1 =>
                   served'[j][2] = Outs[served'[j][1]][lruCache'[j] + 1]
    <2> TAKE j \in Key
    <2>1. CASE j = k  BY <2>1, <1>5, <1>8
    <2>2. CASE j # k  BY <2>2, <1>7 DEF SessionInv
    <2> QED  BY <2>1, <2>2
  <1> QED  BY <1>4, <1>6, <1>9 DEF SessionInv

\* A session leaves the cache.
LEMMA SessionExpire ==
  ASSUME SessionInv, NEW k \in Key, SessionExpires(k)  PROVE SessionInv'
  BY BalancerAssumption DEF SessionExpires, SessionInv

\* Every step keeps SessionInv.
LEMMA SessionNext ==
  ASSUME SessionInv, [BalancerNext]_balancerVars  PROVE SessionInv'
  <1>1. ASSUME NEW rep, UpdateLowest(rep) \/ UpdateRobin(rep) \/ UpdateHash(rep)
        PROVE  SessionInv'
    BY <1>1, SessionOther DEF UpdateLowest, UpdateRobin, UpdateHash, Update
  <1>2. ASSUME NEW n, SelectRobin(n)  PROVE SessionInv'
    BY <1>2, SessionOther DEF SelectRobin
  <1>3. ASSUME NEW k \in Key, NEW n \in Net, SelectSticky(k, n)  PROVE SessionInv'
    BY <1>3, SessionSticky
  <1>4. ASSUME NEW k \in Key, SessionExpires(k)  PROVE SessionInv'  BY <1>4, SessionExpire
  <1>5. CASE UNCHANGED balancerVars  BY <1>5, SessionOther DEF balancerVars
  <1> QED  BY <1>1, <1>2, <1>3, <1>4, <1>5 DEF BalancerNext

\* One step of a session, as SessionsStick states it.
SessionStep ==
    \A k \in Key :
          /\ MaxRetry > 1 /\ strategy = "sticky-sessions"
          /\ served[k] # None /\ served'[k] # None /\ served'[k] # served[k]
          => \/ served'[k][1] # served[k][1]
             \/ ~Alive(served[k][2], served[k][1])
             \/ lruCache[k] >= Len(Outs[served[k][1]])

\* No step moves a session away from an outbound that is alive.
LEMMA SessionMoves ==
  ASSUME SessionInv, [BalancerNext]_balancerVars  PROVE SessionStep
  <1> SUFFICES ASSUME NEW k \in Key, MaxRetry > 1,
                      served[k] # None, served'[k] # None, served'[k] # served[k],
                      served'[k][1] = served[k][1],
                      Alive(served[k][2], served[k][1])
               PROVE  lruCache[k] >= Len(Outs[served[k][1]])
    BY DEF SessionStep
  <1>1. served' # served  OBVIOUS
  <1>2. PICK j \in Key, n \in Net : SelectSticky(j, n) \/ SessionExpires(j)
    BY <1>1 DEF BalancerNext, UpdateLowest, UpdateRobin, UpdateHash, Update, SelectRobin,
                balancerVars, Net
  <1>3. ~SessionExpires(j)  BY DEF SessionExpires, SessionInv
  <1>4. SelectSticky(j, n)  BY <1>2, <1>3
  <1>5. PICK start \in 0..Len(Outs[n])-1, final \in 0..Len(Outs[n])-1 :
          /\ lruCache[j] \in 0..Len(Outs[n])-1 => start = lruCache[j]
          /\ MaxRetry <= 1 \/ Alive(Outs[n][start + 1], n) => final = start
          /\ served' = [served EXCEPT ![j] = <<n, Outs[n][final + 1]>>]
    BY <1>4 DEF SelectSticky
  <1>6. j = k  BY <1>5 DEF SessionInv
  <1>7. served'[k] = <<n, Outs[n][final + 1]>>  BY <1>5, <1>6 DEF SessionInv
  <1>8. served[k][1] = n /\ served[k] = <<served[k][1], served[k][2]>>  BY <1>7 DEF SessionInv
  <1>9. Len(Outs[n]) \in Nat  BY OutsFacts
  <1>10. SUFFICES ASSUME lruCache[k] < Len(Outs[n])  PROVE FALSE
    BY <1>8, <1>9 DEF SessionInv
  <1>11. lruCache[k] \in 0..Len(Outs[n])-1  BY <1>9, <1>10 DEF SessionInv
  <1>12. served[k][2] = Outs[n][lruCache[k] + 1] /\ start = lruCache[k]
    BY <1>5, <1>6, <1>8, <1>11 DEF SessionInv
  <1>13. final = start  BY <1>5, <1>8, <1>12
  <1> QED  BY <1>7, <1>8, <1>12, <1>13

\* A sticky session stays on its outbound while that is alive and the cache
\* keeps it (StickySession.Select), for any lists, sessions and reports.
THEOREM SessionsStay ==  BalancerSpec => SessionsStick
  <1>1. BalancerInit => SessionInv  BY SessionInit
  <1>2. SessionInv /\ [BalancerNext]_balancerVars => SessionInv'  BY SessionNext
  <1>3. SessionInv /\ [BalancerNext]_balancerVars => SessionStep  BY SessionMoves
  <1> QED  BY <1>1, <1>2, <1>3, PTL DEF BalancerSpec, SessionsStick, SessionStep

-----------------------------------------------------------------------------
(* Balancer: ranks, sorting *)

\* L is a strict linear order of the positions 1..n.
Linear(L, n) ==
    /\ L \subseteq (1..n) \X (1..n)
    /\ \A i \in 1..n : <<i, i>> \notin L
    /\ \A i, j \in 1..n : i # j => <<i, j>> \in L \/ <<j, i>> \in L
    /\ \A i, j, k \in 1..n : <<i, j>> \in L /\ <<j, k>> \in L => <<i, k>> \in L

\* The positions before i: their number is the rank of i.
Below(L, n, i) == {j \in 1..n : <<j, i>> \in L}

\* A later position has a higher rank.
LEMMA RankGrows ==
  ASSUME NEW n \in Nat, NEW L, Linear(L, n), NEW i \in 1..n, NEW j \in 1..n, <<i, j>> \in L
  PROVE  Cardinality(Below(L, n, i)) < Cardinality(Below(L, n, j))
  <1> DEFINE I == Below(L, n, i)
             J == Below(L, n, j)
  <1>1. I \in SUBSET J /\ i \in J /\ i \notin I  BY DEF Linear, Below
  <1>2. IsFiniteSet(1..n)  BY FS_Interval
  <1>3. J \in SUBSET (1..n)  BY DEF Below
  <1> HIDE DEF I, J
  <1>4. IsFiniteSet(J)  BY <1>2, <1>3, FS_Subset
  <1>5. /\ Cardinality(I) <= Cardinality(J) /\ IsFiniteSet(I)
        /\ Cardinality(J) = Cardinality(I) => J = I
    BY <1>1, <1>4, FS_Subset
  <1>6. Cardinality(I) \in Nat /\ Cardinality(J) \in Nat  BY <1>4, <1>5, FS_CardinalityType
  <1> QED  BY <1>1, <1>5, <1>6 DEF I, J

\* Ranks count from 0.
LEMMA RankBound ==
  ASSUME NEW n \in Nat, NEW L, Linear(L, n), NEW i \in 1..n
  PROVE  Cardinality(Below(L, n, i)) \in 0..n-1
  <1> DEFINE I == Below(L, n, i)
  <1>1. I \in SUBSET ((1..n) \ {i})  BY DEF Linear, Below
  <1>2. IsFiniteSet(1..n) /\ Cardinality(1..n) = n  BY FS_Interval
  <1>3. IsFiniteSet((1..n) \ {i}) /\ Cardinality((1..n) \ {i}) = n - 1
    BY <1>2, FS_RemoveElement
  <1> DEFINE J == (1..n) \ {i}
  <1> HIDE DEF I, J
  <1>4. IsFiniteSet(I) /\ Cardinality(I) <= Cardinality(J)  BY <1>1, <1>3, FS_Subset DEF J
  <1>5. Cardinality(I) \in Nat  BY <1>4, FS_CardinalityType
  <1> QED  BY <1>3, <1>4, <1>5 DEF I, J

\* Every rank is taken, by the pigeonhole principle.
LEMMA RankTaken ==
  ASSUME NEW n \in Nat, NEW L, Linear(L, n), NEW r \in 0..n-1
  PROVE  \E i \in 1..n : Cardinality(Below(L, n, i)) = r
  <1> DEFINE rank == [i \in 1..n |-> Cardinality(Below(L, n, i))]
  <1>1. rank \in [1..n -> 0..n-1]  BY RankBound
  <1>2. ASSUME NEW i \in 1..n, NEW j \in 1..n, rank[i] = rank[j]  PROVE i = j
    <2>1. SUFFICES ASSUME i # j  PROVE FALSE  OBVIOUS
    <2>2. <<i, j>> \in L \/ <<j, i>> \in L  BY <2>1 DEF Linear
    <2>3. rank[i] \in Nat /\ rank[j] \in Nat  BY <1>1
    <2>4. rank[i] < rank[j] \/ rank[j] < rank[i]  BY <2>2, RankGrows
    <2> QED  BY <1>2, <2>3, <2>4
  <1>3. rank \in Injection(1..n, 0..n-1)
    <2> HIDE DEF rank
    <2> QED  BY <1>1, <1>2 DEF Injection, IsInjective
  <1>4. IsFiniteSet(0..n-1) /\ Cardinality(0..n-1) = n /\ Cardinality(1..n) = n
    BY FS_Interval
  <1>5. rank \in Surjection(1..n, 0..n-1)
    <2> HIDE DEF rank
    <2> QED  BY <1>3, <1>4, FS_Injection
  <1>6. PICK i \in 1..n : rank[i] = r
    <2> HIDE DEF rank
    <2> QED  BY <1>5 DEF Surjection
  <1> QED  BY <1>6

-----------------------------------------------------------------------------
\* A modified delay is a natural number.
LEMMA DelayTyped ==
  ASSUME NEW rep \in [Outbound -> Report], NEW o \in Outbound
  PROVE  ModifiedDelay(rep[o]) \in Nat
  <1>1. rep[o].delay \in 0..TimeoutDelay  BY BalancerAssumption
  <1>2. PICK v \in 0..TimeoutDelay : v = rep[o].delay  BY <1>1
  <1> DEFINE d == IF v = 0 THEN TimeoutDelay ELSE v
  <1>3. d \in Nat
    <2>1. v \in Nat  BY TimeoutTyped
    <2> QED  BY <2>1, TimeoutTyped
  <1>4. d + 20000 \in Nat  BY <1>3
  <1>5. ModifiedDelay(rep[o]) = IF rep[o].cached /\ d < 20000 THEN d + 20000 ELSE d
    BY <1>2 DEF ModifiedDelay
  <1> HIDE DEF d
  <1> QED  BY <1>3, <1>4, <1>5

\* An untested outbound counts as timed out.
LEMMA CountedDelay ==
  ASSUME NEW v \in 0..TimeoutDelay
  PROVE  LET d == IF v = 0 THEN TimeoutDelay ELSE v
         IN  v \in Nat /\ d \in Nat /\ v <= d /\ d <= TimeoutDelay
  <1>1. TimeoutDelay \in Nat  BY TimeoutTyped
  <1>2. v \in Nat /\ v <= TimeoutDelay  BY <1>1
  <1>3. CASE v = 0  BY <1>1, <1>3
  <1>4. CASE v # 0  BY <1>2, <1>4
  <1> QED  BY <1>3, <1>4

\* A modified delay fits into 16 bits and is not less than the reported one.
LEMMA DelayBounds ==
  ASSUME NEW rep \in [Outbound -> Report], NEW o \in Outbound
  PROVE  /\ ModifiedDelay(rep[o]) \in 0..TimeoutDelay
         /\ rep[o].delay \in 0..ModifiedDelay(rep[o])
  <1>1. rep[o].delay \in 0..TimeoutDelay  BY BalancerAssumption
  <1>2. PICK v \in 0..TimeoutDelay : v = rep[o].delay  BY <1>1
  <1> DEFINE d == IF v = 0 THEN TimeoutDelay ELSE v
  <1>3. TimeoutDelay \in Nat /\ 65535 <= TimeoutDelay  BY TimeoutTyped, TimeoutValue
  <1>4. v \in Nat /\ d \in Nat /\ v <= d /\ d <= TimeoutDelay  BY CountedDelay
  <1>5. ModifiedDelay(rep[o]) = IF rep[o].cached /\ d < 20000 THEN d + 20000 ELSE d
    BY <1>2 DEF ModifiedDelay
  <1> HIDE DEF d
  <1>6. ModifiedDelay(rep[o]) = d \/ (ModifiedDelay(rep[o]) = d + 20000 /\ d < 20000)  BY <1>5
  <1>7. PICK m \in Nat : m = ModifiedDelay(rep[o]) /\ v <= m /\ m <= TimeoutDelay
    <2>1. CASE ModifiedDelay(rep[o]) = d  BY <2>1, <1>4
    <2>2. CASE ModifiedDelay(rep[o]) = d + 20000 /\ d < 20000
      <3>1. d + 20000 \in Nat /\ v <= d + 20000  BY <1>4
      <3>2. d + 20000 <= 65535  BY <1>4, <2>2
      <3>3. d + 20000 <= TimeoutDelay  BY <1>3, <3>1, <3>2
      <3> QED  BY <2>2, <3>1, <3>3
    <2> QED  BY <1>6, <2>1, <2>2
  <1>8. m \in 0..TimeoutDelay
    <2>1. \A t, x \in Nat : x <= t => x \in 0..t  OBVIOUS
    <2>2. TimeoutDelay \in Nat  BY TimeoutTyped
    <2> QED  BY <1>7, <2>1, <2>2
  <1>9. v \in 0..m  BY <1>4, <1>7
  <1> QED  BY <1>2, <1>7, <1>8, <1>9

\* Before, as a relation of positions.
Faster(outs, rep) ==
    {r \in (1..Len(outs)) \X (1..Len(outs)) :
        \/ ModifiedDelay(rep[outs[r[1]]]) < ModifiedDelay(rep[outs[r[2]]])
        \/ (ModifiedDelay(rep[outs[r[1]]]) = ModifiedDelay(rep[outs[r[2]]]) /\ r[1] < r[2])}

\* Faster, pair by pair.
LEMMA FasterPairs ==
  ASSUME NEW outs, NEW rep, NEW i \in 1..Len(outs), NEW j \in 1..Len(outs)
  PROVE  <<i, j>> \in Faster(outs, rep) <=>
            \/ ModifiedDelay(rep[outs[i]]) < ModifiedDelay(rep[outs[j]])
            \/ (ModifiedDelay(rep[outs[i]]) = ModifiedDelay(rep[outs[j]]) /\ i < j)
  BY DEF Faster

\* The stable sort orders the positions linearly.
LEMMA FasterLinear ==
  ASSUME NEW rep \in [Outbound -> Report], NEW outs \in Seq(Outbound)
  PROVE  Linear(Faster(outs, rep), Len(outs))
  <1> DEFINE n == Len(outs)
             d == [i \in 1..n |-> ModifiedDelay(rep[outs[i]])]
             L == Faster(outs, rep)
  <1>1. d \in [1..n -> Nat]
    <2>1. \A i \in 1..n : ModifiedDelay(rep[outs[i]]) \in Nat  BY DelayTyped
    <2> QED  BY <2>1
  <1>2. ASSUME NEW i \in 1..n, NEW j \in 1..n
        PROVE  <<i, j>> \in L <=> (d[i] < d[j] \/ (d[i] = d[j] /\ i < j))
    <2>1. d[i] = ModifiedDelay(rep[outs[i]]) /\ d[j] = ModifiedDelay(rep[outs[j]])  OBVIOUS
    <2> HIDE DEF d
    <2> QED  BY <2>1, FasterPairs
  <1>3. L \subseteq (1..n) \X (1..n)  BY DEF Faster
  <1>4. n \in Nat  OBVIOUS
  <1> HIDE DEF n, d, L
  <1>5. \A i \in 1..n : <<i, i>> \notin L  BY <1>1, <1>2, <1>4
  <1>6. \A i, j \in 1..n : i # j => <<i, j>> \in L \/ <<j, i>> \in L  BY <1>1, <1>2, <1>4
  <1>7. ASSUME NEW i \in 1..n, NEW j \in 1..n, NEW k \in 1..n, <<i, j>> \in L, <<j, k>> \in L
        PROVE  <<i, k>> \in L
    <2>1. d[i] \in Nat /\ d[j] \in Nat /\ d[k] \in Nat  BY <1>1
    <2>2. d[i] < d[j] \/ (d[i] = d[j] /\ i < j)  BY <1>2, <1>7
    <2>3. d[j] < d[k] \/ (d[j] = d[k] /\ j < k)  BY <1>2, <1>7
    <2>4. d[i] < d[k] \/ (d[i] = d[k] /\ i < k)  BY <1>4, <2>1, <2>2, <2>3
    <2> QED  BY <1>2, <2>4
  <1>8. Linear(L, n)  BY <1>3, <1>5, <1>6, <1>7 DEF Linear
  <1> QED  BY <1>8 DEF L, n

\* What sorting does to a list without duplicates.
IsSort(s, outs, rep) ==
    /\ s \in [1..Len(outs) -> Outbound]
    /\ \A p, q \in 1..Len(outs) :
          p < q => s[p] # s[q] /\ ModifiedDelay(rep[s[p]]) <= ModifiedDelay(rep[s[q]])
    /\ \A p \in 1..Len(outs) : \E i \in 1..Len(outs) : s[p] = outs[i]
    /\ \A i \in 1..Len(outs) : \E p \in 1..Len(outs) : s[p] = outs[i]

\* A sorted list has outbounds, none twice.
LEMMA SortTyped ==
  ASSUME NEW s, NEW outs, NEW rep, IsSort(s, outs, rep)
  PROVE  /\ s \in [1..Len(outs) -> Outbound]
         /\ \A p, q \in 1..Len(outs) : p < q => s[p] # s[q]
  BY DEF IsSort

\* SortByDelay sorts: the list is the original one in the order of delays.
LEMMA SortSorts ==
  ASSUME NEW rep \in [Outbound -> Report],
         NEW outs \in Seq(Outbound), IsInjective(outs)
  PROVE  IsSort(SortByDelay(outs, rep), outs, rep)
  <1> DEFINE n == Len(outs)
             L == Faster(outs, rep)
             rank(i) == Cardinality(Below(L, n, i))
             at == [p \in 1..n |-> CHOOSE i \in 1..n : rank(i) = p - 1]
             s == SortByDelay(outs, rep)
             d(i) == ModifiedDelay(rep[outs[i]])
  <1>1. n \in Nat /\ DOMAIN outs = 1..n  OBVIOUS
  <1>2. Linear(L, n)  BY FasterLinear
  <1>3. ASSUME NEW i \in 1..n
        PROVE  rank(i) = Cardinality({j \in DOMAIN outs : d(j) < d(i) \/ (d(j) = d(i) /\ j < i)})
    <2>1. Below(L, n, i) = {j \in DOMAIN outs : d(j) < d(i) \/ (d(j) = d(i) /\ j < i)}
      BY <1>1, FasterPairs DEF Below
    <2> QED  BY <2>1
  <1>4. s = [p \in 1..n |-> outs[at[p]]]
    <2>1. s = [p \in 1..n |->
                 outs[CHOOSE i \in 1..n :
                        Cardinality({j \in DOMAIN outs :
                                        d(j) < d(i) \/ (d(j) = d(i) /\ j < i)}) = p - 1]]
      BY <1>1 DEF SortByDelay
    <2>2. ASSUME NEW p \in 1..n
          PROVE  at[p] = CHOOSE i \in 1..n :
                   Cardinality({j \in DOMAIN outs : d(j) < d(i) \/ (d(j) = d(i) /\ j < i)}) = p - 1
      BY <1>3
    <2> QED  BY <2>1, <2>2
  <1> HIDE DEF s, d, rank
  <1>5. ASSUME NEW p \in 1..n  PROVE at[p] \in 1..n /\ rank(at[p]) = p - 1
    <2>1. p - 1 \in 0..n-1  BY <1>1
    <2>2. \E i \in 1..n : rank(i) = p - 1  BY <1>1, <1>2, <2>1, RankTaken DEF rank
    <2> QED  BY <2>2
  <1>6. ASSUME NEW i \in 1..n  PROVE \E p \in 1..n : at[p] = i
    <2>1. rank(i) \in 0..n-1  BY <1>1, <1>2, RankBound DEF rank
    <2>2. rank(i) + 1 \in 1..n /\ (rank(i) + 1) - 1 = rank(i)  BY <1>1, <2>1
    <2>3. rank(at[rank(i) + 1]) = rank(i) /\ at[rank(i) + 1] \in 1..n  BY <1>5, <2>2
    <2>4. ASSUME NEW j \in 1..n, j # i, rank(j) = rank(i)  PROVE FALSE
      <3>1. <<i, j>> \in L \/ <<j, i>> \in L  BY <1>2, <2>4 DEF Linear
      <3>2. rank(i) < rank(j) \/ rank(j) < rank(i)  BY <1>1, <1>2, <3>1, RankGrows DEF rank
      <3> QED  BY <2>1, <2>4, <3>2
    <2> QED  BY <2>2, <2>3, <2>4
  <1>7. ASSUME NEW p \in 1..n, NEW q \in 1..n, p < q
        PROVE  s[p] # s[q] /\ ModifiedDelay(rep[s[p]]) <= ModifiedDelay(rep[s[q]])
    <2>1. /\ at[p] \in 1..n /\ rank(at[p]) = p - 1
          /\ at[q] \in 1..n /\ rank(at[q]) = q - 1
      BY <1>5
    <2>2. rank(at[p]) < rank(at[q])  BY <1>1, <1>7, <2>1
    <2>3. at[p] # at[q]  BY <1>1, <1>7, <2>1
    <2>4. s[p] = outs[at[p]] /\ s[q] = outs[at[q]]  BY <1>4
    <2>5. s[p] # s[q]  BY <1>1, <2>1, <2>3, <2>4 DEF IsInjective
    <2>6. <<at[q], at[p]>> \notin L
      <3>1. SUFFICES ASSUME <<at[q], at[p]>> \in L  PROVE FALSE  OBVIOUS
      <3>2. rank(at[q]) < rank(at[p])  BY <1>1, <1>2, <2>1, <3>1, RankGrows DEF rank
      <3> QED  BY <1>1, <1>7, <2>1, <3>2
    <2>7. ~(d(at[q]) < d(at[p]))  BY <2>1, <2>6, FasterPairs DEF d
    <2>8. outs[at[p]] \in Outbound /\ outs[at[q]] \in Outbound  BY <1>1, <2>1
    <2>9. d(at[p]) \in Nat /\ d(at[q]) \in Nat  BY <2>8, DelayTyped DEF d
    <2> QED  BY <2>4, <2>5, <2>7, <2>9 DEF d
  <1>8. s \in [1..n -> Outbound]
    <2>1. \A p \in 1..n : outs[at[p]] \in Outbound  BY <1>1, <1>5
    <2> QED  BY <1>4, <2>1
  <1>9. \A p \in 1..n : \E i \in 1..n : s[p] = outs[i]  BY <1>4, <1>5
  <1>10. \A i \in 1..n : \E p \in 1..n : s[p] = outs[i]
    <2> TAKE i \in 1..n
    <2>1. PICK p \in 1..n : at[p] = i  BY <1>6
    <2> QED  BY <1>4, <2>1
  <1> QED  BY <1>7, <1>8, <1>9, <1>10 DEF IsSort, s

\* The place in the rotation that turn j of l turns took, the last one at i,
\* of m + 1 places counted from 0.
Place(m, i, l, j) ==
    LET back == i - (l - j) IN IF back >= 0 THEN back ELSE back + m + 1

\* s in rotation up to place m: t are the last turns, the last one at i.
Rotation(S, s, len, m, i, t) ==
    /\ len \in Nat /\ m \in 0..len-1 /\ i \in Nat
    /\ s \in [1..len -> S]
    /\ \A p, q \in 1..len : p < q => s[p] # s[q]
    /\ t \in Seq(S) /\ Len(t) <= m + 1
    /\ Len(t) > 0 => i <= m
    /\ \A j \in 1..Len(t) : t[j] = s[Place(m, i, Len(t), j) + 1]

\* The index of the next turn wraps around.
LEMMA NextPlace ==
  ASSUME NEW m \in Nat, NEW i \in Nat
  PROVE  /\ (i + 1) % (m + 1) \in 0..m
         /\ i < m => (i + 1) % (m + 1) = i + 1
         /\ i = m => (i + 1) % (m + 1) = 0
  OBVIOUS

\* After a turn the earlier ones are one further back, at the same places.
LEMMA PlaceStays ==
  ASSUME NEW m \in Nat, NEW i \in 0..m, NEW id \in 0..m,
         i < m => id = i + 1, i = m => id = 0,
         NEW l \in Nat, NEW k \in 1..l, NEW l2 \in Nat, NEW j \in 1..l2,
         l2 - j = l - k + 1, l2 <= m + 1
  PROVE  Place(m, i, l, k) = Place(m, id, l2, j)
  <1>1. CASE i < m  BY <1>1 DEF Place
  <1>2. CASE i = m  BY <1>2 DEF Place
  <1> QED  BY <1>1, <1>2

\* Turns that a rotation remembers are turns of different outbounds.
LEMMA RotationFair ==
  ASSUME NEW S, NEW s, NEW len, NEW m, NEW i, NEW t, Rotation(S, s, len, m, i, t),
         NEW j \in 1..Len(t), NEW k \in 1..Len(t), t[j] = t[k]
  PROVE  j = k
  <1> DEFINE l == Len(t)
  <1>1. /\ len \in Nat /\ m \in 0..len-1 /\ i \in 0..m /\ l \in Nat /\ l <= m + 1
        /\ \A p, q \in 1..len : p < q => s[p] # s[q]
    BY DEF Rotation
  <1>2. t[j] = s[Place(m, i, l, j) + 1] /\ t[k] = s[Place(m, i, l, k) + 1]  BY DEF Rotation
  <1> HIDE DEF l
  <1>3. Place(m, i, l, j) + 1 \in 1..len /\ Place(m, i, l, k) + 1 \in 1..len  BY <1>1 DEF Place, l
  <1>4. j # k => Place(m, i, l, j) # Place(m, i, l, k)  BY <1>1 DEF Place, l
  <1>5. ASSUME NEW p \in 1..len, NEW q \in 1..len, p # q  PROVE s[p] # s[q]
    <2>1. p < q \/ q < p  BY <1>1, <1>5
    <2> QED  BY <1>1, <2>1
  <1>6. Place(m, i, l, j) + 1 = Place(m, i, l, k) + 1  BY <1>2, <1>3, <1>5
  <1>7. Place(m, i, l, j) \in Int /\ Place(m, i, l, k) \in Int  BY <1>1 DEF Place, l
  <1> QED  BY <1>4, <1>6, <1>7

\* What Append does to a sequence.
LEMMA Appended ==
  ASSUME NEW S, NEW r \in Seq(S), NEW e \in S
  PROVE  LET u == Append(r, e)
         IN  /\ u \in Seq(S) /\ Len(u) = Len(r) + 1 /\ u[Len(u)] = e
             /\ \A j \in 1..Len(r) : u[j] = r[j]
  OBVIOUS

\* A turn at id, after off old turns have been forgotten.
LEMMA RotationNext ==
  ASSUME NEW S, NEW s, NEW len, NEW m, NEW i, NEW t, Rotation(S, s, len, m, i, t),
         NEW id \in 0..m, i < m => id = i + 1, i = m => id = 0,
         NEW off \in 0..1, NEW r \in Seq(S), Len(r) = Len(t) - off, Len(r) <= m,
         \A j \in 1..Len(r) : r[j] = t[j + off]
  PROVE  Rotation(S, s, len, m, id, Append(r, s[id + 1]))
  <1> DEFINE l == Len(t)
             e == s[id + 1]
             u == Append(r, e)
  <1>1. /\ len \in Nat /\ m \in 0..len-1 /\ m \in Nat
        /\ s \in [1..len -> S]
        /\ l \in Nat /\ l > 0 => i \in 0..m
        /\ \A p, q \in 1..len : p < q => s[p] # s[q]
    BY DEF Rotation
  <1>2. e \in S  BY <1>1
  <1>3. l \in Nat /\ Len(r) \in Nat  BY DEF Rotation
  <1> HIDE DEF e
  <1>4. /\ u \in Seq(S) /\ Len(u) = Len(r) + 1 /\ u[Len(u)] = e
        /\ \A j \in 1..Len(r) : u[j] = r[j]
    BY <1>2, Appended
  <1> HIDE DEF u, l
  <1>5. Len(u) \in Nat /\ Len(u) <= m + 1  BY <1>1, <1>3, <1>4
  <1>6. ASSUME NEW j \in 1..Len(u)  PROVE u[j] = s[Place(m, id, Len(u), j) + 1]
    <2>1. CASE j = Len(u)
      <3>1. Place(m, id, Len(u), j) = id  BY <1>1, <1>5, <2>1 DEF Place
      <3> QED  BY <1>4, <2>1, <3>1 DEF e
    <2>2. CASE j # Len(u)
      <3>1. j \in 1..Len(r)  BY <1>3, <1>4, <2>2
      <3>2. j + off \in 1..l /\ u[j] = t[j + off]  BY <1>3, <1>4, <3>1 DEF l
      <3>3. t[j + off] = s[Place(m, i, l, j + off) + 1]  BY <3>2 DEF Rotation, l
      <3>4. i \in 0..m  BY <1>1, <1>3, <3>2
      <3>5. Len(u) - j = l - (j + off) + 1  BY <1>3, <1>4, <3>1 DEF l
      <3>6. Place(m, i, l, j + off) = Place(m, id, Len(u), j)
        <4>1. PICK k \in 1..l : k = j + off  BY <3>2
        <4>2. PICK v \in Nat : v = Len(u)  BY <1>5
        <4>3. v - j = l - k + 1 /\ v <= m + 1 /\ j \in 1..v  BY <1>5, <3>5, <4>1, <4>2
        <4>4. Place(m, i, l, k) = Place(m, id, v, j)
          <5>1. m \in Nat /\ l \in Nat  BY <1>1, <1>3
          <5>2. v - j = l - k + 1 /\ v <= m + 1 /\ j \in 1..v  BY <4>3
          <5> QED  BY ZenonT(40), <3>4, <5>1, <5>2, PlaceStays
        <4> QED  BY <4>1, <4>2, <4>4
      <3> QED  BY <3>2, <3>3, <3>6
    <2> QED  BY <2>1, <2>2
  <1>7. id \in Nat /\ id <= m  BY <1>1
  <1>8. Rotation(S, s, len, m, id, u)  BY <1>1, <1>4, <1>5, <1>6, <1>7 DEF Rotation
  <1> QED  BY <1>8 DEF u, e

\* What SelectRobin does to the rotation.
LEMMA RotationTurn ==
  ASSUME NEW S, NEW s, NEW len, NEW m, NEW i, NEW t, Rotation(S, s, len, m, i, t)
  PROVE  LET id == (i + 1) % (m + 1)
         IN  Rotation(S, s, len, m, id,
                      Append(IF Len(t) = m + 1 THEN Tail(t) ELSE t, s[id + 1]))
  <1> DEFINE id == (i + 1) % (m + 1)
  <1>1. m \in Nat /\ i \in Nat /\ t \in Seq(S) /\ Len(t) \in Nat /\ Len(t) <= m + 1
    BY DEF Rotation
  <1>2. id \in 0..m /\ (i < m => id = i + 1) /\ (i = m => id = 0)  BY <1>1, NextPlace
  <1> HIDE DEF id
  <1>3. CASE Len(t) = m + 1
    <2>1. t # <<>>  BY <1>1, <1>3
    <2> DEFINE r == Tail(t)
    <2>2. /\ r \in Seq(S) /\ Len(r) = Len(t) - 1 /\ Len(r) <= m
          /\ \A j \in 1..Len(r) : r[j] = t[j + 1]
      BY <1>1, <1>3, <2>1
    <2> HIDE DEF r
    <2>3. 1 \in 0..1  OBVIOUS
    <2>4. Rotation(S, s, len, m, id, Append(r, s[id + 1]))
      BY <1>2, <2>2, <2>3, RotationNext
    <2> QED  BY <1>3, <2>4 DEF r, id
  <1>4. CASE Len(t) # m + 1
    <2>0. PICK off \in 0..1 : off = 0  OBVIOUS
    <2>1. Len(t) = Len(t) - off /\ Len(t) <= m  BY <1>1, <1>4, <2>0
    <2>2. \A j \in 1..Len(t) : t[j] = t[j + off]  BY <1>1, <2>0
    <2>3. Rotation(S, s, len, m, id, Append(t, s[id + 1]))
      BY <1>1, <1>2, <2>1, <2>2, RotationNext
    <2> QED  BY <1>4, <2>3 DEF id
  <1> QED  BY <1>3, <1>4

-----------------------------------------------------------------------------
\* a is the last place of s that is fast enough.
LastAcceptable(a, s, len, rep) ==
    LET max == AcceptableDelay(ModifiedDelay(rep[s[1]]))
    IN  /\ a \in 0..len-1
        /\ \A j \in 1..len : ModifiedDelay(rep[s[j]]) <= max => j <= a + 1
        /\ a = 0 \/ ModifiedDelay(rep[s[a + 1]]) <= max

\* AcceptableIndex finds it.
LEMMA AcceptableLast ==
  ASSUME NEW rep, NEW len \in Nat \ {0}, NEW s, DOMAIN s = 1..len
  PROVE  LastAcceptable(AcceptableIndex(s, rep), s, len, rep)
  <1> DEFINE a == AcceptableIndex(s, rep)
             max == AcceptableDelay(ModifiedDelay(rep[s[1]]))
             F == {j \in 1..len : ModifiedDelay(rep[s[j]]) <= max}
             T == {0} \cup {i - 1 : i \in F}
  <1>1. a = Max(T)  BY DEF AcceptableIndex
  <1> HIDE DEF a, max
  <1>2. F \subseteq 1..len  OBVIOUS
  <1>3. \A j \in 1..len : j \in F <=> ModifiedDelay(rep[s[j]]) <= max  OBVIOUS
  <1> HIDE DEF F
  <1>4. T \in SUBSET Nat /\ T # {} /\ \A y \in T : y <= len - 1
    <2>1. ASSUME NEW i \in F  PROVE i - 1 \in Nat /\ i - 1 <= len - 1
      <3>1. i \in 1..len  BY <1>2
      <3> QED  BY <3>1
    <2>2. 0 \in Nat /\ 0 <= len - 1  OBVIOUS
    <2> QED  BY <2>1, <2>2
  <1>5. len - 1 \in Nat  OBVIOUS
  <1>6. \A y : y \in T <=> y = 0 \/ \E i \in F : y = i - 1  OBVIOUS
  <1> HIDE DEF T
  <1>7. a \in T /\ \A y \in T : y <= a  BY <1>1, <1>4, <1>5, MaxNat
  <1>8. a \in 0..len-1  BY <1>4, <1>7
  <1>9. ASSUME NEW j \in 1..len, ModifiedDelay(rep[s[j]]) <= max  PROVE j <= a + 1
    <2>1. j - 1 \in T  BY <1>3, <1>6, <1>9
    <2>2. j - 1 <= a  BY <1>7, <2>1
    <2> QED  BY <1>8, <2>2
  <1>10. ASSUME a # 0  PROVE ModifiedDelay(rep[s[a + 1]]) <= max
    <2>1. PICK i \in F : a = i - 1  BY <1>6, <1>7, <1>10
    <2>2. i \in 1..len  BY <1>2
    <2>3. i = a + 1  BY <2>1, <2>2
    <2> QED  BY <1>3, <2>2, <2>3
  <1> QED  BY <1>8, <1>9, <1>10 DEF a, max, LastAcceptable

\* A quotient of natural numbers is one, and no less than the factor that a
\* ratio of 1 or more stretches.
LEMMA QuotientFacts ==
  ASSUME NEW e \in Nat, NEW a \in Nat, NEW b \in Nat \ {0}
  PROVE  /\ (e * a) \div b \in Nat
         /\ a >= b => e <= (e * a) \div b
  <1>1. e * a \in Nat  OBVIOUS
  <1>2. PICK x \in Nat : x = e * a  BY <1>1
  <1>3. x \div b \in Nat /\ x < b * (x \div b + 1)  OBVIOUS
  <1>4. PICK q \in Nat : q = x \div b /\ x < b * (q + 1)  BY <1>3
  <1>5. ASSUME a >= b  PROVE e <= q
    <2> SUFFICES ASSUME q + 1 <= e PROVE FALSE  OBVIOUS
    <2>1. b * (q + 1) <= b * e  OBVIOUS
    <2>2. b * e <= a * e  BY <1>5
    <2>3. a * e = e * a  OBVIOUS
    <2>4. b * (q + 1) \in Nat /\ b * e \in Nat /\ a * e \in Nat  OBVIOUS
    <2> QED  BY <1>2, <1>4, <2>1, <2>2, <2>3, <2>4
  <1> QED  BY <1>2, <1>4, <1>5

\* The bound before its conversion.
LEMMA StretchedFacts ==
  ASSUME NEW d \in Nat
  PROVE  /\ Stretched(d) \in Nat
         /\ RatioNum >= RatioDen => d <= Stretched(d)
  <1>1. RatioNum \in Nat /\ RatioDen \in Nat \ {0}  BY BalancerAssumption
  <1>2. PICK e \in Nat : e = (IF d < 100 THEN 100 ELSE d) /\ d <= e  OBVIOUS
  <1>3. Stretched(d) = (e * RatioNum) \div RatioDen  BY <1>2 DEF Stretched
  <1> QED  BY <1>1, <1>2, <1>3, QuotientFacts

\* The acceptable delay is a natural number.
LEMMA AcceptableTyped ==
  ASSUME NEW d \in Nat  PROVE AcceptableDelay(d) \in Nat
  BY StretchedFacts DEF AcceptableDelay, Uint16

\* The rotation of every network; an index that an update left beyond it is
\* brought back by the next turn.
RotationInv ==
    /\ DOMAIN idx = Net /\ DOMAIN turns = Net
    /\ \A n \in Net :
          Rotation(Outbound, sorted[n], Len(Outs[n]), maxAcceptableIndex[n], idx[n], turns[n])

\* What an update of RoundRobin leaves until the next one.
UpdatedInv ==
    info # None /\ strategy = "round-robin" =>
        /\ info \in [Outbound -> Report]
        /\ \A n \in Net :
              /\ IsSort(sorted[n], Outs[n], info)
              /\ maxAcceptableIndex[n] = AcceptableIndex(sorted[n], info)

\* At first every outbound is in rotation.
LEMMA RotationInit ==
  ASSUME BalancerInit  PROVE RotationInv /\ UpdatedInv
  <1>1. UpdatedInv  BY DEF BalancerInit, UpdatedInv
  <1>2. DOMAIN idx = Net /\ DOMAIN turns = Net  BY DEF BalancerInit
  <1>3. ASSUME NEW n \in Net
        PROVE  Rotation(Outbound, sorted[n], Len(Outs[n]), maxAcceptableIndex[n], idx[n], turns[n])
    <2>1. /\ sorted[n] = Outs[n] /\ idx[n] = 0 /\ turns[n] = <<>>
          /\ maxAcceptableIndex[n] = Len(Outs[n]) - 1
      BY DEF BalancerInit
    <2>2. \A p, q \in 1..Len(Outs[n]) : p < q => Outs[n][p] # Outs[n][q]
      BY OutsFacts DEF IsInjective
    <2>3. turns[n] \in Seq(Outbound) /\ Len(turns[n]) = 0  BY <2>1
    <2>4. Len(Outs[n]) \in Nat \ {0} /\ Outs[n] \in [1..Len(Outs[n]) -> Outbound]
      BY OutsFacts
    <2> QED  BY <2>1, <2>2, <2>3, <2>4 DEF Rotation
  <1> QED  BY <1>1, <1>2, <1>3 DEF RotationInv

\* An update sorts the lists, chooses who is in rotation and forgets the turns.
LEMMA RotationUpdate ==
  ASSUME RotationInv,
         NEW rep \in [Outbound -> Report], UpdateRobin(rep)
  PROVE  RotationInv' /\ UpdatedInv'
  <1>1. /\ info' = rep /\ idx' = idx /\ turns' = [n \in Net |-> <<>>]
        /\ sorted' = [n \in Net |-> SortByDelay(Outs[n], rep)]
        /\ maxAcceptableIndex' = [n \in Net |-> AcceptableIndex(sorted'[n], rep)]
    BY DEF UpdateRobin, Update
  <1>2. ASSUME NEW n \in Net
        PROVE  /\ IsSort(sorted'[n], Outs[n], rep)
               /\ maxAcceptableIndex'[n] = AcceptableIndex(sorted'[n], rep)
    BY <1>1, OutsFacts, SortSorts
  <1>3. UpdatedInv'  BY <1>1, <1>2 DEF UpdatedInv
  <1>4. ASSUME NEW n \in Net
        PROVE  Rotation(Outbound, sorted'[n], Len(Outs[n]), maxAcceptableIndex'[n],
                        idx'[n], turns'[n])
    <2> DEFINE len == Len(Outs[n])
    <2>1. len \in Nat \ {0}  BY OutsFacts
    <2>2. /\ sorted'[n] \in [1..len -> Outbound]
          /\ \A p, q \in 1..len : p < q => sorted'[n][p] # sorted'[n][q]
      <3>1. IsSort(sorted'[n], Outs[n], rep)  BY <1>2
      <3> QED  BY <3>1, SortTyped
    <2> HIDE DEF len
    <2>3. maxAcceptableIndex'[n] \in 0..len-1
      <3>1. DOMAIN sorted'[n] = 1..len  BY <2>2
      <3>2. LastAcceptable(AcceptableIndex(sorted'[n], rep), sorted'[n], len, rep)
        BY <2>1, <3>1, AcceptableLast
      <3> QED  BY <1>2, <3>2 DEF LastAcceptable
    <2>4. idx'[n] \in Nat  BY <1>1 DEF RotationInv, Rotation
    <2>5. turns'[n] \in Seq(Outbound) /\ Len(turns'[n]) = 0  BY <1>1
    <2>6. Rotation(Outbound, sorted'[n], len, maxAcceptableIndex'[n], idx'[n], turns'[n])
      BY <2>1, <2>2, <2>3, <2>4, <2>5 DEF Rotation
    <2> QED  BY <2>6 DEF len
  <1>5. DOMAIN idx' = Net /\ DOMAIN turns' = Net  BY <1>1 DEF RotationInv
  <1> QED  BY <1>3, <1>4, <1>5 DEF RotationInv

\* A turn.
LEMMA RotationSelect ==
  ASSUME RotationInv, UpdatedInv, NEW n \in Net, SelectRobin(n)
  PROVE  RotationInv' /\ UpdatedInv'
  <1>1. UpdatedInv'  BY DEF SelectRobin, UpdatedInv
  <1> DEFINE m == maxAcceptableIndex[n]
             id == (idx[n] + 1) % (m + 1)
             u == Append(IF Len(turns[n]) = m + 1 THEN Tail(turns[n]) ELSE turns[n],
                         sorted[n][id + 1])
  <1>2. /\ idx' = [idx EXCEPT ![n] = id] /\ turns' = [turns EXCEPT ![n] = u]
        /\ sorted' = sorted /\ maxAcceptableIndex' = maxAcceptableIndex
    BY DEF SelectRobin
  <1>3. Rotation(Outbound, sorted[n], Len(Outs[n]), m, id, u)
    BY RotationTurn DEF RotationInv
  <1> HIDE DEF m, id, u
  <1>4. ASSUME NEW k \in Net
        PROVE  Rotation(Outbound, sorted'[k], Len(Outs[k]), maxAcceptableIndex'[k],
                        idx'[k], turns'[k])
    <2>1. CASE k = n
      <3>1. idx'[k] = id /\ turns'[k] = u /\ maxAcceptableIndex'[k] = m
        BY <1>2, <2>1 DEF RotationInv, m
      <3> QED  BY <1>2, <1>3, <2>1, <3>1
    <2>2. CASE k # n
      <3>1. idx'[k] = idx[k] /\ turns'[k] = turns[k]  BY <1>2, <2>2 DEF RotationInv
      <3> QED  BY <1>2, <3>1 DEF RotationInv
    <2> QED  BY <2>1, <2>2
  <1>5. DOMAIN idx' = Net /\ DOMAIN turns' = Net  BY <1>2 DEF RotationInv
  <1> QED  BY <1>1, <1>4, <1>5 DEF RotationInv

\* Every step keeps the rotation.
LEMMA RotationNextInv ==
  ASSUME RotationInv, UpdatedInv, [BalancerNext]_balancerVars
  PROVE  RotationInv' /\ UpdatedInv'
  <1>1. ASSUME UNCHANGED <<sorted, maxAcceptableIndex, idx, turns>>  PROVE RotationInv'
    BY <1>1 DEF RotationInv
  <1>2. ASSUME UNCHANGED <<strategy, info, sorted, maxAcceptableIndex>>  PROVE UpdatedInv'
    BY <1>2 DEF UpdatedInv
  <1>3. ASSUME NEW rep, UpdateLowest(rep) \/ UpdateHash(rep)  PROVE RotationInv' /\ UpdatedInv'
    <2>1. RotationInv'  BY <1>1, <1>3 DEF UpdateLowest, UpdateHash, robinVars
    <2>2. strategy' # "round-robin"  BY <1>3 DEF UpdateLowest, UpdateHash, Update
    <2> QED  BY <2>1, <2>2 DEF UpdatedInv
  <1>4. ASSUME NEW rep \in [Outbound -> Report], UpdateRobin(rep)  PROVE RotationInv' /\ UpdatedInv'
    BY <1>4, RotationUpdate
  <1>5. ASSUME NEW n \in Net, SelectRobin(n)  PROVE RotationInv' /\ UpdatedInv'
    BY <1>5, RotationSelect
  <1>6. ASSUME NEW k, NEW n, SelectSticky(k, n) \/ SessionExpires(k)
        PROVE  RotationInv' /\ UpdatedInv'
    BY <1>1, <1>2, <1>6 DEF SelectSticky, SessionExpires, robinVars
  <1>7. CASE UNCHANGED balancerVars  BY <1>1, <1>2, <1>7 DEF balancerVars, robinVars
  <1> QED  BY <1>3, <1>4, <1>5, <1>6, <1>7 DEF BalancerNext

\* The rotation is kept in every behaviour.
LEMMA RotationAlways ==  BalancerSpec => [](RotationInv /\ UpdatedInv)
  <1>1. BalancerInit => RotationInv /\ UpdatedInv  BY RotationInit
  <1>2. RotationInv /\ UpdatedInv /\ [BalancerNext]_balancerVars => (RotationInv /\ UpdatedInv)'
    BY RotationNextInv
  <1> QED  BY <1>1, <1>2, PTL DEF BalancerSpec

\* RoundRobin is fair between two reports (RoundRobin.Select,
\* UpdateOutboundsInfo), for any number of outbounds and any reports.
THEOREM RobinTakesTurns ==  BalancerSpec => []RobinFair
  <1>1. RotationInv => RobinFair
    <2> SUFFICES ASSUME RotationInv, NEW n \in Net  PROVE IsInjective(turns[n])
      BY DEF RobinFair
    <2>1. Rotation(Outbound, sorted[n], Len(Outs[n]), maxAcceptableIndex[n], idx[n], turns[n])
      BY DEF RotationInv
    <2>2. DOMAIN turns[n] = 1..Len(turns[n])  BY <2>1 DEF Rotation
    <2> QED  BY <2>1, <2>2, RotationFair DEF IsInjective
  <1> QED  BY <1>1, RotationAlways, PTL

\* What is in rotation follows the last report: the fastest outbound and
\* exactly those within the acceptable delay (sortOutboundsByDelay,
\* getAcceptableIndex), for any lists, reports and ratio.
THEOREM RobinFollowsReport ==  BalancerSpec => []RobinFollows
  <1>1. ASSUME UpdatedInv, info # None, strategy = "round-robin", NEW n \in Net
        PROVE  LET d(o) == ModifiedDelay(info[o])
                   used == {sorted[n][i] : i \in 1..maxAcceptableIndex[n]+1}
                   fast == {o \in ToSet(Outs[n]) : d(o) <= AcceptableDelay(BestDelay(n))}
               IN  /\ fast \subseteq used
                   /\ used \subseteq fast \cup {sorted[n][1]}
                   /\ d(sorted[n][1]) = BestDelay(n)
    <2> DEFINE len == Len(Outs[n])
               s == sorted[n]
               a == maxAcceptableIndex[n]
               d(o) == ModifiedDelay(info[o])
               outs == ToSet(Outs[n])
               max == AcceptableDelay(d(s[1]))
               best == CHOOSE o \in outs : \A p \in outs : d(o) <= d(p)
    <2>1. len \in Nat \ {0} /\ Outs[n] \in [1..len -> Outbound]  BY OutsFacts
    <2>2. IsSort(s, Outs[n], info) /\ info \in [Outbound -> Report]  BY <1>1 DEF UpdatedInv
    <2>3. /\ a \in 0..len-1
          /\ \A j \in 1..len : d(s[j]) <= max => j <= a + 1
          /\ a = 0 \/ d(s[a + 1]) <= max
      <3>1. DOMAIN s = 1..len  BY <2>2 DEF IsSort
      <3>2. a = AcceptableIndex(s, info)  BY <1>1 DEF UpdatedInv
      <3> HIDE DEF len, s
      <3>3. LastAcceptable(AcceptableIndex(s, info), s, len, info)
        BY <2>1, <3>1, AcceptableLast
      <3> QED  BY <3>2, <3>3 DEF LastAcceptable
    <2>4. \A o : o \in outs <=> \E p \in 1..len : o = s[p]
      <3>1. \A o : o \in outs <=> \E i \in 1..len : o = Outs[n][i]  BY <2>1 DEF ToSet
      <3>2. \A p \in 1..len : \E i \in 1..len : s[p] = Outs[n][i]  BY <2>2 DEF IsSort
      <3>3. \A i \in 1..len : \E p \in 1..len : s[p] = Outs[n][i]  BY <2>2 DEF IsSort
      <3> HIDE DEF s, len, outs
      <3>4. ASSUME NEW o \in outs  PROVE \E p \in 1..len : o = s[p]
        <4>1. PICK i \in 1..len : o = Outs[n][i]  BY <3>1
        <4>2. PICK p \in 1..len : s[p] = Outs[n][i]  BY <3>3
        <4> QED  BY <4>1, <4>2
      <3>5. ASSUME NEW p \in 1..len  PROVE s[p] \in outs
        <4>1. PICK i \in 1..len : s[p] = Outs[n][i]  BY <3>2
        <4> QED  BY <3>1, <4>1
      <3> QED  BY <3>4, <3>5
    <2>5. \A p \in 1..len : d(s[p]) \in Nat  BY <2>2, DelayTyped DEF IsSort
    <2>6. \A p, q \in 1..len : p < q => d(s[p]) <= d(s[q])  BY <2>2 DEF IsSort
    <2>7. BestDelay(n) = d(best)  BY DEF BestDelay
    <2> HIDE DEF len, s, a, d, outs, max
    <2>8. \A o \in outs : d(o) \in Nat /\ d(s[1]) <= d(o)
      <3> SUFFICES ASSUME NEW p \in 1..len  PROVE d(s[p]) \in Nat /\ d(s[1]) <= d(s[p])
        BY <2>4
      <3>1. CASE p = 1  BY <2>1, <2>5, <3>1
      <3>2. CASE p # 1  BY <2>1, <2>5, <2>6, <3>2
      <3> QED  BY <3>1, <3>2
    <2>9. s[1] \in outs  BY <2>1, <2>4
    <2>10. best \in outs /\ \A p \in outs : d(best) <= d(p)  BY <2>8, <2>9
    <2> HIDE DEF best
    <2>11. d(best) = d(s[1])  BY <2>8, <2>9, <2>10
    <2>12. ASSUME NEW o \in outs, d(o) <= max  PROVE \E i \in 1..a+1 : o = s[i]
      <3>1. PICK p \in 1..len : o = s[p]  BY <2>4
      <3>2. p <= a + 1  BY <2>3, <2>12, <3>1
      <3> QED  BY <2>1, <2>3, <3>1, <3>2
    <2>13. ASSUME NEW i \in 1..a+1, i # 1  PROVE s[i] \in outs /\ d(s[i]) <= max
      <3>1. i \in 1..len /\ a + 1 \in 1..len /\ a # 0  BY <2>1, <2>3, <2>13
      <3>2. d(s[a + 1]) <= max  BY <2>3, <3>1
      <3>3. CASE i = a + 1  BY <2>4, <3>1, <3>2, <3>3
      <3>4. CASE i # a + 1
        <4>1. i < a + 1  BY <2>3, <3>4
        <4>2. d(s[i]) <= d(s[a + 1])  BY <2>6, <3>1, <4>1
        <4>3. d(s[i]) \in Nat /\ d(s[a + 1]) \in Nat  BY <2>5, <3>1
        <4>4. max \in Int  BY AcceptableTyped, <2>5, <2>1 DEF max
        <4> QED  BY <2>4, <3>1, <3>2, <4>2, <4>3, <4>4
      <3> QED  BY <3>3, <3>4
    <2>14. max = AcceptableDelay(BestDelay(n))  BY <2>7, <2>11 DEF max
    <2> QED  BY <2>7, <2>11, <2>12, <2>13, <2>14 DEF d, outs, a, s
  <1>2. UpdatedInv => RobinFollows  BY <1>1 DEF RobinFollows
  <1> QED  BY <1>2, RotationAlways, PTL

-----------------------------------------------------------------------------
(* Balancer: the lowest delay *)

\* A step of MinDelay's fold.
Lower(outs, rep, k, min) ==
    IF ModifiedDelay(rep[outs[k]]) <= min.delay
    THEN [delay |-> ModifiedDelay(rep[outs[k]]), out |-> outs[k]] ELSE min

\* FoldLeft in MinDelay, outbound by outbound.
LEMMA MinDelayFold ==
  ASSUME NEW outs \in Seq(Outbound), NEW rep \in [Outbound -> Report]
  PROVE  \E f : /\ f[1..0] = [delay |-> TimeoutDelay, out |-> None]
                /\ \A k \in 1..Len(outs) : f[1..k] = Lower(outs, rep, k, f[1..(k-1)])
                /\ f[1..Len(outs)] = MinDelay(outs, rep)
  <1> DEFINE n == Len(outs)
             base == [delay |-> TimeoutDelay, out |-> None]
             R == [delay : 0..TimeoutDelay, out : Outbound \cup {None}]
             step == [x \in (1..n) \X R |-> Lower(outs, rep, x[1], x[2])]
             Solves(f) == f = [s \in SUBSET (1..n) |->
                               IF s = {} THEN base
                               ELSE Lower(outs, rep, Max(s), f[s \ {Max(s)}])]
  <1>1. n \in Nat /\ DOMAIN outs = 1..n /\ \A k \in 1..n : outs[k] \in Outbound  OBVIOUS
  <1>2. \A k \in 1..n : ModifiedDelay(rep[outs[k]]) \in 0..TimeoutDelay  BY <1>1, DelayBounds
  <1>3. base \in R
    <2>1. TimeoutDelay \in 0..TimeoutDelay  BY TimeoutTyped
    <2> QED  BY <2>1
  <1>4. \A k \in 1..n, r \in R : Lower(outs, rep, k, r) \in R  BY <1>1, <1>2 DEF Lower
  <1>5. step \in [(1..n) \X R -> R]  BY <1>4
  <1>6. \A k \in 1..n, r \in R : step[<<k, r>>] = Lower(outs, rep, k, r)  OBVIOUS
  <1>7. PICK f : IsFold(f, n, R, base, step)
    <2> HIDE DEF n, R, base, step
    <2> QED  BY <1>1, <1>3, <1>5, FoldExists
  <1>8. Solves(f)
    <2>1. ASSUME NEW s \in SUBSET (1..n), s # {}
          PROVE  Max(s) \in 1..n /\ f[s \ {Max(s)}] \in R
      <3> HIDE DEF R, n
      <3> QED  BY <1>1, <1>7, <2>1, MaxIndex DEF IsFold
    <2>2. ASSUME NEW s \in SUBSET (1..n), s # {}
          PROVE  f[s] = Lower(outs, rep, Max(s), f[s \ {Max(s)}])
      <3> HIDE DEF R, n, step
      <3> QED  BY <1>6, <1>7, <2>1, <2>2 DEF IsFold
    <2>3. f[{}] = base /\ f = [s \in SUBSET (1..n) |-> f[s]]  BY <1>7 DEF IsFold
    <2> QED  BY <2>2, <2>3
  <1> DEFINE it == CHOOSE g : Solves(g)
  <1>9. Solves(it)  BY <1>8
  <1>10. MinDelay(outs, rep) = it[1..n]  BY <1>1 DEF MinDelay, FoldLeft, MapThenFoldSet, Lower
  <1> HIDE DEF it
  <1>11. it[1..0] = base  BY <1>9
  <1>12. ASSUME NEW k \in 1..n  PROVE it[1..k] = Lower(outs, rep, k, it[1..(k-1)])
    <2> HIDE DEF n, base
    <2>1. /\ 1..k \in SUBSET (1..n) /\ 1..k # {} /\ Max(1..k) = k /\ (1..k) \ {k} = 1..(k-1)
      BY <1>1, Prefix
    <2> QED  BY <1>9, <2>1
  <1> QED  BY <1>10, <1>11, <1>12

\* m is a least delay of the first k outbounds, with its outbound.
IsLeast(m, outs, rep, k) ==
    /\ \E j \in 1..k : m.out = outs[j] /\ m.delay = ModifiedDelay(rep[outs[j]])
    /\ \A j \in 1..k : m.delay <= ModifiedDelay(rep[outs[j]])

\* MinDelay finds a least delay.
LEMMA MinDelayLeast ==
  ASSUME NEW outs \in Seq(Outbound), outs # <<>>, NEW rep \in [Outbound -> Report]
  PROVE  IsLeast(MinDelay(outs, rep), outs, rep, Len(outs))
  <1> DEFINE n == Len(outs)
             d(k) == ModifiedDelay(rep[outs[k]])
  <1>1. n \in Nat /\ n # 0 /\ \A k \in 1..n : outs[k] \in Outbound  OBVIOUS
  <1>2. \A k \in 1..n : d(k) \in 0..TimeoutDelay  BY <1>1, DelayBounds
  <1>3. PICK f : /\ f[1..0] = [delay |-> TimeoutDelay, out |-> None]
                 /\ \A k \in 1..n : f[1..k] = Lower(outs, rep, k, f[1..(k-1)])
                 /\ f[1..n] = MinDelay(outs, rep)
    BY MinDelayFold
  <1> DEFINE T == {k \in 0..n : k # 0 => IsLeast(f[1..k], outs, rep, k)}
  <1>4. 0 \in T  BY <1>1
  <1>5. ASSUME NEW k \in 0..n-1, k \in T  PROVE k + 1 \in T
    <2>1. k + 1 \in 1..n /\ k + 1 \in 0..n /\ (k + 1) - 1 = k  BY <1>1
    <2>2. f[1..(k+1)] = Lower(outs, rep, k + 1, f[1..k])  BY <1>3, <2>1
    <2>3. d(k+1) \in 0..TimeoutDelay  BY <1>2, <2>1
    <2>4. ASSUME k = 0  PROVE IsLeast(f[1..(k+1)], outs, rep, k + 1)
      <3>1. f[1..k].delay = TimeoutDelay  BY <1>3, <2>4
      <3>2. d(k+1) <= TimeoutDelay  BY <2>3, TimeoutTyped
      <3>3. f[1..(k+1)] = [delay |-> d(k+1), out |-> outs[k+1]]  BY <2>2, <3>1, <3>2 DEF Lower
      <3>4. 1..(k+1) = {k + 1}  BY <2>4
      <3>5. d(k+1) <= d(k+1)  BY <2>3
      <3>6. f[1..(k+1)].delay = d(k+1) /\ f[1..(k+1)].out = outs[k+1]  BY <3>3
      <3> QED  BY <3>4, <3>5, <3>6 DEF IsLeast
    <2>5. ASSUME k # 0  PROVE IsLeast(f[1..(k+1)], outs, rep, k + 1)
      <3>1. IsLeast(f[1..k], outs, rep, k)  BY <1>5, <2>5
      <3>2. PICK j \in 1..k : f[1..k].out = outs[j] /\ f[1..k].delay = d(j)  BY <3>1 DEF IsLeast
      <3>3. j \in 1..n /\ d(j) \in 0..TimeoutDelay  BY <1>1, <1>2
      <3>4. \A i \in 1..k : d(j) <= d(i) /\ d(i) \in 0..TimeoutDelay
        <4>1. \A i \in 1..k : i \in 1..n  BY <1>1
        <4> QED  BY <1>2, <3>1, <3>2, <4>1 DEF IsLeast
      <3>5. 1..(k+1) = (1..k) \cup {k + 1}  OBVIOUS
      <3> HIDE DEF d
      <3>6. CASE d(k+1) <= d(j)
        <4>1. f[1..(k+1)].delay = d(k+1) /\ f[1..(k+1)].out = outs[k+1]
          BY <2>2, <3>2, <3>6 DEF Lower, d
        <4>2. \A i \in 1..k : d(k+1) <= d(i)
          BY <2>3, <3>3, <3>4, <3>6, TimeoutTyped
        <4>3. d(k+1) <= d(k+1)  BY <2>3
        <4> QED  BY <3>5, <4>1, <4>2, <4>3 DEF IsLeast, d
      <3>7. CASE ~(d(k+1) <= d(j))
        <4>1. f[1..(k+1)] = f[1..k]  BY <2>2, <3>2, <3>7 DEF Lower, d
        <4>2. d(j) <= d(k+1)  BY <2>3, <3>3, <3>7
        <4> QED  BY <3>2, <3>4, <3>5, <4>1, <4>2 DEF IsLeast, d
      <3> QED  BY <3>6, <3>7
    <2> QED  BY <2>1, <2>4, <2>5
  <1>6. n \in T
    <2> HIDE DEF T, n
    <2>1. \A k \in 0..n : k \in T  BY <1>1, <1>4, <1>5, UpTo
    <2> QED  BY <1>1, <2>1
  <1> QED  BY <1>1, <1>3, <1>6

\* BestDelay is the delay of an outbound that none is faster than.
LEMMA BestIsLeast ==
  ASSUME NEW n \in Net, NEW rep \in [Outbound -> Report], info = rep,
         NEW o \in ToSet(Outs[n]),
         \A p \in ToSet(Outs[n]) : ModifiedDelay(rep[o]) <= ModifiedDelay(rep[p])
  PROVE  BestDelay(n) = ModifiedDelay(rep[o])
  <1> DEFINE outs == ToSet(Outs[n])
             d(p) == ModifiedDelay(rep[p])
             best == CHOOSE p \in outs : \A q \in outs : d(p) <= d(q)
  <1>1. BestDelay(n) = d(best)  BY DEF BestDelay
  <1>2. outs \subseteq Outbound  BY OutsFacts DEF ToSet
  <1>3. \A p \in outs : d(p) \in Nat  BY <1>2, DelayTyped
  <1>4. \A p \in outs : d(o) <= d(p)  OBVIOUS
  <1> HIDE DEF d, outs
  <1>5. o \in outs  BY DEF outs
  <1>6. best \in outs /\ \A p \in outs : d(best) <= d(p)  BY <1>4, <1>5
  <1> HIDE DEF best
  <1>7. d(best) = d(o)  BY <1>3, <1>4, <1>5, <1>6
  <1> QED  BY <1>1, <1>7 DEF d

\* What an update of LowestDelay leaves until the next one.
LowestInv ==
    info # None /\ strategy = "lowest-delay" =>
        /\ info \in [Outbound -> Report]
        /\ selected = [n \in Net |-> MinDelay(Outs[n], info).out]

\* Every step keeps it.
LEMMA LowestNext ==
  ASSUME LowestInv, [BalancerNext]_balancerVars  PROVE LowestInv'
  <1>1. ASSUME NEW rep \in [Outbound -> Report], UpdateLowest(rep)  PROVE LowestInv'
    BY <1>1 DEF UpdateLowest, Update, LowestInv
  <1>2. ASSUME NEW rep, UpdateRobin(rep) \/ UpdateHash(rep)  PROVE LowestInv'
    BY <1>2 DEF UpdateRobin, UpdateHash, Update, LowestInv
  <1>3. ASSUME NEW n, SelectRobin(n)  PROVE LowestInv'
    BY <1>3 DEF SelectRobin, lowestVars, LowestInv
  <1>4. ASSUME NEW k, NEW n, SelectSticky(k, n)  PROVE LowestInv'
    BY <1>4 DEF SelectSticky, lowestVars, LowestInv
  <1>5. ASSUME NEW k, SessionExpires(k)  PROVE LowestInv'
    BY <1>5 DEF SessionExpires, lowestVars, LowestInv
  <1>6. CASE UNCHANGED balancerVars  BY <1>6 DEF balancerVars, lowestVars, LowestInv
  <1> QED  BY <1>1, <1>2, <1>3, <1>4, <1>5, <1>6 DEF BalancerNext

\* No outbound of a network is faster than the one LowestDelay selects.
LEMMA LowestIsBest ==
  ASSUME LowestInv  PROVE LowestFollows
  <1> SUFFICES ASSUME info # None, strategy = "lowest-delay", NEW n \in Net
               PROVE  /\ LowestSelect(n) \in ToSet(Outs[n])
                      /\ ModifiedDelay(info[LowestSelect(n)]) = BestDelay(n)
    BY DEF LowestFollows
  <1> DEFINE m == MinDelay(Outs[n], info)
             len == Len(Outs[n])
  <1>1. info \in [Outbound -> Report] /\ LowestSelect(n) = m.out
    BY DEF LowestInv, LowestSelect
  <1>2. IsLeast(m, Outs[n], info, len)  BY <1>1, OutsFacts, FilterFacts, MinDelayLeast
  <1> HIDE DEF m
  <1>3. PICK j \in 1..len : m.out = Outs[n][j] /\ m.delay = ModifiedDelay(info[Outs[n][j]])
    BY <1>2 DEF IsLeast
  <1>4. ToSet(Outs[n]) = {Outs[n][i] : i \in 1..len}  BY OutsFacts DEF ToSet
  <1>5. m.out \in ToSet(Outs[n])  BY <1>3, <1>4
  <1>6. \A p \in ToSet(Outs[n]) : ModifiedDelay(info[m.out]) <= ModifiedDelay(info[p])
    BY <1>2, <1>3, <1>4 DEF IsLeast
  <1>7. BestDelay(n) = ModifiedDelay(info[m.out])  BY <1>1, <1>5, <1>6, BestIsLeast
  <1> QED  BY <1>1, <1>5, <1>7

\* What the strategies route to follows the last report (UpdateOutboundsInfo
\* of LowestDelay and RoundRobin), for any lists, reports and ratio.
THEOREM RoutesFollowReport == BalancerSpec => []FollowsReport
  <1>1. BalancerInit => LowestInv  BY DEF BalancerInit, LowestInv
  <1>2. LowestInv /\ [BalancerNext]_balancerVars => LowestInv'  BY LowestNext
  <1>3. LowestInv => LowestFollows  BY LowestIsBest
  <1>4. LowestFollows /\ RobinFollows => FollowsReport  BY DEF FollowsReport
  <1> QED  BY <1>1, <1>2, <1>3, <1>4, RobinFollowsReport, PTL DEF BalancerSpec

-----------------------------------------------------------------------------
(* Balancer: consistent hashing *)

\* Hashes are places of the list, and what Alive compares is the last report
\* and the acceptable delay of its minimum.
HashInv ==
    /\ \A n \in Net, k \in Key, i \in 0..MaxRetry : hash[<<n, k, i>>] \in 0..Len(Outs[n])-1
    /\ delays # None =>
          /\ strategy \in {"consistent-hashing", "sticky-sessions"}
          /\ info \in [Outbound -> Report]
          /\ delays = [o \in Outbound |-> info[o].delay]
          /\ maxAcceptableDelay = [n \in Net |-> AcceptableDelay(MinDelay(Outs[n], info).delay)]

\* The outcomes of jumpHash are below the number of buckets.
LEMMA HashInit ==
  ASSUME BalancerInit  PROVE HashInv
  <1>1. delays = None  BY DEF BalancerInit
  <1>2. ASSUME NEW n \in Net, NEW k \in Key, NEW i \in 0..MaxRetry
        PROVE  hash[<<n, k, i>>] \in 0..Len(Outs[n])-1
    <2> DEFINE x == <<n, k, i>>
    <2>1. /\ hash \in [Net \X Key \X (0..MaxRetry) -> 0..Len(Outbounds)-1]
          /\ \A y \in DOMAIN hash : IF strategy = "consistent-hashing"
                                    THEN hash[y] < Len(Outs[y[1]]) ELSE hash[y] = 0
      BY DEF BalancerInit
    <2>2. x \in Net \X Key \X (0..MaxRetry) /\ x[1] = n  OBVIOUS
    <2>3. hash[x] \in 0..Len(Outbounds)-1 /\ (hash[x] < Len(Outs[n]) \/ hash[x] = 0)
      <3>1. x \in DOMAIN hash  BY <2>1, <2>2
      <3> QED  BY <2>1, <2>2, <3>1
    <2>4. Len(Outs[n]) \in Nat \ {0} /\ Len(Outbounds) \in Nat  BY OutsFacts, MemberAssumption
    <2> HIDE DEF x
    <2>5. hash[x] \in 0..Len(Outs[n])-1  BY <2>3, <2>4
    <2> QED  BY <2>5 DEF x
  <1> QED  BY <1>1, <1>2 DEF HashInv

\* Every step keeps HashInv.
LEMMA HashNext ==
  ASSUME HashInv, [BalancerNext]_balancerVars  PROVE HashInv'
  <1>1. ASSUME NEW rep \in [Outbound -> Report], UpdateHash(rep)  PROVE HashInv'
    BY <1>1 DEF UpdateHash, Update, HashInv
  <1>2. ASSUME NEW rep, UpdateLowest(rep) \/ UpdateRobin(rep)  PROVE HashInv'
    <2>1. delays = None /\ UNCHANGED <<delays, hash>>
      BY <1>2 DEF UpdateLowest, UpdateRobin, Update, hashVars, HashInv
    <2> QED  BY <2>1 DEF HashInv
  <1>3. ASSUME NEW n, SelectRobin(n)  PROVE HashInv'
    BY <1>3 DEF SelectRobin, hashVars, HashInv
  <1>4. ASSUME NEW k, NEW n, SelectSticky(k, n)  PROVE HashInv'
    BY <1>4 DEF SelectSticky, hashVars, HashInv
  <1>5. ASSUME NEW k, SessionExpires(k)  PROVE HashInv'
    BY <1>5 DEF SessionExpires, hashVars, HashInv
  <1>6. CASE UNCHANGED balancerVars  BY <1>6 DEF balancerVars, hashVars, HashInv
  <1> QED  BY <1>1, <1>2, <1>3, <1>4, <1>5, <1>6 DEF BalancerNext

\* The tries of HashSelect that hit an outbound that is alive.
Tries(k, n) == {i \in 0..MaxRetry-1 : Alive(Outs[n][hash[<<n, k, i>>] + 1], n)}

\* The places of such outbounds, which it walks over after them.
Walk(n) == {i \in 1..Len(Outs[n]) : Alive(Outs[n][i], n)}

\* The two loops of HashSelect, and the try without a check after them.
LEMMA HashSelects ==
  ASSUME NEW k \in Key, NEW n \in Net
  PROVE  /\ Tries(k, n) # {} => HashSelect(k, n) = Outs[n][hash[<<n, k, Min(Tries(k, n))>>] + 1]
         /\ Tries(k, n) = {} /\ Walk(n) # {} => HashSelect(k, n) = Outs[n][Min(Walk(n))]
         /\ Tries(k, n) = {} /\ Walk(n) = {} =>
               HashSelect(k, n) = Outs[n][hash[<<n, k, MaxRetry>>] + 1]
  <1>1. DOMAIN Outs[n] = 1..Len(Outs[n])  BY OutsFacts
  <1> QED  BY <1>1 DEF HashSelect, Tries, Walk

\* An outbound that is alive is found.
LEMMA HashFinds ==
  ASSUME HashInv, NEW k \in Key, NEW n \in Net, NEW o \in ToSet(Outs[n]), Alive(o, n)
  PROVE  Alive(HashSelect(k, n), n)
  <1>1. Walk(n) # {}
    <2>1. PICK i \in 1..Len(Outs[n]) : o = Outs[n][i]  BY OutsFacts DEF ToSet
    <2> QED  BY <2>1 DEF Walk
  <1>2. CASE Tries(k, n) # {}
    <2>1. Tries(k, n) \in SUBSET Nat  BY BalancerAssumption DEF Tries
    <2>2. Min(Tries(k, n)) \in Tries(k, n)  BY <1>2, <2>1, MinNat
    <2>3. Alive(Outs[n][hash[<<n, k, Min(Tries(k, n))>>] + 1], n)  BY <2>2 DEF Tries
    <2> QED  BY <1>2, <2>3, HashSelects
  <1>3. CASE Tries(k, n) = {}
    <2>1. Walk(n) \in SUBSET Nat  BY OutsFacts DEF Walk
    <2>2. Min(Walk(n)) \in Walk(n)  BY <1>1, <2>1, MinNat
    <2>3. Alive(Outs[n][Min(Walk(n))], n)  BY <2>2 DEF Walk
    <2> QED  BY <1>1, <1>3, <2>3, HashSelects
  <1> QED  BY <1>2, <1>3

\* With a ratio of 1 or more the fastest outbound is alive if the acceptable
\* delay fits into 16 bits.
LEMMA FastestAlive ==
  ASSUME HashInv, NEW n \in Net, delays # None, RatioNum >= RatioDen,
         Stretched(MinDelay(Outs[n], info).delay) <= TimeoutDelay
  PROVE  Alive(MinDelay(Outs[n], info).out, n)
  <1> DEFINE m == MinDelay(Outs[n], info)
  <1>1. /\ info \in [Outbound -> Report] /\ delays = [o \in Outbound |-> info[o].delay]
        /\ maxAcceptableDelay[n] = AcceptableDelay(m.delay)
    BY DEF HashInv
  <1>2. IsLeast(m, Outs[n], info, Len(Outs[n]))  BY <1>1, OutsFacts, FilterFacts, MinDelayLeast
  <1>3. Stretched(m.delay) <= TimeoutDelay  OBVIOUS
  <1> HIDE DEF m
  <1>4. PICK j \in 1..Len(Outs[n]) :
          m.out = Outs[n][j] /\ m.delay = ModifiedDelay(info[Outs[n][j]])
    BY <1>2 DEF IsLeast
  <1>5. m.out \in Outbound /\ m.delay = ModifiedDelay(info[m.out])  BY <1>4, OutsFacts
  <1>6. /\ ModifiedDelay(info[m.out]) \in 0..TimeoutDelay
        /\ info[m.out].delay \in 0..ModifiedDelay(info[m.out])
    BY <1>1, <1>5, DelayBounds
  <1>7. PICK d \in Nat, r \in Nat : m.delay = d /\ info[m.out].delay = r /\ r <= d
    <2>1. m.delay \in Nat  BY <1>5, <1>6, TimeoutTyped
    <2> QED  BY <1>5, <1>6, <2>1
  <1>8. Stretched(d) \in Nat /\ d <= Stretched(d)  BY StretchedFacts
  <1>9. PICK x \in Nat : x = Stretched(d) /\ d <= x /\ x <= 65535
    BY <1>3, <1>7, <1>8, TimeoutTyped, TimeoutValue
  <1>10. x % 65536 = x  BY <1>9
  <1>11. AcceptableDelay(m.delay) = x  BY <1>7, <1>9, <1>10 DEF AcceptableDelay, Uint16
  <1>12. r <= x  BY <1>7, <1>9
  <1>13. delays[m.out] = r  BY <1>1, <1>5, <1>7
  <1>14. Alive(m.out, n)  BY <1>1, <1>11, <1>12, <1>13 DEF Alive
  <1> QED  BY <1>14 DEF m

\* ConsistentHashing routes a session to an outbound that is alive if there
\* is one, whatever the ratio, and with a ratio of 1 or more the fastest is
\* alive unless the acceptable delay exceeds 16 bits (Select and
\* UpdateOutboundsInfo), for any lists, reports, hash and number of retries.
THEOREM HashFindsAlive == BalancerSpec => []HashSound
  <1>1. BalancerInit => HashInv  BY HashInit
  <1>2. HashInv /\ [BalancerNext]_balancerVars => HashInv'  BY HashNext
  <1>3. HashInv => HashSound  BY HashFinds, FastestAlive DEF HashSound
  <1> QED  BY <1>1, <1>2, <1>3, PTL DEF BalancerSpec

\* One step of a session's route, as HashConsistent states it.
HashStep ==
    \A k \in Key, n \in Net :
          /\ delays # None /\ delays' # None
          /\ \A o \in Outbound : Alive(o, n)' => Alive(o, n)
          /\ Alive(HashSelect(k, n), n)
          /\ delays'[HashSelect(k, n)] <= maxAcceptableDelay'[n]
          => HashSelect(k, n)' = HashSelect(k, n)

\* No step moves a session from an outbound that stays alive, if none comes
\* to life.
LEMMA HashStays ==
  ASSUME HashInv, [BalancerNext]_balancerVars  PROVE HashStep
  <1> SUFFICES ASSUME NEW k \in Key, NEW n \in Net, delays # None, delays' # None,
                      \A o \in Outbound : Alive(o, n)' => Alive(o, n),
                      Alive(HashSelect(k, n), n),
                      delays'[HashSelect(k, n)] <= maxAcceptableDelay'[n]
               PROVE  HashSelect(k, n)' = HashSelect(k, n)
    BY DEF HashStep
  <1> DEFINE len == Len(Outs[n])
             then == {o \in Outbound : delays'[o] <= maxAcceptableDelay'[n]}
             tries == {i \in 0..MaxRetry-1 : Outs[n][hash[<<n, k, i>>] + 1] \in then}
             walk == {i \in 1..len : Outs[n][i] \in then}
  <1>1. hash' = hash
    BY DEF BalancerNext, UpdateLowest, UpdateRobin, UpdateHash, Update, SelectRobin,
           SelectSticky, SessionExpires, balancerVars
  <1>2. \A i \in 0..MaxRetry : Outs[n][hash[<<n, k, i>>] + 1] \in Outbound
    <2>1. \A i \in 0..MaxRetry : hash[<<n, k, i>>] \in 0..len-1  BY DEF HashInv
    <2> QED  BY <2>1, OutsFacts
  <1>3. \A i \in 1..len : Outs[n][i] \in Outbound  BY OutsFacts
  <1>4. MaxRetry \in Nat /\ len \in Nat  BY BalancerAssumption, OutsFacts
  <1>5. \A i \in 0..MaxRetry-1 : i \in 0..MaxRetry  BY <1>4
  <1>6. \A o \in then : o \in Outbound /\ Alive(o, n)  BY DEF Alive
  <1>7. /\ tries # {} => HashSelect(k, n)' = Outs[n][hash[<<n, k, Min(tries)>>] + 1]
        /\ tries = {} /\ walk # {} => HashSelect(k, n)' = Outs[n][Min(walk)]
    <2>1. DOMAIN Outs[n] = 1..len  BY OutsFacts
    <2>2. tries = {i \in 0..MaxRetry-1 :
                     delays'[Outs[n][hash[<<n, k, i>>] + 1]] <= maxAcceptableDelay'[n]}
      BY <1>2, <1>5
    <2>3. walk = {i \in 1..len : delays'[Outs[n][i]] <= maxAcceptableDelay'[n]}  BY <1>3
    <2> QED  BY <1>1, <2>1, <2>2, <2>3 DEF HashSelect, Alive
  <1>8. tries \subseteq Tries(k, n) /\ walk \subseteq Walk(n)  BY <1>6 DEF Tries, Walk
  <1>9. Tries(k, n) \in SUBSET Nat /\ Walk(n) \in SUBSET Nat  BY <1>4 DEF Tries, Walk
  <1>10. \A o \in Outbound : o = HashSelect(k, n) => o \in then  OBVIOUS
  <1> HIDE DEF then
  <1>11. CASE Tries(k, n) # {}
    <2> DEFINE i == Min(Tries(k, n))
    <2>1. HashSelect(k, n) = Outs[n][hash[<<n, k, i>>] + 1]  BY <1>11, HashSelects
    <2>2. i \in Tries(k, n)  BY <1>9, <1>11, MinNat
    <2> HIDE DEF i
    <2>3. i \in 0..MaxRetry-1  BY <2>2 DEF Tries
    <2>4. i \in tries  BY <1>2, <1>5, <1>10, <2>1, <2>3
    <2> HIDE DEF tries
    <2>5. Min(tries) = i  BY <1>8, <1>9, <1>11, <2>4, MinStays DEF i
    <2> QED  BY <1>7, <2>1, <2>4, <2>5
  <1>12. CASE Tries(k, n) = {} /\ Walk(n) # {}
    <2> DEFINE i == Min(Walk(n))
    <2>1. HashSelect(k, n) = Outs[n][i]  BY <1>12, HashSelects
    <2>2. i \in Walk(n)  BY <1>9, <1>12, MinNat
    <2> HIDE DEF i
    <2>3. i \in 1..len  BY <2>2 DEF Walk
    <2>4. i \in walk  BY <1>3, <1>10, <2>1, <2>3
    <2>5. tries = {}  BY <1>8, <1>12
    <2> HIDE DEF tries, walk
    <2>6. Min(walk) = i  BY <1>8, <1>9, <1>12, <2>4, MinStays DEF i
    <2> QED  BY <1>7, <2>1, <2>4, <2>5, <2>6
  <1>13. CASE Tries(k, n) = {} /\ Walk(n) = {}
    <2>1. HashSelect(k, n) = Outs[n][hash[<<n, k, MaxRetry>>] + 1]  BY <1>13, HashSelects
    <2>2. hash[<<n, k, MaxRetry>>] \in 0..len-1  BY <1>4 DEF HashInv
    <2>3. hash[<<n, k, MaxRetry>>] + 1 \in 1..len  BY <1>4, <2>2
    <2>4. hash[<<n, k, MaxRetry>>] + 1 \in Walk(n)  BY <2>1, <2>3 DEF Walk
    <2> QED  BY <1>13, <2>4
  <1> QED  BY <1>11, <1>12, <1>13

\* A report after which fewer outbounds are alive moves only the sessions
\* whose own outbound is not alive any more (ConsistentHashing.Select), for
\* any lists, reports, hash and number of retries.
THEOREM HashKeepsSessions == BalancerSpec => HashConsistent
  <1>1. BalancerInit => HashInv  BY HashInit
  <1>2. HashInv /\ [BalancerNext]_balancerVars => HashInv'  BY HashNext
  <1>3. HashInv /\ [BalancerNext]_balancerVars => HashStep  BY HashStays
  <1> QED  BY <1>1, <1>2, <1>3, PTL DEF BalancerSpec, HashConsistent, HashStep

-----------------------------------------------------------------------------
(* Balancer: types *)

\* At first the head of each list is selected.
LEMMA BalancerTypeInit ==
  ASSUME BalancerInit  PROVE BalancerTypeOK
  <1>1. ASSUME NEW n \in Net
        PROVE  /\ Head(Outs[n]) \in Outbound
               /\ Outs[n] \in [DOMAIN Outs[n] -> ToSet(Outs[n])]
               /\ Len(Outs[n]) - 1 \in 0..Len(Outs[n])-1
    <2>1. Outs[n] \in Seq(Outbound) /\ Outs[n] # <<>>  BY FilterFacts
    <2>2. Len(Outs[n]) \in Nat \ {0}  BY OutsFacts
    <2>3. Head(Outs[n]) \in Outbound  BY <2>1
    <2>4. Outs[n] \in [DOMAIN Outs[n] -> ToSet(Outs[n])]  BY <2>1 DEF ToSet
    <2>5. Len(Outs[n]) - 1 \in 0..Len(Outs[n])-1  BY <2>2
    <2> QED  BY <2>3, <2>4, <2>5
  <1>2. selected \in [Net -> Outbound]  BY <1>1 DEF BalancerInit
  <1>3. \A n \in Net : sorted[n] \in [DOMAIN Outs[n] -> ToSet(Outs[n])]
    BY <1>1 DEF BalancerInit
  <1>4. \A n \in Net : maxAcceptableIndex[n] \in 0..Len(Outs[n])-1  BY <1>1 DEF BalancerInit
  <1>5. 0 \in 0..Len(Outbounds)-1
    <2>1. Len(Outbounds) \in Nat \ {0}  BY MemberAssumption
    <2> QED  BY <2>1
  <1>6. 0 \in 0..TimeoutDelay  BY TimeoutTyped
  <1>7. idx \in [Net -> 0..Len(Outbounds)-1]  BY <1>5 DEF BalancerInit
  <1>8. maxAcceptableDelay \in [Net -> 0..TimeoutDelay]  BY <1>6 DEF BalancerInit
  <1>9. turns \in [Net -> Seq(Outbound)]  BY DEF BalancerInit
  <1> QED  BY <1>2, <1>3, <1>4, <1>7, <1>8, <1>9 DEF BalancerInit, BalancerTypeOK

\* An index of a network's list is one of the group's.
LEMMA IndexFits ==
  ASSUME NEW n \in Net, NEW i \in 0..Len(Outs[n])-1  PROVE i \in 0..Len(Outbounds)-1
  <1>1. Len(Outs[n]) \in Nat /\ Len(Outs[n]) <= Len(Outbounds) /\ Len(Outbounds) \in Nat
    BY OutsFacts, MemberAssumption
  <1> QED  BY <1>1

\* A conversion to 16 bits.
LEMMA Uint16Fits ==
  ASSUME NEW x \in Nat  PROVE Uint16(x) \in 0..TimeoutDelay
  <1>1. x % 65536 \in Nat /\ x % 65536 <= 65535  OBVIOUS
  <1>2. Uint16(x) \in Nat /\ Uint16(x) <= TimeoutDelay
    BY <1>1, TimeoutTyped, TimeoutValue DEF Uint16
  <1> QED  BY <1>2, TimeoutTyped

\* An acceptable delay is a 16-bit number.
LEMMA AcceptableFits ==
  ASSUME NEW d \in Nat  PROVE AcceptableDelay(d) \in 0..TimeoutDelay
  BY StretchedFacts, Uint16Fits DEF AcceptableDelay

\* The updates of the strategies.
LEMMA BalancerTypeUpdate ==
  ASSUME BalancerTypeOK, RotationInv, NEW rep \in [Outbound -> Report],
         UpdateLowest(rep) \/ UpdateRobin(rep) \/ UpdateHash(rep)
  PROVE  BalancerTypeOK'
  <1>0. ASSUME NEW n \in Net
        PROVE  MinDelay(Outs[n], rep).out \in Outbound /\ MinDelay(Outs[n], rep).delay \in Nat
    <2>1. IsLeast(MinDelay(Outs[n], rep), Outs[n], rep, Len(Outs[n]))
      BY OutsFacts, FilterFacts, MinDelayLeast
    <2>2. PICK j \in 1..Len(Outs[n]) :
             /\ MinDelay(Outs[n], rep).out = Outs[n][j]
             /\ MinDelay(Outs[n], rep).delay = ModifiedDelay(rep[Outs[n][j]])
      BY <2>1 DEF IsLeast
    <2>3. Outs[n][j] \in Outbound  BY OutsFacts
    <2> QED  BY <2>2, <2>3, DelayTyped
  <1>1. CASE UpdateLowest(rep)
    <2>1. selected' \in [Net -> Outbound]  BY <1>0, <1>1 DEF UpdateLowest
    <2>2. info' = rep /\ interrupted' \in BOOLEAN  BY <1>1 DEF UpdateLowest, Update
    <2>3. UNCHANGED <<strategy, lruCache, served, robinVars, hashVars>>
      BY <1>1 DEF UpdateLowest, Update
    <2> QED  BY <2>1, <2>2, <2>3 DEF BalancerTypeOK, robinVars, hashVars
  <1>2. CASE UpdateRobin(rep)
    <2>1. RotationInv'  BY <1>2, RotationUpdate
    <2>2. \A n \in Net : maxAcceptableIndex'[n] \in 0..Len(Outs[n])-1
      BY <2>1 DEF RotationInv, Rotation
    <2>3. ASSUME NEW n \in Net  PROVE sorted'[n] \in [DOMAIN Outs[n] -> ToSet(Outs[n])]
      <3>1. IsSort(sorted'[n], Outs[n], rep)
        <4>1. sorted'[n] = SortByDelay(Outs[n], rep)  BY <1>2 DEF UpdateRobin
        <4> QED  BY <4>1, OutsFacts, SortSorts
      <3>2. DOMAIN Outs[n] = 1..Len(Outs[n])  BY OutsFacts
      <3>3. /\ sorted'[n] \in [1..Len(Outs[n]) -> Outbound]
            /\ \A p \in 1..Len(Outs[n]) : \E i \in 1..Len(Outs[n]) : sorted'[n][p] = Outs[n][i]
        BY <3>1 DEF IsSort
      <3>4. \A i \in 1..Len(Outs[n]) : Outs[n][i] \in ToSet(Outs[n])  BY <3>2 DEF ToSet
      <3>5. \A p \in 1..Len(Outs[n]) : sorted'[n][p] \in ToSet(Outs[n])  BY <3>3, <3>4
      <3> QED  BY <3>2, <3>3, <3>5
    <2>4. turns' \in [Net -> Seq(Outbound)]  BY <1>2 DEF UpdateRobin
    <2>5. info' = rep /\ interrupted' \in BOOLEAN  BY <1>2 DEF UpdateRobin, Update
    <2>6. UNCHANGED <<strategy, lruCache, served, idx, lowestVars, hashVars>>
      BY <1>2 DEF UpdateRobin, Update
    <2> QED  BY <2>2, <2>3, <2>4, <2>5, <2>6 DEF BalancerTypeOK, lowestVars, hashVars
  <1>3. CASE UpdateHash(rep)
    <2>1. delays' \in [Outbound -> 0..TimeoutDelay]
      <3>1. \A o \in Outbound : rep[o].delay \in 0..TimeoutDelay  BY BalancerAssumption
      <3> QED  BY <1>3, <3>1 DEF UpdateHash
    <2>2. maxAcceptableDelay' \in [Net -> 0..TimeoutDelay]
      BY <1>0, <1>3, AcceptableFits DEF UpdateHash
    <2>3. info' = rep /\ interrupted' \in BOOLEAN  BY <1>3 DEF UpdateHash, Update
    <2>4. UNCHANGED <<strategy, lruCache, served, lowestVars, robinVars>>
      BY <1>3 DEF UpdateHash, Update
    <2> QED  BY <2>1, <2>2, <2>3, <2>4 DEF BalancerTypeOK, lowestVars, robinVars
  <1> QED  BY <1>1, <1>2, <1>3

\* Every step keeps the types.
LEMMA BalancerTypeNext ==
  ASSUME BalancerTypeOK, RotationInv, UpdatedInv, SessionInv, [BalancerNext]_balancerVars
  PROVE  BalancerTypeOK'
  <1> USE DEF lowestVars, robinVars, hashVars
  <1>1. ASSUME NEW rep \in [Outbound -> Report],
               UpdateLowest(rep) \/ UpdateRobin(rep) \/ UpdateHash(rep)
        PROVE  BalancerTypeOK'
    BY <1>1, BalancerTypeUpdate
  <1>2. ASSUME NEW n \in Net, SelectRobin(n)  PROVE BalancerTypeOK'
    <2>1. RotationInv'  BY <1>2, RotationSelect
    <2>2. turns' \in [Net -> Seq(Outbound)]
      <3>1. turns \in [Net -> Seq(Outbound)]  BY DEF BalancerTypeOK
      <3>2. DOMAIN turns' = Net /\ turns' = [m \in Net |-> turns'[m]]
        BY <1>2, <3>1 DEF SelectRobin
      <3>3. \A m \in Net : turns'[m] \in Seq(Outbound)  BY <2>1 DEF RotationInv, Rotation
      <3> QED  BY <3>2, <3>3
    <2>3. idx' \in [Net -> 0..Len(Outbounds)-1]
      <3> DEFINE id == (idx[n] + 1) % (maxAcceptableIndex[n] + 1)
      <3>1. id \in 0..Len(Outs[n])-1
        <4>1. /\ idx[n] \in Nat /\ Len(Outs[n]) \in Nat
              /\ maxAcceptableIndex[n] \in 0..Len(Outs[n])-1
          BY OutsFacts DEF RotationInv, Rotation
        <4>2. maxAcceptableIndex[n] + 1 \in Nat \ {0} /\ idx[n] + 1 \in Nat  BY <4>1
        <4>3. id \in 0..maxAcceptableIndex[n]  BY <4>1, <4>2
        <4> QED  BY <4>1, <4>3
      <3>2. idx' = [idx EXCEPT ![n] = id]  BY <1>2 DEF SelectRobin
      <3> HIDE DEF id
      <3>3. id \in 0..Len(Outbounds)-1  BY <3>1, IndexFits
      <3> QED  BY <3>2, <3>3 DEF BalancerTypeOK
    <2>4. UNCHANGED <<strategy, info, interrupted, sorted, maxAcceptableIndex, selected,
                      delays, maxAcceptableDelay, lruCache, served>>
      BY <1>2 DEF SelectRobin
    <2> QED  BY <2>2, <2>3, <2>4 DEF BalancerTypeOK
  <1>3. ASSUME NEW k \in Key, NEW n \in Net, SelectSticky(k, n)  PROVE BalancerTypeOK'
    <2>1. SessionInv'  BY <1>3, SessionSticky
    <2>2. lruCache' \in [Key -> 0..Len(Outbounds)-1 \cup {None}]
      <3>1. PICK final \in 0..Len(Outs[n])-1 :
               lruCache' = lruCache \/ lruCache' = [lruCache EXCEPT ![k] = final]
        BY <1>3 DEF SelectSticky
      <3>2. final \in 0..Len(Outbounds)-1  BY IndexFits
      <3> QED  BY <3>1, <3>2 DEF BalancerTypeOK
    <2>3. UNCHANGED <<strategy, info, interrupted, lowestVars, robinVars, hashVars>>
      BY <1>3 DEF SelectSticky
    <2> QED  BY <2>1, <2>2, <2>3 DEF BalancerTypeOK, SessionInv
  <1>4. ASSUME NEW k \in Key, SessionExpires(k)  PROVE BalancerTypeOK'
    BY <1>4 DEF SessionExpires, BalancerTypeOK
  <1>5. CASE UNCHANGED balancerVars  BY <1>5 DEF balancerVars, BalancerTypeOK
  <1> QED  BY <1>1, <1>2, <1>3, <1>4, <1>5 DEF BalancerNext

\* The types of the balancer's state: no strategy ever holds an index beyond
\* its lists or a delay of more than 16 bits (New..., UpdateOutboundsInfo and
\* Select of the four strategies), for any lists, reports and ratio.
THEOREM BalancerTyped ==  BalancerSpec => []BalancerTypeOK
  <1>1. BalancerInit => SessionInv /\ BalancerTypeOK  BY SessionInit, BalancerTypeInit
  <1>2. SessionInv /\ [BalancerNext]_balancerVars => SessionInv'  BY SessionNext
  <1>3. BalancerTypeOK /\ RotationInv /\ UpdatedInv /\ SessionInv /\ [BalancerNext]_balancerVars
           => BalancerTypeOK'
    BY BalancerTypeNext
  <1> QED  BY <1>1, <1>2, <1>3, RotationAlways, PTL DEF BalancerSpec
=============================================================================
