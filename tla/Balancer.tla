------------------------------ MODULE Balancer ------------------------------
(***************************************************************************)
(* The balancer group (protocol/group/balancer): its four strategies, the  *)
(* worker that hands them the monitor's history after every group event,   *)
(* and Select, called by every new connection.  A strategy's mutex makes   *)
(* Select and the assignments of UpdateOutboundsInfo atomic.  LowestDelay  *)
(* and ConsistentHashing only read in Select: theirs are operators.        *)
(*                                                                         *)
(* Delays are 16-bit milliseconds.  The conversion of the acceptable delay *)
(* to uint16 drops the fraction and the higher bits, as the supported      *)
(* targets do; what they make of a negative ratio is not modelled.         *)
(***************************************************************************)
EXTENDS GroupMembers

CONSTANTS Report,     \* entries of OutboundsHistory: delay, from cache
          Key,        \* sessions: source and destination of a connection
          RatioNum,   \* DelayAcceptableRatio, a float64 without a default, is
          RatioDen,   \* RatioNum / RatioDen: 0 if unset, 2 in the app's own groups
          MaxRetry

ASSUME BalancerAssumption ==
    /\ IsInjective(Outbounds)
    /\ Report \subseteq [delay : 0..TimeoutDelay, cached : BOOLEAN]
    /\ RatioNum \in Nat /\ RatioDen \in Nat \ {0} /\ MaxRetry \in Nat
    /\ None \notin Nat \cup (Net \X Outbound)

VARIABLES strategy,
          info,         \* history: the report of the last update
          interrupted,  \* the last event made the worker interrupt connections
          selected,     \* LowestDelay: the outbound of each network
          sorted, maxAcceptableIndex, idx,         \* RoundRobin
          delays, maxAcceptableDelay,              \* ConsistentHashing, StickySession
          hash,         \* the outcomes of jumpHash, which depend on a random seed
          lruCache,     \* StickySession: the index of each session
          turns,        \* history: RoundRobin's last selections per network
          served        \* history: network and outbound a sticky session got last

lowestVars == <<selected>>
robinVars == <<sorted, maxAcceptableIndex, idx, turns>>
hashVars == <<delays, maxAcceptableDelay>>
balancerVars ==
    <<strategy, info, interrupted, lowestVars, robinVars, hashVars, hash, lruCache, served>>

Strategies == {"round-robin", "consistent-hashing", "sticky-sessions", "lowest-delay"}

-----------------------------------------------------------------------------
(* common.go *)

\* Untested counts as timed out; a delay from the cache as 20 seconds slower.
ModifiedDelay(h) ==
    LET d == IF h.delay = 0 THEN TimeoutDelay ELSE h.delay
    IN  IF h.cached /\ d < 20000 THEN d + 20000 ELSE d

\* All outbounds stand in for a network that none of them supports.
Filter(n) ==
    LET Keep(res, o) == IF n \in Supports[o] THEN Append(res, o) ELSE res
        res == FoldLeft(Keep, <<>>, Outbounds)
    IN  IF res = <<>> THEN Outbounds ELSE res

Outs == [n \in Net |-> Filter(n)]

\* The product is exact here, where float64 rounds it to 53 bits.
Stretched(d) == ((IF d < 100 THEN 100 ELSE d) * RatioNum) \div RatioDen
AcceptableDelay(d) == Uint16(Stretched(d))

\* A stable sort by delay: every outbound goes behind the faster ones and
\* behind the earlier ones that are as fast.
SortByDelay(outs, rep) ==
    LET d(i) == ModifiedDelay(rep[outs[i]])
        Before(i) == {j \in DOMAIN outs : d(j) < d(i) \/ (d(j) = d(i) /\ j < i)}
    IN  [p \in DOMAIN outs |->
            outs[CHOOSE i \in DOMAIN outs : Cardinality(Before(i)) = p - 1]]

\* Mutant: the last outbound that is slower than the bound.
MutAcceptableIndexPast(outs, rep) ==
    LET max == AcceptableDelay(ModifiedDelay(rep[outs[1]]))
    IN  Max({0} \cup {i - 1 : i \in {j \in DOMAIN outs : ModifiedDelay(rep[outs[j]]) >= max}})

\* The last index, counted from 0, that is fast enough; 0 if none is.
AcceptableIndex(outs, rep) ==
    LET max == AcceptableDelay(ModifiedDelay(rep[outs[1]]))
    IN  Max({0} \cup {i - 1 : i \in {j \in DOMAIN outs : ModifiedDelay(rep[outs[j]]) <= max}})

\* Outbound and delay of the minimum; of equals the last one wins.
MinDelay(outs, rep) ==
    LET Better(best, o) ==
            IF ModifiedDelay(rep[o]) <= best.delay
            THEN [delay |-> ModifiedDelay(rep[o]), out |-> o] ELSE best
    IN  FoldLeft(Better, [delay |-> TimeoutDelay, out |-> None], outs)

-----------------------------------------------------------------------------
\* New...: before the first update every outbound is acceptable to
\* RoundRobin and none is alive to the two hashing strategies.
BalancerInit ==
    /\ strategy \in Strategies
    /\ info = None
    /\ interrupted = FALSE
    /\ selected = [n \in Net |-> Head(Outs[n])]
    /\ sorted = Outs
    /\ maxAcceptableIndex = [n \in Net |-> Len(Outs[n]) - 1]
    /\ idx = [n \in Net |-> 0]
    /\ delays = None
    /\ maxAcceptableDelay = [n \in Net |-> 0]
    /\ hash \in {h \in [Net \X Key \X (0..MaxRetry) -> 0..Len(Outbounds)-1] :
                    \A x \in DOMAIN h :
                        IF strategy = "consistent-hashing"
                        THEN h[x] < Len(Outs[x[1]]) ELSE h[x] = 0}
    /\ lruCache = [k \in Key |-> None]
    /\ turns = [n \in Net |-> <<>>]
    /\ served = [k \in Key |-> None]

\* The worker received an event and read OutboundsHistory.
Update(s, rep) ==
    /\ strategy = s
    /\ info' = rep
    /\ UNCHANGED <<strategy, hash, lruCache, served>>

-----------------------------------------------------------------------------
(* LowestDelay *)

UpdateLowest(rep) ==
    /\ Update("lowest-delay", rep)
    /\ selected' = [n \in Net |-> MinDelay(Outs[n], rep).out]
    /\ interrupted' = (selected' # selected)
    /\ UNCHANGED <<robinVars, hashVars>>

\* What Select returns.
LowestSelect(n) == selected[n]

-----------------------------------------------------------------------------
(* RoundRobin *)

\* Connections are interrupted when the number of acceptable outbounds
\* changes; their order may change without that.
UpdateRobin(rep) ==
    /\ Update("round-robin", rep)
    /\ sorted' = [n \in Net |-> SortByDelay(Outs[n], rep)]
    /\ maxAcceptableIndex' = [n \in Net |-> AcceptableIndex(sorted'[n], rep)]
    /\ interrupted' = (maxAcceptableIndex' # maxAcceptableIndex)
    /\ turns' = [n \in Net |-> <<>>]
    /\ UNCHANGED <<idx, lowestVars, hashVars>>

\* Mutant: the index is cut off instead of wrapped around.
MutSelectRobinCutOff(n) ==
    /\ strategy = "round-robin"
    /\ LET length == maxAcceptableIndex[n] + 1
           id == IF idx[n] + 1 < length THEN idx[n] + 1 ELSE length - 1
           proxy == sorted[n][id + 1]
       IN  /\ idx' = [idx EXCEPT ![n] = id]
           /\ turns' = [turns EXCEPT ![n] =
                  Append(IF Len(@) = length THEN Tail(@) ELSE @, proxy)]
    /\ UNCHANGED <<strategy, info, interrupted, sorted, maxAcceptableIndex, lowestVars,
                   hashVars, hash, lruCache, served>>

SelectRobin(n) ==
    /\ strategy = "round-robin"
    /\ LET length == maxAcceptableIndex[n] + 1
           id == (idx[n] + 1) % length
           proxy == sorted[n][id + 1]
       IN  /\ idx' = [idx EXCEPT ![n] = id]
           /\ turns' = [turns EXCEPT ![n] =
                  Append(IF Len(@) = length THEN Tail(@) ELSE @, proxy)]
    /\ UNCHANGED <<strategy, info, interrupted, sorted, maxAcceptableIndex, lowestVars,
                   hashVars, hash, lruCache, served>>

-----------------------------------------------------------------------------
(* ConsistentHashing and StickySession *)

\* Connections are interrupted after every event.
UpdateHash(rep) ==
    /\ \/ Update("consistent-hashing", rep) \/ Update("sticky-sessions", rep)
    /\ delays' = [o \in Outbound |-> rep[o].delay]
    /\ maxAcceptableDelay' = [n \in Net |-> AcceptableDelay(MinDelay(Outs[n], rep).delay)]
    /\ interrupted' = TRUE
    /\ UNCHANGED <<lowestVars, robinVars>>

\* The delay as reported: an untested outbound, with delay 0, is alive.
Alive(o, n) == delays # None /\ delays[o] <= maxAcceptableDelay[n]

\* Mutant: the hash is taken over the outbounds that are alive.
MutHashSelectOverAlive(k, n) ==
    LET alive == SelectSeq(Outs[n], LAMBDA o : Alive(o, n))
    IN  IF alive = <<>> THEN Outs[n][hash[<<n, k, MaxRetry>>] + 1]
        ELSE alive[(hash[<<n, k, 0>>] % Len(alive)) + 1]

\* Mutant: without the walk over the whole list.
MutHashSelectNoWalk(k, n) ==
    LET tries == {i \in 0..MaxRetry-1 : Alive(Outs[n][hash[<<n, k, i>>] + 1], n)}
    IN  Outs[n][hash[<<n, k, IF tries # {} THEN Min(tries) ELSE MaxRetry>>] + 1]

\* The first outbound alive among maxRetry hashed ones, then in the list.
HashSelect(k, n) ==
    LET tries == {i \in 0..MaxRetry-1 : Alive(Outs[n][hash[<<n, k, i>>] + 1], n)}
        walk == {i \in DOMAIN Outs[n] : Alive(Outs[n][i], n)}
    IN  CASE tries # {} -> Outs[n][hash[<<n, k, Min(tries)>>] + 1]
          [] tries = {} /\ walk # {} -> Outs[n][Min(walk)]
          [] OTHER -> Outs[n][hash[<<n, k, MaxRetry>>] + 1]

\* Mutant: a moved session is not written back to the cache.
MutSelectStickyForgets(k, n) ==
    /\ strategy = "sticky-sessions"
    /\ \E start, final \in 0..Len(Outs[n])-1 :
          /\ lruCache[k] \in 0..Len(Outs[n])-1 => start = lruCache[k]
          /\ MaxRetry <= 1 \/ Alive(Outs[n][start + 1], n) => final = start
          /\ lruCache' = IF lruCache[k] # None THEN lruCache
                         ELSE [lruCache EXCEPT ![k] = final]
          /\ served' = [served EXCEPT ![k] = <<n, Outs[n][final + 1]>>]
    /\ UNCHANGED <<strategy, info, interrupted, lowestVars, robinVars, hashVars, hash>>

\* A session starts from its cached index, or from a hash with the time; when
\* that outbound is not alive, up to maxRetry - 1 more hashes end at any
\* index.  A cached index beyond the list is neither used nor replaced while
\* the hash finds a live outbound.
SelectSticky(k, n) ==
    /\ strategy = "sticky-sessions"
    /\ \E start, final \in 0..Len(Outs[n])-1 :
          /\ lruCache[k] \in 0..Len(Outs[n])-1 => start = lruCache[k]
          /\ MaxRetry <= 1 \/ Alive(Outs[n][start + 1], n) => final = start
          /\ lruCache' = IF MaxRetry > 1 /\ Alive(Outs[n][start + 1], n) /\ lruCache[k] # None
                         THEN lruCache ELSE [lruCache EXCEPT ![k] = final]
          /\ served' = [served EXCEPT ![k] = <<n, Outs[n][final + 1]>>]
    /\ UNCHANGED <<strategy, info, interrupted, lowestVars, robinVars, hashVars, hash>>

\* The cache drops a session: its lifetime is over, or it is full.
SessionExpires(k) ==
    /\ lruCache[k] # None
    /\ lruCache' = [lruCache EXCEPT ![k] = None]
    /\ served' = [served EXCEPT ![k] = None]
    /\ UNCHANGED <<strategy, info, interrupted, lowestVars, robinVars, hashVars, hash>>

-----------------------------------------------------------------------------
BalancerNext ==
    \/ \E rep \in [Outbound -> Report] :
          UpdateLowest(rep) \/ UpdateRobin(rep) \/ UpdateHash(rep)
    \/ \E n \in Net : SelectRobin(n)
    \/ \E k \in Key, n \in Net : SelectSticky(k, n)
    \/ \E k \in Key : SessionExpires(k)

BalancerSpec == BalancerInit /\ [][BalancerNext]_balancerVars

-----------------------------------------------------------------------------
(* Properties *)

BalancerTypeOK ==
    /\ strategy \in Strategies
    /\ info \in [Outbound -> Report] \cup {None}
    /\ interrupted \in BOOLEAN
    /\ selected \in [Net -> Outbound]
    /\ \A n \in Net : sorted[n] \in [DOMAIN Outs[n] -> ToSet(Outs[n])]
    /\ \A n \in Net : maxAcceptableIndex[n] \in 0..Len(Outs[n])-1
    /\ idx \in [Net -> 0..Len(Outbounds)-1]
    /\ delays \in [Outbound -> 0..TimeoutDelay] \cup {None}
    /\ maxAcceptableDelay \in [Net -> 0..TimeoutDelay]
    /\ lruCache \in [Key -> 0..Len(Outbounds)-1 \cup {None}]
    /\ turns \in [Net -> Seq(Outbound)]
    /\ served \in [Key -> (Net \X Outbound) \cup {None}]

\* A least delay of a network's outbounds in the last report.
BestDelay(n) ==
    LET d(o) == ModifiedDelay(info[o])
    IN  d(CHOOSE o \in ToSet(Outs[n]) : \A p \in ToSet(Outs[n]) : d(o) <= d(p))

\* LowestDelay: no outbound of the network is faster than the selected one.
LowestFollows ==
    info # None /\ strategy = "lowest-delay" =>
        \A n \in Net : /\ LowestSelect(n) \in ToSet(Outs[n])
                       /\ ModifiedDelay(info[LowestSelect(n)]) = BestDelay(n)

\* RoundRobin: the outbounds in rotation are the fastest one and exactly
\* those within the acceptable delay.
RobinFollows ==
    info # None /\ strategy = "round-robin" =>
        \A n \in Net :
            LET d(o) == ModifiedDelay(info[o])
                used == {sorted[n][i] : i \in 1..maxAcceptableIndex[n]+1}
                fast == {o \in ToSet(Outs[n]) : d(o) <= AcceptableDelay(BestDelay(n))}
            IN  /\ fast \subseteq used
                /\ used \subseteq fast \cup {sorted[n][1]}
                /\ d(sorted[n][1]) = BestDelay(n)

\* What the strategies route to follows the last report.
FollowsReport == LowestFollows /\ RobinFollows

\* RoundRobin is fair: between two reports no outbound gets a second
\* connection of a network before every outbound in rotation got one, even
\* when the report before left the index beyond the rotation.
RobinFair ==
    \A n \in Net : IsInjective(turns[n])

\* ConsistentHashing routes a session to an outbound that is alive if there
\* is one, and with a ratio of 1 or more the fastest outbound is alive unless
\* the acceptable delay exceeds 16 bits.
HashSound ==
    \A n \in Net :
        /\ strategy = "consistent-hashing" =>
              \A k \in Key :
                 (\E o \in ToSet(Outs[n]) : Alive(o, n)) => Alive(HashSelect(k, n), n)
        /\ LET min == MinDelay(Outs[n], info)
           IN  /\ delays # None
               /\ RatioNum >= RatioDen /\ Stretched(min.delay) <= TimeoutDelay
               => Alive(min.out, n)

\* Consistency: a report after which fewer outbounds are alive moves only the
\* sessions whose own outbound is not alive any more.
HashConsistent ==
    [][\A k \in Key, n \in Net :
          /\ delays # None /\ delays' # None
          /\ \A o \in Outbound : Alive(o, n)' => Alive(o, n)
          /\ Alive(HashSelect(k, n), n)
          /\ delays'[HashSelect(k, n)] <= maxAcceptableDelay'[n]
          => HashSelect(k, n)' = HashSelect(k, n)]_balancerVars

\* With at least two retries a sticky session stays on its outbound while
\* that is alive and the cache keeps it, unless a connection of the same session over the other network
\* came in between or left an index beyond this network's list.
SessionsStick ==
    [][\A k \in Key :
          /\ MaxRetry > 1 /\ strategy = "sticky-sessions"
          /\ served[k] # None /\ served'[k] # None /\ served'[k] # served[k]
          => \/ served'[k][1] # served[k][1]
             \/ ~Alive(served[k][2], served[k][1])
             \/ lruCache[k] >= Len(Outs[served[k][1]])]_balancerVars
=============================================================================
