---------------------------- MODULE GroupMembers ----------------------------
(***************************************************************************)
(* What the URL test group and the balancer know of their outbounds: the   *)
(* list of the options, the networks each one supports, and delays in      *)
(* 16-bit milliseconds.                                                    *)
(***************************************************************************)
EXTENDS Integers, Sequences, SequencesExt

CONSTANTS Outbounds,  \* the group's outbounds, in the order of the options
          Supports,   \* the networks each outbound supports
          None

Net == {"tcp", "udp"}
Outbound == ToSet(Outbounds)
TimeoutDelay == 65535
Uint16(x) == x % 65536

ASSUME MemberAssumption ==
    /\ Outbounds \in Seq(Outbound) /\ Outbounds # <<>>
    /\ Supports \in [Outbound -> SUBSET Net]
    /\ None \notin Outbound
=============================================================================
