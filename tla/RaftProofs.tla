------------------------------ MODULE RaftProofs -----------------------------
(***************************************************************************)
(* Proofs about the quorums of clustering/generic/raft_core.hpp, for every  *)
(* finite set of voting members.  Election safety and the safety of a       *)
(* membership change both come down to them: two sets of members that are   *)
(* each enough to decide always share a voter.                              *)
(***************************************************************************)
EXTENDS RaftLog, FiniteSetTheorems, TLAPS

\* Two quorums of one raft_config_t share a voting member.
LEMMA ConfigQuorumsMeet ==
  ASSUME NEW c, IsFiniteSet(c.voting_members), NEW S, NEW T,
         ConfigQuorum(c, S), ConfigQuorum(c, T)
  PROVE  S \cap T \cap c.voting_members # {}
<1> DEFINE V == c.voting_members
           A == V \cap S
           B == V \cap T
<1> HIDE DEF V
<1>0. IsFiniteSet(V) /\ 2 * Cardinality(A) > Cardinality(V) /\ 2 * Cardinality(B) > Cardinality(V)
  BY DEF V, ConfigQuorum
<1> SUFFICES ASSUME A \cap B = {} PROVE FALSE
  BY DEF V
<1>1. IsFiniteSet(A) /\ IsFiniteSet(B)
  BY <1>0, FS_Subset
<1>2. Cardinality(A \cup B) = Cardinality(A) + Cardinality(B) - Cardinality(A \cap B)
  BY <1>1, FS_Union
<1>3. Cardinality(A \cap B) = 0
  BY FS_EmptySet
<1>4. IsFiniteSet(A \cup B) /\ Cardinality(A \cup B) <= Cardinality(V)
  BY <1>0, FS_Subset
<1>5. /\ Cardinality(A) \in Nat /\ Cardinality(B) \in Nat
      /\ Cardinality(V) \in Nat /\ Cardinality(A \cup B) \in Nat
  BY <1>0, <1>1, <1>4, FS_CardinalityType
<1> HIDE DEF A, B
<1> QED
  BY <1>0, <1>2, <1>3, <1>4, <1>5

\* The voting members of every part of a complex configuration are finite.
FiniteVoters(cc) == \A c \in Parts(cc) : IsFiniteSet(c.voting_members)

\* Whenever is_quorum of raft_core.hpp accepts two sets of members for two
\* configurations that have a part in common, some voter of that part is in
\* both sets.  Successive configurations of a membership change (C_old, then
\* C_old and C_new jointly, then C_new) do have a part in common.
THEOREM QuorumsMeet ==
  ASSUME NEW cc, NEW dd, FiniteVoters(cc), NEW c \in Parts(cc) \cap Parts(dd),
         NEW S, NEW T, is_quorum(cc, S), is_quorum(dd, T)
  PROVE  S \cap T \cap c.voting_members # {}
<1>1. ConfigQuorum(c, S) /\ ConfigQuorum(c, T)
  BY DEF is_quorum
<1>2. IsFiniteSet(c.voting_members)
  BY DEF FiniteVoters
<1> QED
  BY <1>1, <1>2, ConfigQuorumsMeet

\* What candidate_run_election relies on: no two candidates can each have been
\* voted for by a quorum of the same configuration without a member having
\* voted for both.
THEOREM OneWinnerPerVote ==
  ASSUME NEW cc, FiniteVoters(cc), NEW vote, NEW a, NEW b,
         is_quorum(cc, {i \in get_all_members(cc) : vote[i] = a}),
         is_quorum(cc, {i \in get_all_members(cc) : vote[i] = b})
  PROVE  a = b
<1>1. cc.config \in Parts(cc) \cap Parts(cc)
  BY DEF Parts
<1> QED
  BY <1>1, QuorumsMeet

\* What leader_continue_reconfiguration relies on: during a joint consensus
\* neither the old nor the new configuration can decide without the other, so
\* a joint quorum meets every quorum of the old configuration and every quorum
\* of the new one.
THEOREM JointConsensusBridges ==
  ASSUME NEW c, NEW d, c # NoConfig, d # NoConfig,
         IsFiniteSet(c.voting_members), IsFiniteSet(d.voting_members),
         NEW S, is_quorum(Joint(c, d), S), NEW T
  PROVE  /\ is_quorum(Simple(c), T) => S \cap T \cap c.voting_members # {}
         /\ is_quorum(Simple(d), T) => S \cap T \cap d.voting_members # {}
<1>1. /\ Parts(Joint(c, d)) = {c, d}
      /\ Parts(Simple(c)) = {c} /\ Parts(Simple(d)) = {d}
  BY DEF Parts, Joint, Simple
<1>2. FiniteVoters(Joint(c, d))
  BY <1>1 DEF FiniteVoters
<1>3. ASSUME is_quorum(Simple(c), T) PROVE S \cap T \cap c.voting_members # {}
  BY <1>1, <1>2, <1>3, QuorumsMeet
<1>4. ASSUME is_quorum(Simple(d), T) PROVE S \cap T \cap d.voting_members # {}
  BY <1>1, <1>2, <1>4, QuorumsMeet
<1> QED
  BY <1>3, <1>4

\* A quorum of a complex configuration has a member that may become leader.
THEOREM QuorumHasValidLeader ==
  ASSUME NEW cc, FiniteVoters(cc), NEW S, is_quorum(cc, S)
  PROVE  \E i \in S : is_valid_leader(cc, i)
<1>1. cc.config \in Parts(cc) \cap Parts(cc)
  BY DEF Parts
<1>2. S \cap S \cap cc.config.voting_members # {}
  BY <1>1, QuorumsMeet
<1> QED
  BY <1>1, <1>2 DEF is_valid_leader
==============================================================================
