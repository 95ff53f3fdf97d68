--------------------------- MODULE ContractProofs ----------------------------
(***************************************************************************)
(* Proofs about the decisions of calculate_contracts.cc, for any number of  *)
(* servers.  An acknowledged write survives a change of voters and a        *)
(* fail-over because the servers that acknowledged it meet every majority   *)
(* that may elect a primary; and no decision breaks what                    *)
(* contract_t::sanity_check() asks of a contract.                           *)
(***************************************************************************)
EXTENDS ContractRules, FiniteSetTheorems, WellFoundedInduction, TLAPS

\* A majority of some servers shares one with any part of them that is large
\* enough to elect a primary.
LEMMA MajorityMeets ==
  ASSUME NEW V, IsFiniteSet(V), NEW S, NEW R, R \subseteq V,
         IsMajority(S, V), Suffices(Cardinality(R), Cardinality(V))
  PROVE  S \cap R # {}
<1> DEFINE A == S \cap V
<1> SUFFICES ASSUME A \cap R = {} PROVE FALSE
  OBVIOUS
<1>1. IsFiniteSet(A) /\ IsFiniteSet(R)
  BY FS_Subset
<1>2. Cardinality(A \cup R) = Cardinality(A) + Cardinality(R) - Cardinality(A \cap R)
  BY <1>1, FS_Union
<1>3. Cardinality(A \cap R) = 0
  BY FS_EmptySet
<1>4. IsFiniteSet(A \cup R) /\ Cardinality(A \cup R) <= Cardinality(V)
  BY FS_Subset
<1>5. /\ Cardinality(A) \in Nat /\ Cardinality(R) \in Nat
      /\ Cardinality(V) \in Nat /\ Cardinality(A \cup R) \in Nat
  BY <1>1, <1>4, FS_CardinalityType
<1>6. 2 * Cardinality(A) > Cardinality(V) /\ Cardinality(R) > Cardinality(V) \div 2
  BY DEF IsMajority, Suffices
<1> HIDE DEF A
<1> QED
  BY <1>2, <1>3, <1>4, <1>5, <1>6

\* What a voter reports about its data when it needs a primary.
Reported(acks, voters) ==
    \A s \in voters : acks[s].state = "secondary_need_primary" =>
                          acks[s].common_ancestor \in Nat

\* The servers of S that answer have every write up to timestamp t.
Have(acks, S, t) ==
    \A s \in S : acks[s].state = "secondary_need_primary" =>
                     acks[s].common_ancestor >= t

\* Whoever the loops of calculate_contract() that choose a primary elect, it
\* is a visible voter and has every write that a majority of the voters has.
THEOREM ElectedHasMajorityWrites ==
  ASSUME NEW v, IsFiniteSet(v.voters), NEW config, NEW acks, NEW visible,
         Reported(acks, v.voters), NEW S, IsMajority(S, v.voters),
         NEW t \in Nat, Have(acks, S, t),
         NEW p \in ElectedPrimaries(config, acks, v, visible), p # Nil
  PROVE  p \in v.voters \cap visible /\ acks[p].common_ancestor >= t
<1> DEFINE candidates == {s \in v.voters : acks[s].state = "secondary_need_primary"}
           ahead(s) == {r \in candidates :
                           acks[r].common_ancestor <= acks[s].common_ancestor}
<1>1. /\ p \in candidates \cap visible
      /\ Suffices(Cardinality(ahead(p)), Cardinality(v.voters))
  BY DEF ElectedPrimaries
<1>2. PICK r \in S : r \in ahead(p)
  <2>1. S \cap ahead(p) # {}
    <3>1. ahead(p) \subseteq v.voters
      OBVIOUS
    <3> HIDE DEF ahead, candidates
    <3> QED
      BY <1>1, <3>1, MajorityMeets
  <2> QED
    BY <2>1
<1>3. /\ acks[r].common_ancestor >= t
      /\ acks[r].common_ancestor <= acks[p].common_ancestor
  BY <1>2 DEF Have
<1>4. acks[r].common_ancestor \in Nat /\ acks[p].common_ancestor \in Nat
  BY <1>1, <1>2 DEF Reported
<1> QED
  BY <1>1, <1>3, <1>4

\* However calculate_contract() changes the voters, the servers whose acks
\* made a write safe under the old contract are a majority of the new voters:
\* voters are replaced only by temp_voters that is_safe() has asked as well.
THEOREM SafeUnderNextVoters ==
  ASSUME NEW c, NEW config, NEW acks, NEW S, is_safe(c, S),
         NEW v \in NextVoters(c, config, acks)
  PROVE  IsMajority(S, v.voters)
<1>1. CASE c.temp_voters # {} /\ IsReady(c, acks)
  <2>1. v.voters = c.temp_voters
    BY <1>1 DEF NextVoters
  <2> QED
    BY <1>1, <2>1 DEF is_safe
<1>2. CASE ~ (c.temp_voters # {} /\ IsReady(c, acks))
  <2>1. v.voters = c.voters
    BY <1>2 DEF NextVoters
  <2> QED
    BY <2>1 DEF is_safe
<1> QED
  BY <1>1, <1>2

\* A contract without a primary to which calculate_contract() gives one: the
\* new primary has every write that a majority of the voters has, and so has
\* a majority of the voters it will ask.  This is what keeps an acknowledged
\* write through a fail-over.
THEOREM FailOverKeepsWrites ==
  ASSUME NEW c, IsFiniteSet(c.voters), c.primary = Nil, NEW config, NEW acks,
         NEW links, Reported(acks, c.voters),
         NEW S, IsMajority(S, c.voters), NEW t \in Nat, Have(acks, S, t),
         NEW d \in calculate_contract(c, config, acks, links), d.primary # Nil
  PROVE  /\ d.primary \in d.voters /\ acks[d.primary].common_ancestor >= t
         /\ IsMajority(S, d.voters)
<1>1. PICK v \in NextVoters(c, config, acks) : \E linked \in links :
          \E l \in NextPrimaries(c, config, acks, v, VisibleVoters(v, linked),
                                 NextReplicas(c, config, v)) :
              d = Contract(NextReplicas(c, config, v), v.voters, v.temp_voters,
                           l.primary, l.hand_over)
  BY DEF calculate_contract
<1>2. PICK linked \in links :
          \E l \in NextPrimaries(c, config, acks, v, VisibleVoters(v, linked),
                                 NextReplicas(c, config, v)) :
              d = Contract(NextReplicas(c, config, v), v.voters, v.temp_voters,
                           l.primary, l.hand_over)
  BY <1>1
<1>3. d.voters = v.voters /\ d.primary \in ElectedPrimaries(config, acks, v, VisibleVoters(v, linked))
  BY <1>2 DEF NextPrimaries, Contract
<1>4. v.voters = c.voters
  BY DEF NextVoters, IsReady
<1> QED
  BY <1>3, <1>4, ElectedHasMajorityWrites

------------------------------------------------------------------------------
\* contract_t::sanity_check(), and that a contract has a voter.
Sane(c) ==
    /\ IsFiniteSet(c.replicas) /\ c.voters # {}
    /\ c.voters \subseteq c.replicas /\ c.temp_voters \subseteq c.replicas
    /\ c.primary \in c.replicas \cup {Nil}
    /\ c.hand_over \in c.replicas \cup {Nil}

SaneConfig(config) ==
    /\ IsFiniteSet(config.replicas)
    /\ config.voters \subseteq config.replicas /\ config.voters # {}

\* A set of natural numbers has a smallest one.
LEMMA SmallestOf ==
  ASSUME NEW S, S \subseteq Nat, S # {}
  PROVE  \E x \in S : \A y \in S : x <= y
<1>1. PICK x \in S : \A y \in S : <<y, x>> \notin OpToRel(<, Nat)
  BY NatLessThanWellFounded, WFMin, Zenon
<1>2. \A y \in S : ~ (y < x)
  BY <1>1, Zenon DEF OpToRel
<1> QED
  BY <1>2

\* A bounded set of natural numbers contains its Max.
LEMMA LargestOf ==
  ASSUME NEW m \in Nat, NEW S, S \subseteq 0 .. m, S # {}
  PROVE  Max(S) \in S
<1> DEFINE T == {m - x : x \in S}
<1>1. T \subseteq Nat /\ T # {}
  <2>1. \A x \in S : m - x \in Nat
    OBVIOUS
  <2> QED
    BY <2>1
<1>2. PICK z \in T : \A y \in T : z <= y
  BY <1>1, SmallestOf
<1>3. \E x \in S : \A y \in S : x >= y
  BY <1>2
<1> QED
  BY <1>3 DEF Max

\* The loop over to_remove takes out no more voters than there are to remove,
\* and leaves at least min_size of them.
LEMMA RemovableCountBound ==
  ASSUME NEW n \in Nat, NEW idle \in Nat, NEW streaming \in Nat,
         NEW num_streaming \in Nat, NEW min_size \in Nat, n >= min_size
  PROVE  LET k == RemovableCount(n, idle, streaming, num_streaming, min_size)
         IN  k \in Nat /\ n - k >= min_size
<1> DEFINE mayRemove(i) ==
               /\ (IF i <= idle THEN num_streaming ELSE num_streaming - 1) > (n - i) \div 2
               /\ n - i >= min_size
           counts == {i \in 0 .. idle + streaming : \A j \in 1 .. i : mayRemove(j)}
           k == Max(counts)
<1>1. k = RemovableCount(n, idle, streaming, num_streaming, min_size)
  BY DEF RemovableCount
<1>2. k \in counts
  <2>1. counts \subseteq 0 .. idle + streaming /\ 0 \in counts
    OBVIOUS
  <2>2. idle + streaming \in Nat
    OBVIOUS
  <2> HIDE DEF counts
  <2> QED
    BY <2>1, <2>2, LargestOf
<1> HIDE DEF k
<1>3. n - k >= min_size
  BY <1>2
<1> QED
  BY <1>1, <1>2, <1>3

\* Every set of voters that may be staged consists of old and configured
\* voters and is not empty.
LEMMA StagedVotersSane ==
  ASSUME NEW c, NEW config, NEW acks, Sane(c), SaneConfig(config),
         NEW w \in StagedVoters(c, config, acks)
  PROVE  w \subseteq c.voters \cup config.voters /\ w # {}
<1> DEFINE added == {s \in config.voters \ c.voters : is_streaming(c, acks, s)}
           grown == c.voters \cup added
           streaming == {s \in grown : is_streaming(c, acks, s)}
           unwanted == grown \ config.voters
           idle == unwanted \ streaming
           least == Min({Cardinality(c.voters), Cardinality(config.voters)})
           k == RemovableCount(Cardinality(grown), Cardinality(idle),
                               Cardinality(unwanted \cap streaming),
                               Cardinality(streaming), least)
<1>1. PICK r \in kSubset(k, unwanted) : w = grown \ r
  BY DEF StagedVoters
<1>2. r \subseteq grown /\ Cardinality(r) = k
  BY <1>1 DEF kSubset
<1>3. /\ IsFiniteSet(c.voters) /\ IsFiniteSet(config.voters) /\ IsFiniteSet(grown)
      /\ IsFiniteSet(streaming) /\ IsFiniteSet(idle) /\ IsFiniteSet(unwanted \cap streaming)
  <2>1. IsFiniteSet(c.voters) /\ IsFiniteSet(config.voters)
    BY FS_Subset DEF Sane, SaneConfig
  <2>2. IsFiniteSet(added)
    BY <2>1, FS_Subset
  <2>3. IsFiniteSet(grown)
    BY <2>1, <2>2, FS_Union
  <2> HIDE DEF grown
  <2> QED
    BY <2>1, <2>3, FS_Subset
<1>4. least \in Nat \ {0} /\ Cardinality(grown) >= least
  <2> DEFINE x == Cardinality(c.voters)
             y == Cardinality(config.voters)
  <2>1. x \in Nat /\ y \in Nat /\ x # 0 /\ y # 0
    BY <1>3, FS_CardinalityType, FS_EmptySet DEF Sane, SaneConfig
  <2>2. x <= Cardinality(grown) /\ Cardinality(grown) \in Nat
    BY <1>3, FS_Subset, FS_CardinalityType
  <2> HIDE DEF x, y
  <2>3. Min({x, y}) \in {x, y} /\ Min({x, y}) <= x
    BY <2>1 DEF Min
  <2> QED
    BY <2>1, <2>2, <2>3 DEF x, y
<1>5. k \in Nat /\ Cardinality(grown) - k >= least
  <2>1. /\ Cardinality(grown) \in Nat /\ Cardinality(idle) \in Nat
        /\ Cardinality(unwanted \cap streaming) \in Nat /\ Cardinality(streaming) \in Nat
    BY <1>3, FS_CardinalityType
  <2> HIDE DEF least, grown, idle, unwanted, streaming
  <2> QED
    BY <1>4, <2>1, RemovableCountBound
<1>6. r # grown
  <2> HIDE DEF k, grown, least
  <2> QED
    BY <1>2, <1>3, <1>4, <1>5, FS_CardinalityType
<1> QED
  BY <1>1, <1>2, <1>6

\* Every next set of voters, and of temp_voters, consists of servers that are
\* replicas under the next contract.
LEMMA NextVotersSane ==
  ASSUME NEW c, NEW config, NEW acks, Sane(c), SaneConfig(config),
         NEW v \in NextVoters(c, config, acks)
  PROVE  /\ v.voters # {}
         /\ v.voters \cup v.temp_voters \subseteq NextReplicas(c, config, v)
<1>1. CASE c.temp_voters # {}
  BY <1>1 DEF NextVoters, NextReplicas, Sane
<1>2. CASE c.temp_voters = {}
  <2>1. PICK w \in IF c.voters = config.voters THEN {c.voters}
                   ELSE StagedVoters(c, config, acks) :
            v = [voters |-> c.voters, temp_voters |-> IF w = c.voters THEN {} ELSE w]
    BY <1>2 DEF NextVoters
  <2>2. w \subseteq c.voters \cup config.voters
    BY <2>1, StagedVotersSane
  <2> QED
    BY <2>1, <2>2 DEF NextReplicas, Sane, SaneConfig
<1> QED
  BY <1>1, <1>2

\* Whatever configuration is asked for, whatever the servers answer and
\* whoever is visible, calculate_contract() turns a contract that passes
\* contract_t::sanity_check() into contracts that do, with at least one voter.
THEOREM ContractsStaySane ==
  ASSUME NEW c, NEW config, NEW acks, NEW links, Sane(c), SaneConfig(config),
         NEW d \in calculate_contract(c, config, acks, links)
  PROVE  Sane(d)
<1>1. PICK v \in NextVoters(c, config, acks) : \E linked \in links :
          \E l \in NextPrimaries(c, config, acks, v, VisibleVoters(v, linked),
                                 NextReplicas(c, config, v)) :
              d = Contract(NextReplicas(c, config, v), v.voters, v.temp_voters,
                           l.primary, l.hand_over)
  BY DEF calculate_contract
<1> DEFINE replicas == NextReplicas(c, config, v)
<1>2. PICK linked \in links :
          \E l \in NextPrimaries(c, config, acks, v, VisibleVoters(v, linked), replicas) :
              d = Contract(replicas, v.voters, v.temp_voters, l.primary, l.hand_over)
  BY <1>1
<1> DEFINE visible == VisibleVoters(v, linked)
<1>3. PICK l \in NextPrimaries(c, config, acks, v, visible, replicas) :
          d = Contract(replicas, v.voters, v.temp_voters, l.primary, l.hand_over)
  BY <1>2
<1>4. v.voters # {} /\ v.voters \cup v.temp_voters \subseteq replicas
  BY NextVotersSane
<1>5. visible \subseteq replicas
  BY <1>4 DEF VisibleVoters
<1>6. IsFiniteSet(replicas)
  <2>1. IsFiniteSet(c.replicas \cup config.replicas)
    BY FS_Union DEF Sane, SaneConfig
  <2> QED
    BY <2>1, FS_Subset DEF NextReplicas
<1>7. l.primary \in replicas \cup {Nil} /\ l.hand_over \in replicas \cup {Nil}
  <2> HIDE DEF visible, replicas
  <2>1. CASE c.primary # Nil
    <3>1. l = KeptPrimary(c, config, acks, visible, replicas)
      BY <2>1 DEF NextPrimaries
    <3> QED
      BY <3>1, <1>5 DEF KeptPrimary
  <2>2. CASE c.primary = Nil
    <3>1. /\ l.primary \in ElectedPrimaries(config, acks, v, visible)
          /\ l.hand_over = Nil
      BY <2>2 DEF NextPrimaries
    <3>2. l.primary \in visible \cup {Nil}
      BY <3>1 DEF ElectedPrimaries
    <3> QED
      BY <3>1, <3>2, <1>5
  <2> QED
    BY <2>1, <2>2
<1> QED
  BY <1>3, <1>4, <1>6, <1>7 DEF Contract, Sane
==============================================================================
