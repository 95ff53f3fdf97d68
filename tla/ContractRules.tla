---------------------------- MODULE ContractRules ----------------------------
(***************************************************************************)
(* The decisions about one contract: calculate_contracts.cc, which the      *)
(* coordinator runs, and ack_counter_t of exec_primary.cc, by which a       *)
(* primary knows that a write is safe.                                      *)
(*                                                                          *)
(* A contract covers one region.  temp_voters = {} and primary = Nil stand  *)
(* for the absent optionals; an absent ack has the state "none".  The code  *)
(* breaks ties by the order of the servers' uuids, which mean nothing, so   *)
(* an operator yields the set of the outcomes of all those orders.          *)
(* after_emergency_repair, which only a manual override sets, is left out.  *)
(***************************************************************************)
EXTENDS Naturals, FiniteSets, FiniteSetsExt

CONSTANTS Nil     \* no server

Contract(replicas, voters, temp_voters, primary, hand_over) ==
    [replicas |-> replicas, voters |-> voters, temp_voters |-> temp_voters,
     primary |-> primary, hand_over |-> hand_over]

NoAck == [state |-> "none"]

IsMajority(S, of) == 2 * Cardinality(S \cap of) > Cardinality(of)

(* A mutant: temp_voters are not asked. *)
SafeOnVoters(c, servers) == c.primary \in servers /\ IsMajority(servers, c.voters)

(* ack_counter_t: the acks of these servers make a write safe under c. *)
is_safe(c, servers) ==
    /\ c.primary \in servers
    /\ IsMajority(servers, c.voters)
    /\ c.temp_voters # {} => IsMajority(servers, c.temp_voters)

(* A primary may report that it is ready once these servers are in sync. *)
is_contract_ackable(c, servers) ==
    /\ c.hand_over # Nil => c.hand_over \in servers
    /\ is_safe(c, servers)

(* A server that the coordinator cannot see is assumed to see everyone.      *)
(* linked are the servers that it sees and that see one another.             *)
invisible_to_majority_of_set(target, judges, linked) ==
    LET judging == IF target \in linked THEN judges ELSE judges \ linked
    IN  ~ (Cardinality(judging) > Cardinality(judges) \div 2)

is_streaming(c, acks, server) ==
    \/ acks[server].state = "secondary_streaming"
    \/ c.primary = server /\ acks[server] # NoAck

(* How many voters, those that do not stream first, are taken out of n:      *)
(* num_streaming is the number of streaming voters at the start of the loop. *)
RemovableCount(n, idle, streaming, num_streaming, min_size) ==
    LET mayRemove(i) ==
            /\ (IF i <= idle THEN num_streaming ELSE num_streaming - 1)
                   > (n - i) \div 2
            /\ n - i >= min_size
    IN  Max({i \in 0 .. idle + streaming : \A j \in 1 .. i : mayRemove(j)})

(* The voter sets that may be staged in temp_voters: config's voters that    *)
(* stream come in, and those that config does not want leave.                *)
StagedVoters(c, config, acks) ==
    LET added == {s \in config.voters \ c.voters : is_streaming(c, acks, s)}
        grown == c.voters \cup added
        streaming == {s \in grown : is_streaming(c, acks, s)}
        unwanted == grown \ config.voters
        idle == unwanted \ streaming
        k == RemovableCount(Cardinality(grown), Cardinality(idle),
                            Cardinality(unwanted \cap streaming),
                            Cardinality(streaming),
                            Min({Cardinality(c.voters), Cardinality(config.voters)}))
    IN  {grown \ r : r \in {r \in kSubset(k, unwanted) :
                                r \subseteq idle \/ idle \subseteq r}}

IsReady(c, acks) == c.primary # Nil /\ acks[c.primary].state = "primary_ready"

(* The next voters and temp_voters. *)
NextVoters(c, config, acks) ==
    IF c.temp_voters # {}
    THEN {IF IsReady(c, acks) THEN [voters |-> c.temp_voters, temp_voters |-> {}]
          ELSE [voters |-> c.voters, temp_voters |-> c.temp_voters]}
    ELSE {[voters |-> c.voters, temp_voters |-> IF v = c.voters THEN {} ELSE v] :
             v \in IF c.voters = config.voters THEN {c.voters}
                   ELSE StagedVoters(c, config, acks)}

VisibleVoters(v, linked) ==
    {s \in v.voters \cup v.temp_voters :
        /\ ~ invisible_to_majority_of_set(s, v.voters, linked)
        /\ v.temp_voters # {} =>
               ~ invisible_to_majority_of_set(s, v.temp_voters, linked)}

(* k servers that are no further than a candidate suffice to elect it. *)
HalfSuffices(k, n) == k >= n \div 2

Suffices(k, n) == k > n \div 2

(* A mutant: any visible voter that answers may become primary. *)
FirstAnswer(config, acks, v, visible) ==
    LET candidates == {s \in v.voters \cap visible : acks[s].state = "secondary_need_primary"}
    IN  IF candidates = {} THEN {Nil} ELSE candidates

(* Who may become primary when there is none: a visible voter that is as far *)
(* along the current branch as a majority of the voters, and config's choice *)
(* if that is one of them or only has not answered yet.                      *)
ElectedPrimaries(config, acks, v, visible) ==
    LET candidates == {s \in v.voters : acks[s].state = "secondary_need_primary"}
        ahead(s) == {r \in candidates :
                        acks[r].common_ancestor <= acks[s].common_ancestor}
        eligible == {s \in candidates \cap visible :
                        Suffices(Cardinality(ahead(s)), Cardinality(v.voters))}
    IN  IF config.primary \in eligible THEN {config.primary}
        ELSE IF \/ eligible = {}
                \/ config.primary \in visible /\ acks[config.primary] = NoAck
        THEN {Nil}
        ELSE {s \in eligible : \A r \in eligible :
                  acks[r].common_ancestor <= acks[s].common_ancestor}

(* A mutant: a primary that is visible stays, whoever should be primary. *)
StaysPrimary(c, config, acks, visible, replicas) ==
    [primary |-> IF c.primary \in visible \cap replicas THEN c.primary ELSE Nil,
     hand_over |-> Nil]

(* What becomes of a primary, and of the server it hands over to. *)
KeptPrimary(c, config, acks, visible, replicas) ==
    LET kept(hand_over) == [primary |-> c.primary, hand_over |-> hand_over]
        gone == [primary |-> Nil, hand_over |-> Nil]
    IN  IF c.primary \notin visible \/ c.primary \notin replicas THEN gone
        ELSE IF c.primary = config.primary THEN kept(Nil)
        ELSE IF c.hand_over # config.primary
        THEN kept(IF /\ acks[config.primary].state = "secondary_streaming"
                     /\ config.primary \in visible
                  THEN config.primary ELSE Nil)
        ELSE IF acks[c.primary].state = "primary_ready" THEN gone
        ELSE kept(IF config.primary \in visible THEN c.hand_over ELSE Nil)

(* A mutant: replicas leave when config drops them, voters or not. *)
ConfigReplicas(c, config, v) == config.replicas

NextReplicas(c, config, v) ==
    (c.replicas \cup config.replicas)
        \ {s \in c.replicas : s \notin config.replicas \cup v.voters \cup v.temp_voters}

(* The primary and hand_over that may follow those of c. *)
NextPrimaries(c, config, acks, v, visible, replicas) ==
    IF c.primary # Nil THEN {KeptPrimary(c, config, acks, visible, replicas)}
    ELSE {[primary |-> p, hand_over |-> Nil] :
             p \in ElectedPrimaries(config, acks, v, visible)}

(* The contracts that may follow c, links being the sets that linked may be. *)
calculate_contract(c, config, acks, links) ==
    UNION {LET replicas == NextReplicas(c, config, v)
           IN  UNION {{Contract(replicas, v.voters, v.temp_voters, l.primary, l.hand_over) :
                          l \in NextPrimaries(c, config, acks, v, visible, replicas)}
                      : visible \in {VisibleVoters(v, linked) : linked \in links}}
           : v \in NextVoters(c, config, acks)}
==============================================================================
