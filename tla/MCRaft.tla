------------------------------- MODULE MCRaft --------------------------------
(***************************************************************************)
(* Small instances of RaftMember: who takes part, who votes at first, what  *)
(* is proposed, and the bounds on elections, connections and crashes.       *)
(***************************************************************************)
EXTENDS RaftMember

CONSTANTS a, b, c

ABC == {a, b, c}
AB == {a, b}
AC == {a, c}
JustC == {c}
None == {}

(* configurations *)
AllVote == Config({a, b, c}, {})
OnlyA == Config({a}, {})
OnlyB == Config({b}, {})
BothVote == Config({a, b}, {})
ListenerB == Config({a}, {b})

Reconfigurations == {BothVote, OnlyB}

(* proposals *)
ChangeOrNoop == {"x", Nil}

(* candidates *)
AorB == [t \in 1 .. MaxTerm |-> IF t < 3 THEN {a, b} ELSE {}]
InTurns == [t \in 1 .. MaxTerm |-> IF t = 2 THEN {a} ELSE {b}]
JustA == [t \in 1 .. MaxTerm |-> {a}]

(* connections: all, or a network in which a reaches only c *)
Everyone == Members \X Members
OneWay == {<<a, c>>, <<b, c>>, <<b, a>>}
==============================================================================
