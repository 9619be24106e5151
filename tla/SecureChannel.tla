---------------------------- MODULE SecureChannel ----------------------------
(***************************************************************************)
(* What an established session promises its two users, whatever happens on *)
(* the way: each party hands over plaintexts, which are numbered, and the  *)
(* other is given each of them at most once, in any order, and nothing     *)
(* else.                                                                   *)
(***************************************************************************)
EXTENDS Naturals, Sequences, Functions

CONSTANTS Alice, Bob

VARIABLES
    sent,       \* sent[p]: how many plaintexts p has handed over
    received    \* received[p]: the plaintexts p was given, in that order

vars == <<sent, received>>

Party == {Alice, Bob}

Peer(p) == IF p = Alice THEN Bob ELSE Alice

Init ==
    /\ sent = [p \in Party |-> 0]
    /\ received = [p \in Party |-> <<>>]

Send(p) ==
    /\ sent' = [sent EXCEPT ![p] = @ + 1]
    /\ UNCHANGED received

Deliver(p, n) ==
    /\ n \in 1 .. sent[Peer(p)]
    /\ n \notin Range(received[p])
    /\ received' = [received EXCEPT ![p] = Append(@, n)]
    /\ UNCHANGED sent

Next == \E p \in Party : Send(p) \/ \E n \in 1 .. sent[Peer(p)] : Deliver(p, n)

Spec == Init /\ [][Next]_vars
=============================================================================
