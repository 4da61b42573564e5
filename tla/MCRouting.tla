------------------------------ MODULE MCRouting ------------------------------
(***************************************************************************)
(* Instance of Routing for TLC.                                             *)
(***************************************************************************)
EXTENDS Routing

CONSTANTS memory, belief, editor, crash, alice, bob

Belief ==
    [id |-> belief, slot |-> editor, statement |-> alice, type |-> "preference", kind |-> Nil, level |-> "durable_memory",
     memories |-> <<>>, claims |-> <<>>, correction |-> FALSE, eligible |-> FALSE,
     confidence |-> 70, sources |-> 1]

\* Without an id of its own, against the belief and a memory.
Correction ==
    [Belief EXCEPT !.id = Nil, !.statement = bob, !.type = "entity", !.level = "validated_logic",
                   !.memories = <<memory>>, !.claims = <<<<belief>>>>]

Derived == [Belief EXCEPT !.id = Nil, !.slot = crash, !.type = "rule", !.kind = "assistant_derivation", !.level = "candidate_frame"]

MCBatch == {<<Belief>>, <<Correction, Correction>>}

Observed(s, r, b) == [source |-> s, risky |-> r, proposals |-> b]

MCInput ==
    {Observed("user", FALSE, <<Belief>>), Observed("user", FALSE, <<>>),
     Observed("tool", FALSE, <<Derived, [Derived EXCEPT !.statement = bob, !.eligible = TRUE]>>),
     Observed("assistant", FALSE, <<[Belief EXCEPT !.statement = Nil], [Belief EXCEPT !.type = "guess", !.slot = crash]>>),
     Observed("assistant", TRUE, <<Correction, Correction>>),
     Observed("tool", FALSE, <<[Correction EXCEPT !.correction = TRUE]>>)}

MCProposed == UNION {Range(b) : b \in MCBatch \cup {input.proposals : input \in MCInput}}

MCFailure == {crash}
=============================================================================
