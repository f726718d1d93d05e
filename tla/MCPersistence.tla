---------------------------- MODULE MCPersistence ----------------------------
(* An instance of Persistence for TLC: two classes and two agents.           *)
EXTENDS Persistence

SetState(guard, c, ttl, policy) == [guard |-> guard, class |-> c, ttl |-> ttl, policy |-> policy]
UnsetState(guard, c) == SetState(guard, c, 0, "unset")
OneClass == <<SetState("g", "a", 2, "preserve"), SetState("h", "a", 1, "reset")>>
Alertings ==
    {OneClass,
     <<SetState("a", "b", 2, "preserve"), UnsetState("b", "a")>>,
     <<UnsetState("g", "b"), SetState("h", "b", 2, "preserve")>>}
Sorted2 == <<"a", "b">>
=============================================================================
