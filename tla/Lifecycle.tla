----------------------------- MODULE Lifecycle -----------------------------
(***************************************************************************)
(* The contract of domain_state.rs, `current state + explicit transition   *)
(* -> new current state': an entity is absent, then created in its initial *)
(* state, then changed by transitions applied to the state it is really in *)
(* at that moment.  A rejected transition changes nothing.                 *)
(***************************************************************************)
CONSTANTS
    Entity,         \* watches, authenticated sessions, ...
    EntityState,    \* the states of the lifecycle
    Transition,     \* the explicit transitions
    Initial,        \* the state an entity is created in
    Rejected,       \* Transition::apply returned Err
    Absent,         \* no row is stored for the entity
    Apply           \* Apply[t][s] is transition.apply(&state)

VARIABLE state

Init == state = [e \in Entity |-> Absent]

create(e) == state[e] = Absent /\ state' = [state EXCEPT ![e] = Initial]

apply(e, t) ==
    /\ state[e] # Absent /\ Apply[t][state[e]] # Rejected
    /\ state' = [state EXCEPT ![e] = Apply[t][state[e]]]

Next == \E e \in Entity : create(e) \/ \E t \in Transition : apply(e, t)

Spec == Init /\ [][Next]_state

============================================================================
