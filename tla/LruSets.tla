------------------------------- MODULE LruSets -------------------------------
(***************************************************************************)
(* Least-recently-used replacement, as the reports name it: a block that   *)
(* finds its set full takes the place of the one unused for longest.       *)
(***************************************************************************)
EXTENDS Naturals, FiniteSets

CONSTANTS
    Block,
    Capacity,   \* ways per set
    SetId       \* SetId[b]: the set of block b

VARIABLES
    held,       \* the blocks that are in their sets
    since       \* since[b]: those of b's set used after the last use of b

Init == held = {} /\ since = [b \in Block |-> {}]

Rivals(b) == {x \in held : SetId[x] = SetId[b]}

\* The blocks now are held, and b is the one of its set used last.
Used(b, now) ==
    /\ held' = now
    /\ since' = [x \in Block |->
                    IF x \notin now \ {b} THEN {}
                    ELSE IF SetId[x] = SetId[b] THEN since[x] \cup {b}
                    ELSE since[x]]

Use(b) == b \in held /\ Used(b, held)

Take(b) ==
    /\ b \notin held
    /\ Cardinality(Rivals(b)) < Capacity
    /\ Used(b, held \cup {b})

\* Every other block of the set was used after old.
Replace(b, old) ==
    /\ b \notin held
    /\ ~(Cardinality(Rivals(b)) < Capacity)
    /\ Rivals(b) \ {old} \subseteq since[old]
    /\ Used(b, (held \ {old}) \cup {b})

Access(b) == Use(b) \/ Take(b) \/ \E old \in Rivals(b) : Replace(b, old)
Next == \E b \in Block : Access(b)

Spec == Init /\ [][Next]_<<held, since>>
=============================================================================
