--------------------------- MODULE VimcSharedGraph ---------------------------
(***************************************************************************)
(* What those who share the entities of one device are promised: a capture  *)
(* that streams takes all it reaches at once, from nobody, and frees it     *)
(* when nothing of it is in use any more; only the owner of an entity uses  *)
(* it; and an entity that was taken away stays as long as a program holds   *)
(* it or streams from it.  A capture may abandon its stream: it never uses   *)
(* an entity again, and what it used others may use and give back for it.   *)
(***************************************************************************)
CONSTANTS
    Ent,      \* the entities
    Cap,      \* those that are captures
    Reach,    \* of each capture: the entities its stream takes
    NULL

VARIABLES
    phase,    \* is the graph being built, plugged, or unplugged?
    alive,    \* the entities that are there
    held,     \* those a program has a handle of
    owner,    \* the capture that took each entity
    user,     \* the capture in whose stream it has a frame
    abandoned \* the captures that abandoned a stream

vars == <<phase, alive, held, owner, user, abandoned>>

Init ==
    /\ phase = "building"
    /\ alive = {}
    /\ held = {}
    /\ owner = [e \in Ent |-> NULL]
    /\ user = [e \in Ent |-> NULL]
    /\ abandoned = {}

Owns(e) == \E x \in Ent : owner[x] = e

Create(e) ==
    /\ phase = "building"
    /\ e \notin alive
    /\ alive' = alive \cup {e}
    /\ UNCHANGED <<phase, held, owner, user, abandoned>>

Plug ==
    /\ phase = "building"
    /\ alive = Ent
    /\ phase' = "plugged"
    /\ UNCHANGED <<alive, held, owner, user, abandoned>>

Unplug ==
    /\ phase = "plugged"
    /\ phase' = "unplugged"
    /\ UNCHANGED <<alive, held, owner, user, abandoned>>

Destroy(e) ==
    /\ phase = "unplugged"
    /\ e \in alive \ held
    /\ ~Owns(e)
    /\ alive' = alive \ {e}
    /\ UNCHANGED <<phase, held, owner, user, abandoned>>

Hold(e) ==
    /\ phase # "building"
    /\ e \in alive \ held
    /\ held' = held \cup {e}
    /\ UNCHANGED <<phase, alive, owner, user, abandoned>>

\* The last handle takes an entity with it that was unplugged.
Drop(e) ==
    /\ e \in held
    /\ ~Owns(e)
    /\ held' = held \ {e}
    /\ \/ alive' = alive
       \/ phase = "unplugged" /\ alive' = alive \ {e}
    /\ UNCHANGED <<phase, owner, user, abandoned>>

Take(c) ==
    /\ phase = "plugged"
    /\ c \in held
    /\ \A e \in Reach[c] : owner[e] = NULL
    /\ owner' = [e \in Ent |-> IF e \in Reach[c] THEN c ELSE owner[e]]
    /\ UNCHANGED <<phase, alive, held, user, abandoned>>

Use(c, e) ==
    /\ phase = "plugged"
    /\ owner[e] = c
    /\ c \notin abandoned
    /\ user[e] \in abandoned \cup {NULL}
    /\ user' = [user EXCEPT ![e] = c]
    /\ UNCHANGED <<phase, alive, held, owner, abandoned>>

\* Only the owner of an entity gives it back.
Leave(c, e) ==
    /\ e \in alive
    /\ owner[e] = c
    /\ c \notin abandoned
    /\ user[e] \in abandoned \cup {c}
    /\ user' = [user EXCEPT ![e] = NULL]
    /\ UNCHANGED <<phase, alive, held, owner, abandoned>>

Abandon(c) ==
    /\ owner[c] = c
    /\ c \notin abandoned
    /\ abandoned' = abandoned \cup {c}
    /\ UNCHANGED <<phase, alive, held, owner, user>>

Free(c) ==
    /\ phase = "plugged"
    /\ c \in abandoned \/ \A e \in Ent : user[e] # c
    /\ owner' = [e \in Ent |-> IF owner[e] = c THEN NULL ELSE owner[e]]
    /\ UNCHANGED <<phase, alive, held, user, abandoned>>

Next ==
    \/ Plug \/ Unplug
    \/ \E e \in Ent : Create(e) \/ Destroy(e) \/ Hold(e) \/ Drop(e)
    \/ \E c \in Cap : Take(c) \/ Free(c) \/ Abandon(c)
    \/ \E c \in Cap, e \in Ent : Use(c, e) \/ Leave(c, e)

Spec == Init /\ [][Next]_vars
=============================================================================
