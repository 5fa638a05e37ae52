----------------------------- MODULE VimcHotplug -----------------------------
(***************************************************************************)
(* What the configfs interface of one vimc device promises a careful user: *)
(* entities and links are edited one directory at a time, each edit takes  *)
(* the device down, and a device that runs is wired exactly as configured. *)
(***************************************************************************)
CONSTANTS
    Entity,   \* [name, type] records that may be configured
    Conn      \* [src, srcPad, snk, snkPad] records that may be configured

VARIABLES
    entities, \* entities configured
    conns,    \* links configured
    running,  \* does the media device exist?
    wired     \* its links

vars == <<entities, conns, running, wired>>

Names == {e.name : e \in entities}

Init ==
    /\ entities = {}
    /\ conns = {}
    /\ running = FALSE
    /\ wired = {}

Down == running' = FALSE /\ wired' = {}

AddEntity(e) ==
    /\ e.name \notin Names
    /\ entities' = entities \cup {e}
    /\ Down
    /\ UNCHANGED conns

RemoveEntity(e) ==
    /\ entities' = entities \ {e}
    /\ Down
    /\ UNCHANGED conns

Connect(c) ==
    /\ conns' = conns \cup {c}
    /\ Down
    /\ UNCHANGED entities

Disconnect(c) ==
    /\ conns' = conns \ {c}
    /\ Down
    /\ UNCHANGED entities

Stop == Down /\ UNCHANGED <<entities, conns>>

Start ==
    /\ ~running
    /\ entities # {}
    /\ \A c \in conns : {c.src, c.snk} \subseteq Names
    /\ running' = TRUE
    /\ wired' = conns
    /\ UNCHANGED <<entities, conns>>

Next ==
    \/ \E e \in Entity : AddEntity(e) \/ RemoveEntity(e)
    \/ \E c \in Conn : Connect(c) \/ Disconnect(c)
    \/ Stop
    \/ Start

Spec == Init /\ [][Next]_vars
=============================================================================
