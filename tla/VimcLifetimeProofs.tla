-------------------------- MODULE VimcLifetimeProofs --------------------------
(* Theorems about VimcLifetime, for every set of entities, order of the list *)
(* and set of streams over them.                                             *)
EXTENDS VimcLifetime, TLAPS

-----------------------------------------------------------------------------
(* The inductive invariants.                                                 *)

Added(e) == step # "adding" \/ \E i \in 1..Len(list) : i < at /\ list[i] = e

Removed(e) ==
    \/ step = "gone"
    \/ step = "removing" /\ \E i \in 1..Len(list) : i < at /\ list[i] = e

\* What an entity has to hold, by the place the device is at.
Owned(e) ==
    IF ~Added(e) THEN {}
    ELSE IF ~Removed(e) THEN Range(Steps(Kind[e]))
    ELSE IF open[e] THEN Range(Release(Kind[e])) ELSE {}

\* Every entity holds what it has to, unless adding one has just failed.
Ledger ==
    /\ \A e \in Ent : open[e] => step # "adding"
    /\ oops \in {"null_deref", "double_free"} => step = "adding"
    /\ oops \notin {"null_deref", "double_free"} =>
           \A e \in Ent : res[e] = Owned(e)

\* A capture that abandoned its stream.
Dead(x) == x \in Cap /\ Abandoned(x)

\* The streamer of c, what its walk has taken and the frames it has made.  A
\* frame in the way of a walk is one that an abandoned stream left.
StreamOf(c) ==
    /\ stream[c] = "off" => size[c] = 0 \/ Abandoned(c)
    /\ stream[c] \in {"walking", "terminating"} => kthread[c] = "null"
    /\ stream[c] = "on" => kthread[c] # "null"
    /\ stream[c] = "leaving" => Abandoned(c)
    /\ kthread[c] \in {"new", "runs"} => stream[c] = "on"
    /\ \A e \in Reach[c] : stream[c] # "off" => pipe[e] = c
    /\ \A e \in Ent : pipe[e] = c => stream[c] # "off"
    /\ \A e \in Ent : frame[e] = c => \E k \in 2..size[c] : Chain[c][k] = e
    /\ stream[c] \in {"walking", "on"} /\ ~Abandoned(c) =>
           /\ size[c] >= 1
           /\ \A k \in 2..size[c] : frame[Chain[c][k]] = c \/ Dead(frame[Chain[c][k]])
    /\ Removed(c) \/ step = "adding" => stream[c] = "off"

Streams ==
    /\ \A c \in Cap : StreamOf(c)
    /\ \A c \in dropped : Abandoned(c)

\* What programs and the streamer do with the stream of c.
StreamAction(c) ==
    \/ StreamOn(c) \/ StreamOnAlready(c) \/ StreamOnRemoving(c)
    \/ StreamOff(c) \/ StreamOffEarly(c) \/ StreamOffBadThread(c)
    \/ StartEntity(c) \/ StartFails(c) \/ StartThread(c) \/ StartThreadFails(c)
    \/ ThreadBegins(c) \/ ThreadFaults(c) \/ TerminateEntity(c) \/ MediaStop(c)

-----------------------------------------------------------------------------
(* Facts about the tables of resources.                                      *)

LEMMA StepsHeld ==
    /\ Range(Steps("sen")) = {"mem", "hdl", "pads", "sd", "tpg"}
    /\ Range(Steps("proc")) = {"mem", "pads", "sd"}
    /\ Range(Steps("cap")) = {"mem", "pads", "queue", "node"}
<1>1. Range(SensorSteps) = {"mem", "hdl", "pads", "sd", "tpg"}
  BY DEF Range, SensorSteps
<1>2. Range(SubdevSteps) = {"mem", "pads", "sd"}
  BY DEF Range, SubdevSteps
<1>3. Range(CaptureSteps) = {"mem", "pads", "queue", "node"}
  BY DEF Range, CaptureSteps
<1> QED
  BY <1>1, <1>2, <1>3 DEF Steps

LEMMA ReleaseGives ==
    /\ Range(Release("sen")) = {"hdl", "tpg", "pads", "mem"}
    /\ \A kind \in {"proc", "cap"} : Range(Release(kind)) = {"pads", "mem"}
<1>1. Range(<<"hdl", "tpg", "pads", "mem">>) = {"hdl", "tpg", "pads", "mem"}
  BY DEF Range
<1>2. Range(<<"pads", "mem">>) = {"pads", "mem"}
  BY DEF Range
<1> QED
  BY <1>1, <1>2 DEF Release

LEMMA EntKind ==
    ASSUME NEW e \in Ent
    PROVE  /\ Kind[e] \in {"cap", "proc", "sen"}
           /\ e \in Cap <=> Kind[e] = "cap"
           /\ Range(Steps(Kind[e])) \subseteq Resource
           /\ {"mem", "pads"} \subseteq Range(Steps(Kind[e]))
           /\ {"mem", "pads"} \subseteq Range(Release(Kind[e]))
           /\ Range(Release(Kind[e])) \subseteq Range(Steps(Kind[e]))
           /\ {"sd", "node"} \cap Range(Steps(Kind[e])) # {}
           /\ {"sd", "node"} \cap Range(Release(Kind[e])) = {}
           /\ e \notin Cap =>
                 Range(Steps(Kind[e])) \ {"sd"} = Range(Release(Kind[e]))
           /\ e \in Cap =>
                 Range(Steps(Kind[e])) \ {"queue", "node"} = Range(Release(Kind[e]))
<1>1. Kind[e] \in {"cap", "proc", "sen"} /\ (e \in Cap <=> Kind[e] = "cap")
  BY LifetimeAssumption DEF Cap
<1>2. CASE Kind[e] = "cap"
  BY <1>1, <1>2, StepsHeld, ReleaseGives DEF Resource
<1>3. CASE Kind[e] = "proc"
  BY <1>1, <1>3, StepsHeld, ReleaseGives DEF Resource
<1>4. CASE Kind[e] = "sen"
  BY <1>1, <1>4, StepsHeld, ReleaseGives DEF Resource
<1> QED
  BY <1>1, <1>2, <1>3, <1>4

LEMMA ListType ==
    ASSUME NEW l \in Lists
    PROVE  /\ Len(l) \in Nat
           /\ \A i \in 1..Len(l) : l[i] \in Ent
           /\ \A e \in Ent : \E i \in 1..Len(l) : l[i] = e
           /\ \A i, j \in 1..Len(l) : l[i] = l[j] => i = j
BY LifetimeAssumption

LEMMA ChainType ==
    ASSUME NEW c \in Cap
    PROVE  /\ Len(Chain[c]) \in Nat /\ Len(Chain[c]) >= 1
           /\ c \in Ent /\ c # NULL
           /\ Chain[c][1] = c
           /\ \A k \in 1..Len(Chain[c]) : Chain[c][k] \in Ent
           /\ \A k \in 1..Len(Chain[c]) : Chain[c][k] \in Reach[c]
           /\ \A k \in 2..Len(Chain[c]) : Chain[c][k] \notin Cap
           /\ \A j, k \in 1..Len(Chain[c]) : Chain[c][j] = Chain[c][k] => j = k
           /\ Reach[c] \subseteq Ent
<1>1. c \in Ent /\ c # NULL
  BY LifetimeAssumption DEF Cap
<1>2. Chain[c] \in Seq(Ent) /\ Reach[c] \subseteq Ent
  BY LifetimeAssumption
<1>3. /\ Len(Chain[c]) \in Nat
      /\ \A k \in 1..Len(Chain[c]) : Chain[c][k] \in Ent
  BY <1>2
<1>4. /\ Len(Chain[c]) > 0 /\ Chain[c][1] = c
      /\ \A k \in 2..Len(Chain[c]) : Kind[Chain[c][k]] # "cap"
      /\ \A j, k \in 1..Len(Chain[c]) : Chain[c][j] = Chain[c][k] => j = k
      /\ \A k \in 1..Len(Chain[c]) : Chain[c][k] \in Reach[c]
  BY LifetimeAssumption
<1>5. \A k \in 2..Len(Chain[c]) : Chain[c][k] \notin Cap
  BY <1>4 DEF Cap
<1> QED
  BY <1>1, <1>2, <1>3, <1>4, <1>5

-----------------------------------------------------------------------------
(* Type correctness.                                                         *)

LEMMA InitType == Init => TypeOK
BY ListType, LifetimeAssumption DEF Init, TypeOK

\* Handing back leaves resources.
LEMMA ReleasedType ==
    ASSUME NEW e \in Ent, NEW held \in SUBSET Resource
    PROVE  Released(e, held) \in SUBSET Resource /\ Unregistered(e, held) \in SUBSET Resource
BY DEF Released, Unregistered

LEMMA ProbeType == TypeOK /\ Probe => TypeOK'
<1> SUFFICES ASSUME TypeOK, Probe PROVE TypeOK'
  OBVIOUS
<1> USE DEF TypeOK, probing, streaming
<1>0. list \in Lists /\ Len(list) \in Nat /\ \A i \in 1..Len(list) : list[i] \in Ent
  BY ListType
<1>1. CASE AddEntity
  <2>1. list[at] \in Ent /\ at + 1 \in 1..Len(list) + 1
    BY <1>0, <1>1 DEF AddEntity
  <2>2. Range(Steps(Kind[list[at]])) \in SUBSET Resource
    BY <2>1, EntKind
  <2> QED
    BY <1>1, <2>1, <2>2 DEF AddEntity
<1>2. CASE AddFails
  <2> PICK r \in Mishap \cap Range(Steps(Kind[list[at]])) :
         LET held == HeldAt(Kind[list[at]], r)
             path == Errors(Kind[list[at]], r)
         IN  /\ res' = [res EXCEPT ![list[at]] = held \ Range(path)]
             /\ oops' = IF FreesTwice(path, held) THEN "double_free"
                        ELSE "null_deref"
    BY <1>2 DEF AddFails
  <2>1. list[at] \in Ent
    BY <1>0, <1>2 DEF AddFails
  <2>2. HeldAt(Kind[list[at]], r) \subseteq Resource
    <3>1. HeldAt(Kind[list[at]], r) \subseteq Range(Steps(Kind[list[at]])) \cup {"hdl"}
      BY DEF HeldAt, Range
    <3> QED
      BY <2>1, <3>1, EntKind DEF Resource
  <2> QED
    BY <1>2, <2>1, <2>2 DEF AddFails
<1>3. CASE Bind
  BY <1>3 DEF Bind
<1> QED
  BY <1>1, <1>2, <1>3 DEF Probe

\* A kernel that stops leaves well-typed data behind.
LEMMA CrashType ==
    ASSUME TypeOK, NEW how, Crash(how),
           how \in {"no_media_device", "use_after_free", "no_source_frame",
                    "bad_kthread"}
    PROVE  TypeOK'
BY DEF TypeOK, Crash, probing, streaming

LEMMA ProgramType == TypeOK /\ Program => TypeOK'
<1> SUFFICES ASSUME TypeOK, Program PROVE TypeOK'
  OBVIOUS
<1>1. ASSUME NEW e \in Ent, Open(e) PROVE TypeOK'
  BY <1>1 DEF Open, TypeOK, probing, streaming
<1>2. ASSUME NEW e \in Ent, Close(e) PROVE TypeOK'
  <2>1. res' \in [Ent -> SUBSET Resource]
    BY <1>2, ReleasedType DEF Close, TypeOK
  <2> QED
    BY <1>2, <2>1 DEF Close, TypeOK, probing, streaming
<1>3. ASSUME NEW c \in Cap, StreamOn(c) PROVE TypeOK'
  BY <1>3, ChainType DEF StreamOn, TakesPipe, TypeOK, probing
<1>4. ASSUME NEW c \in Cap, StreamOnRemoving(c) PROVE TypeOK'
  BY <1>4, CrashType DEF StreamOnRemoving
<1>5. ASSUME NEW c \in Cap, StreamOff(c) PROVE TypeOK'
  BY <1>5 DEF StreamOff, Stopping, TypeOK, probing
<1>6. ASSUME NEW c \in Cap, StreamOnAlready(c) PROVE TypeOK'
  BY <1>6 DEF StreamOnAlready, TakesPipe, TypeOK, probing
<1>7. ASSUME NEW c \in Cap, StreamOffEarly(c) PROVE TypeOK'
  BY <1>7 DEF StreamOffEarly, Stopping, TypeOK, probing
<1>8. ASSUME NEW c \in Cap, StreamOffBadThread(c) PROVE TypeOK'
  BY <1>8, CrashType DEF StreamOffBadThread
<1> QED
  BY <1>1, <1>2, <1>3, <1>4, <1>5, <1>6, <1>7, <1>8 DEF Program

LEMMA StreamerType == TypeOK /\ Streamer => TypeOK'
<1> SUFFICES ASSUME TypeOK, NEW c \in Cap,
                    \/ StartEntity(c) \/ StartFails(c)
                    \/ StartThread(c) \/ StartThreadFails(c)
                    \/ ThreadBegins(c) \/ ThreadFaults(c)
                    \/ TerminateEntity(c) \/ MediaStop(c)
             PROVE  TypeOK'
  BY DEF Streamer
<1>0. ASSUME Walks(c)
      PROVE  /\ size' \in [Cap -> Nat] /\ \A d \in Cap : size'[d] <= Len(Chain[d])
             /\ NextUp(c) \in Ent
             /\ ({frame[NextUp(c)]} \ {NULL}) \subseteq Cap
  <2>1. size[c] \in Nat /\ size[c] + 1 \in 1..Len(Chain[c])
    BY <1>0, ChainType DEF Walks, TypeOK
  <2> QED
    BY <1>0, <2>1, ChainType DEF Walks, NextUp, TypeOK
<1>1. CASE StartEntity(c)
  <2>1. Walks(c)
    BY <1>1 DEF StartEntity
  <2> QED
    BY <1>0, <1>1, <2>1 DEF StartEntity, SetFrame, TypeOK, probing
<1>2. CASE StartFails(c)
  <2>1. Walks(c)
    BY <1>2 DEF StartFails
  <2> QED
    BY <1>0, <1>2, <2>1 DEF StartFails, SetFrame, TypeOK, probing
<1>3. CASE StartThread(c) \/ StartThreadFails(c) \/ ThreadBegins(c)
  BY <1>3 DEF StartThread, StartThreadFails, WalkEnds, ThreadBegins, TypeOK, probing
<1>4. CASE ThreadFaults(c)
  <2>1. Crash("use_after_free") \/ Crash("no_source_frame")
    BY <1>4 DEF ThreadFaults
  <2> QED
    BY <2>1, CrashType
<1>5. CASE TerminateEntity(c)
  <2>1. CASE ~Live(Chain[c][size[c]])
    BY <1>5, <2>1, CrashType DEF TerminateEntity
  <2>2. CASE Live(Chain[c][size[c]])
    <3>1. frame' \in [Ent -> Cap \cup {NULL}]
      BY <1>5, <2>2 DEF TerminateEntity, TypeOK
    <3>2. size' \in [Cap -> Nat] /\ \A d \in Cap : size'[d] <= Len(Chain[d])
      <4>1. size' = [size EXCEPT ![c] = size[c] - 1]
        BY <1>5, <2>2 DEF TerminateEntity
      <4>2. size[c] - 1 \in Nat /\ size[c] - 1 <= Len(Chain[c])
        BY <1>5, ChainType DEF TerminateEntity, TypeOK
      <4> QED
        BY <4>1, <4>2, ChainType DEF TypeOK
    <3> QED
      BY <1>5, <2>2, <3>1, <3>2 DEF TerminateEntity, TypeOK, probing
  <2> QED
    BY <2>1, <2>2
<1>6. CASE MediaStop(c)
  <2>1. CASE ~MediaDevice
    BY <1>6, <2>1, CrashType DEF MediaStop
  <2>2. CASE MediaDevice
    <3>1. /\ pipe' = [e \in Ent |-> IF pipe[e] = c THEN NULL ELSE pipe[e]]
          /\ stream' = [stream EXCEPT ![c] = "off"]
          /\ UNCHANGED <<probing, res, open, size, frame, kthread, dropped, oops>>
      BY <1>6, <2>2 DEF MediaStop
    <3>2. /\ pipe' \in [Ent -> Cap \cup {NULL}]
          /\ stream' \in [Cap -> {"off", "walking", "on", "terminating", "leaving"}]
      BY <3>1 DEF TypeOK
    <3> QED
      BY <3>1, <3>2 DEF TypeOK, probing
  <2> QED
    BY <2>1, <2>2
<1> QED
  BY <1>1, <1>2, <1>3, <1>4, <1>5, <1>6

LEMMA RemovalType == TypeOK /\ Removal => TypeOK'
<1> SUFFICES ASSUME TypeOK, Removal PROVE TypeOK'
  OBVIOUS
<1>0. Len(list) \in Nat
  BY ListType DEF TypeOK
<1>1. CASE Unplug
  BY <1>0, <1>1 DEF Unplug, TypeOK, streaming
<1>2. ASSUME NEW e \in Ent, RemoveSubdev(e) PROVE TypeOK'
  <2>1. res' \in [Ent -> SUBSET Resource]
    BY <1>2, ReleasedType DEF RemoveSubdev, TypeOK
  <2>2. at + 1 \in 1..Len(list) + 1
    BY <1>0, <1>2 DEF RemoveSubdev, Removing, TypeOK
  <2> QED
    BY <1>2, <2>1, <2>2 DEF RemoveSubdev, TypeOK, streaming
<1>3. ASSUME NEW e \in Ent, RemoveCapture(e) PROVE TypeOK'
  <2>1. res' \in [Ent -> SUBSET Resource]
    BY <1>3, ReleasedType DEF RemoveCapture, TypeOK
  <2>2. at + 1 \in 1..Len(list) + 1
    BY <1>0, <1>3 DEF RemoveCapture, Removing, TypeOK
  <2> QED
    BY <1>3, <2>1, <2>2 DEF RemoveCapture, TypeOK, streaming
<1>4. ASSUME NEW e \in Ent, RemoveStreaming(e) PROVE TypeOK'
  <2>1. \E how \in {"bad_kthread", "use_after_free", "no_media_device"} : Crash(how)
    BY <1>4 DEF RemoveStreaming
  <2> QED
    BY <2>1, CrashType
<1>5. CASE RemoveEnds
  BY <1>5 DEF RemoveEnds, TypeOK, streaming
<1> QED
  BY <1>1, <1>2, <1>3, <1>4, <1>5 DEF Removal

\* Every state of the device's life is well typed.
THEOREM TypeCorrect == Spec => []TypeOK
<1>1. TypeOK /\ UNCHANGED vars => TypeOK'
  BY DEF TypeOK, vars, probing, streaming
<1>2. TypeOK /\ [Next]_vars => TypeOK'
  BY <1>1, ProbeType, ProgramType, StreamerType, RemovalType DEF Next
<1> QED
  BY <1>2, InitType, PTL DEF Spec

-----------------------------------------------------------------------------
(* What the entities hold.                                                   *)

LEMMA InitLedger == Init => Ledger
<1> SUFFICES ASSUME Init PROVE Ledger
  OBVIOUS
<1>1. \A e \in Ent : ~Added(e)
  BY DEF Init, Added
<1> QED
  BY <1>1 DEF Init, Ledger, Owned

\* A step that neither adds, removes, opens nor closes keeps the ledger.
LEMMA LedgerKept ==
    ASSUME Ledger, Alive, UNCHANGED <<probing, res, open>>,
           oops' \notin {"null_deref", "double_free"}
    PROVE  Ledger'
<1>1. \A e \in Ent : Owned(e)' = Owned(e)
  BY DEF Owned, Added, Removed, probing
<1> QED
  BY <1>1 DEF Ledger, Alive, probing

LEMMA ProbeLedger == TypeOK /\ Ledger /\ Probe => Ledger'
<1> SUFFICES ASSUME TypeOK, Ledger, Probe PROVE Ledger'
  OBVIOUS
<1>0. list \in Lists /\ Len(list) \in Nat /\ at \in Nat
  BY ListType DEF TypeOK
<1>1. CASE AddEntity
  <2>0. /\ step = "adding" /\ at >= 1 /\ at <= Len(list) /\ at' = at + 1
        /\ UNCHANGED <<list, step, open, oops>> /\ oops = "no"
    BY <1>1 DEF AddEntity, TypeOK, Alive
  <2>1. list[at] \in Ent
    BY <1>0, <2>0, ListType
  <2>2. \A e \in Ent : ~Removed(e) /\ ~Removed(e)'
    BY <2>0 DEF Removed
  <2>3. \A e \in Ent : Added(e)' <=> Added(e) \/ e = list[at]
    BY <1>0, <2>0 DEF Added
  <2>4. ASSUME NEW e \in Ent PROVE res'[e] = Owned(e)'
    <3>1. res[e] = Owned(e) /\ res \in [Ent -> SUBSET Resource]
      BY <2>0 DEF Ledger, TypeOK
    <3>2. CASE e = list[at]
      BY <1>1, <2>2, <2>3, <3>1, <3>2 DEF AddEntity, Owned
    <3>3. CASE e # list[at]
      BY <1>1, <2>2, <2>3, <3>1, <3>3 DEF AddEntity, Owned
    <3> QED
      BY <3>2, <3>3
  <2> QED
    BY <2>0, <2>4 DEF Ledger
<1>2. CASE AddFails
  BY <1>2 DEF AddFails, Ledger, probing
<1>3. CASE Bind
  <2>1. \A e \in Ent : Added(e) /\ Added(e)' /\ ~Removed(e) /\ ~Removed(e)'
    BY <1>0, <1>3, ListType DEF Bind, Added, Removed
  <2>2. \A e \in Ent : Owned(e)' = Owned(e)
    BY <2>1 DEF Owned
  <2> QED
    BY <1>3, <2>2 DEF Bind, Ledger, Alive
<1> QED
  BY <1>1, <1>2, <1>3 DEF Probe

\* The registered entities are those that were added and are not removed.
LEMMA RegisteredIs ==
    ASSUME TypeOK, Ledger, Alive, NEW e \in Ent
    PROVE  Registered(e) <=> Added(e) /\ ~Removed(e)
<1>1. res[e] = Owned(e)
  BY DEF Ledger, Alive
<1> QED
  BY <1>1, EntKind DEF Registered, Owned

LEMMA StreamLedger ==
    ASSUME Ledger, NEW c \in Cap, StreamAction(c)
    PROVE  Ledger'
<1>1. Alive /\ UNCHANGED <<probing, res, open>>
  BY DEF StreamAction, StreamOn, StreamOnAlready, TakesPipe, StreamOnRemoving,
         StreamOff, StreamOffEarly, StreamOffBadThread, Stopping, StartEntity,
         StartFails, Walks, StartThread, StartThreadFails, WalkEnds, ThreadBegins,
         ThreadFaults, TerminateEntity, MediaStop, Crash
<1>2. oops' \notin {"null_deref", "double_free"}
  BY DEF StreamAction, StreamOn, StreamOnAlready, TakesPipe, StreamOnRemoving,
         StreamOff, StreamOffEarly, StreamOffBadThread, Stopping, StartEntity,
         StartFails, Walks, StartThread, StartThreadFails, WalkEnds, ThreadBegins,
         ThreadFaults, TerminateEntity, MediaStop, Crash, Alive
<1> QED
  BY <1>1, <1>2, LedgerKept

LEMMA ProgramLedger == TypeOK /\ Ledger /\ Program => Ledger'
<1> SUFFICES ASSUME TypeOK, Ledger, Program PROVE Ledger'
  OBVIOUS
<1>1. ASSUME NEW e \in Ent, Open(e) \/ Close(e) PROVE Ledger'
  <2>0. /\ Alive /\ step # "adding" /\ UNCHANGED <<list, step, at>>
        /\ oops' \notin {"null_deref", "double_free"}
        /\ open \in [Ent -> BOOLEAN] /\ res \in [Ent -> SUBSET Resource]
    BY <1>1 DEF Open, Close, Ledger, probing, Alive, TypeOK
  <2>1. \A d \in Ent : Added(d) /\ Added(d)' /\ (Removed(d)' <=> Removed(d))
    BY <2>0 DEF Added, Removed
  <2>2. \A d \in Ent : res[d] = Owned(d)
    BY <2>0 DEF Ledger, Alive
  <2>3. \A d \in Ent : d # e => open'[d] = open[d] /\ res'[d] = res[d]
    BY <1>1, <2>0 DEF Open, Close
  <2>4. res'[e] = Owned(e)'
    <3>1. CASE Open(e)
      BY <2>0, <2>1, <2>2, <3>1, RegisteredIs DEF Open, Owned
    <3>2. CASE Close(e) /\ Registered(e)
      BY <2>0, <2>1, <2>2, <3>2, RegisteredIs DEF Close, Owned
    <3>3. CASE Close(e) /\ ~Registered(e)
      <4>1. Removed(e) /\ open[e] /\ ~open'[e]
        BY <2>0, <2>1, <3>3, RegisteredIs DEF Close
      <4>2. res[e] = Range(Release(Kind[e]))
        BY <2>1, <2>2, <4>1 DEF Owned
      <4>3. res'[e] = {}
        BY <2>0, <3>3, <4>2 DEF Close, Released
      <4> QED
        BY <2>1, <4>1, <4>3 DEF Owned
    <3> QED
      BY <1>1, <3>1, <3>2, <3>3
  <2>5. \A d \in Ent : d # e => Owned(d)' = Owned(d)
    BY <2>1, <2>3 DEF Owned
  <2> QED
    BY <2>0, <2>2, <2>3, <2>4, <2>5 DEF Ledger
<1> QED
  BY <1>1, StreamLedger DEF Program, StreamAction

\* Removing the next entity gives back what it held, but for an open handle.
LEMMA RemoveLedger ==
    ASSUME TypeOK, Ledger, NEW e \in Ent, Removing(e),
           UNCHANGED <<list, step, open, oops>>, at' = at + 1,
           res' = [res EXCEPT ![e] =
                     Unregistered(e, @ \ (IF e \in Cap THEN {"queue", "node"}
                                          ELSE {"sd"}))]
    PROVE  Ledger'
<1>0. /\ list \in Lists /\ Len(list) \in Nat /\ at \in 1..Len(list) + 1
      /\ step = "removing" /\ oops = "no" /\ at <= Len(list) /\ e = list[at]
      /\ res \in [Ent -> SUBSET Resource]
  BY ListType DEF TypeOK, Removing, Alive
<1>1. \A d \in Ent : Added(d) /\ Added(d)'
  BY <1>0 DEF Added
<1>2. \A d \in Ent : Removed(d)' <=> Removed(d) \/ d = e
  BY <1>0 DEF Removed
<1>3. ~Removed(e)
  BY <1>0, ListType DEF Removed
<1>4. \A d \in Ent : res[d] = Owned(d)
  BY <1>0 DEF Ledger
<1>5. \A d \in Ent : d # e => res'[d] = res[d] /\ Owned(d)' = Owned(d)
  BY <1>0, <1>1, <1>2 DEF Owned
<1>6. res'[e] = Owned(e)'
  <2>1. res[e] = Range(Steps(Kind[e]))
    BY <1>1, <1>3, <1>4 DEF Owned
  <2>2. res'[e] = Unregistered(e, Range(Release(Kind[e])))
    BY <1>0, <2>1, EntKind
  <2>3. res'[e] = IF open[e] THEN Range(Release(Kind[e])) ELSE {}
    BY <2>2 DEF Unregistered, Released
  <2> QED
    BY <1>1, <1>2, <2>3 DEF Owned
<1> QED
  BY <1>0, <1>4, <1>5, <1>6 DEF Ledger

LEMMA RemovalLedger == TypeOK /\ Ledger /\ Removal => Ledger'
<1> SUFFICES ASSUME TypeOK, Ledger, Removal PROVE Ledger'
  OBVIOUS
<1>0. list \in Lists /\ Len(list) \in Nat /\ at \in Nat
  BY ListType DEF TypeOK
<1>1. CASE Unplug
  <2>1. \A e \in Ent : Added(e) /\ Added(e)' /\ ~Removed(e) /\ ~Removed(e)'
    BY <1>0, <1>1 DEF Unplug, Added, Removed
  <2>2. \A e \in Ent : Owned(e)' = Owned(e)
    BY <2>1 DEF Owned
  <2> QED
    BY <1>1, <2>2 DEF Unplug, Ledger, Alive
<1>2. ASSUME NEW e \in Ent, RemoveSubdev(e) PROVE Ledger'
  BY <1>2, RemoveLedger DEF RemoveSubdev
<1>3. ASSUME NEW e \in Ent, RemoveCapture(e) PROVE Ledger'
  BY <1>3, RemoveLedger DEF RemoveCapture
<1>4. ASSUME NEW e \in Ent, RemoveStreaming(e) PROVE Ledger'
  <2>1. /\ Alive /\ UNCHANGED <<probing, res, open>>
        /\ oops' \notin {"null_deref", "double_free"}
    BY <1>4 DEF RemoveStreaming, Removing, Crash
  <2> QED
    BY <2>1, LedgerKept
<1>5. CASE RemoveEnds
  <2>1. \A e \in Ent : Added(e) /\ Added(e)' /\ Removed(e) /\ Removed(e)'
    BY <1>0, <1>5, ListType DEF RemoveEnds, Added, Removed
  <2>2. \A e \in Ent : Owned(e)' = Owned(e)
    BY <1>5, <2>1 DEF Owned, RemoveEnds
  <2> QED
    BY <1>5, <2>2 DEF RemoveEnds, Ledger, Alive
<1> QED
  BY <1>1, <1>2, <1>3, <1>4, <1>5 DEF Removal

LEMMA LedgerStep == TypeOK /\ Ledger /\ [Next]_vars => Ledger'
<1>1. Ledger /\ UNCHANGED vars => Ledger'
  <2> SUFFICES ASSUME Ledger, UNCHANGED vars PROVE Ledger'
    OBVIOUS
  <2>1. \A e \in Ent : Owned(e)' = Owned(e)
    BY DEF Owned, Added, Removed, vars, probing
  <2> QED
    BY <2>1 DEF Ledger, vars, probing
<1> QED
  BY <1>1, ProbeLedger, ProgramLedger, StreamLedger, RemovalLedger
  DEF Next, Streamer, StreamAction

THEOREM LedgerHolds == Spec => []Ledger
BY TypeCorrect, InitLedger, LedgerStep, PTL DEF Spec

\* Whoever has a node open finds the object behind it and its pads.
THEOREM HandlesKeepObjects == Spec => []HandleKeepsObject
<1>1. TypeOK /\ Ledger => HandleKeepsObject
  <2> SUFFICES ASSUME TypeOK, Ledger, NEW e \in Ent, open[e]
               PROVE  {"mem", "pads"} \subseteq res[e]
    BY DEF HandleKeepsObject
  <2>1. step # "adding" /\ res[e] = Owned(e)
    BY DEF Ledger
  <2> QED
    BY <2>1, EntKind DEF Owned, Added
<1> QED
  BY <1>1, TypeCorrect, LedgerHolds, PTL

-----------------------------------------------------------------------------
(* The streams.                                                              *)

LEMMA InitStreams == Init => Streams
<1> SUFFICES ASSUME Init, NEW c \in Cap PROVE StreamOf(c)
  BY DEF Streams, Init
<1> QED
  BY ChainType DEF Init, StreamOf

\* Two captures that stream have no entity in common.
LEMMA Apart ==
    ASSUME Streams, NEW c \in Cap, NEW d \in Cap, c # d,
           stream[c] # "off", stream[d] # "off", NEW e \in Reach[c]
    PROVE  e \notin Reach[d]
BY DEF Streams, StreamOf

\* A frame that is not its own, met by a stream in what it took, was left there
\* by an abandoned one.
LEMMA InTheWay ==
    ASSUME TypeOK, Streams, NEW c \in Cap, stream[c] # "off",
           NEW e \in Reach[c], frame[e] # NULL, frame[e] # c
    PROVE  Dead(frame[e])
<1> DEFINE d == frame[e]
<1>0. e \in Ent /\ d \in Cap /\ d # c
  BY ChainType DEF TypeOK
<1> SUFFICES ASSUME ~Abandoned(d) PROVE FALSE
  BY <1>0 DEF Dead
<1>1. PICK k \in 2..size[d] : Chain[d][k] = e
  BY <1>0 DEF Streams, StreamOf
<1>2. size[d] # 0 /\ k \in 1..Len(Chain[d])
  BY <1>0, <1>1, ChainType DEF TypeOK
<1>3. stream[d] # "off"
  BY <1>0, <1>2 DEF Streams, StreamOf
<1>4. e \in Reach[d]
  BY <1>0, <1>1, <1>2, ChainType
<1> QED
  BY <1>0, <1>3, <1>4, Apart

\* Whatever leaves the streams alone keeps them, if it removes idle captures.
LEMMA StreamsKept ==
    ASSUME Streams, UNCHANGED streaming,
           \A c \in Cap : Removed(c)' \/ step' = "adding" =>
               Removed(c) \/ step = "adding" \/ stream[c] = "off"
    PROVE  Streams'
<1>1. \A x : (Abandoned(x)' <=> Abandoned(x)) /\ (Dead(x)' <=> Dead(x))
  BY DEF Abandoned, Dead, streaming
<1>2. ASSUME NEW c \in Cap PROVE StreamOf(c)'
  BY <1>1 DEF Streams, StreamOf, streaming
<1> QED
  BY <1>1, <1>2 DEF Streams, streaming

\* A thread pointer that is not NULL while nothing streams is a bad one.
LEMMA IdleThread ==
    ASSUME TypeOK, Streams, NEW c \in Cap, stream[c] = "off", kthread[c] # "null"
    PROVE  Abandoned(c)
BY DEF TypeOK, Streams, StreamOf, Abandoned

LEMMA StreamOnKeeps ==
    ASSUME TypeOK, Streams, NEW c \in Cap, StreamOn(c) \/ StreamOnAlready(c)
    PROVE  Streams'
<1>0. /\ stream[c] = "off" /\ step' = "bound"
      /\ frame' = frame /\ kthread' = kthread /\ dropped' = dropped
      /\ \A e \in Reach[c] : pipe[e] = NULL
      /\ \A e \in Ent : pipe'[e] = IF e \in Reach[c] THEN c ELSE pipe[e]
      /\ \A d \in Cap : d # c => stream'[d] = stream[d] /\ size'[d] = size[d]
  BY DEF StreamOn, StreamOnAlready, TakesPipe, MediaDevice, probing, TypeOK
<1>1. \A d \in Cap : ~Removed(d)'
  BY <1>0 DEF Removed
<1>2. \A x : (Abandoned(x)' <=> Abandoned(x)) /\ (Dead(x)' <=> Dead(x))
  BY <1>0 DEF Abandoned, Dead
<1>3. StreamOf(c)'
  <2>1. CASE StreamOn(c)
    <3>1. kthread[c] = "null" /\ ~Abandoned(c) /\ size[c] = 0
      BY <1>0, <2>1 DEF StreamOn, Streams, StreamOf, Abandoned
    <3>2. stream'[c] = "walking" /\ size'[c] = 1
      BY <2>1 DEF StreamOn, TypeOK
    <3>3. \A e \in Ent : frame[e] # c
      BY <3>1 DEF Streams, StreamOf
    <3> QED
      BY <1>0, <1>1, <1>2, <3>1, <3>2, <3>3, ChainType DEF StreamOf
  <2>2. CASE StreamOnAlready(c)
    <3>1. Abandoned(c) /\ kthread[c] # "null" /\ kthread[c] \notin {"new", "runs"}
      BY <1>0, <2>2, IdleThread DEF StreamOnAlready, Abandoned
    <3>2. stream'[c] = "on" /\ size' = size
      BY <2>2 DEF StreamOnAlready, TypeOK
    <3> QED
      BY <1>0, <1>1, <1>2, <3>1, <3>2, ChainType DEF Streams, StreamOf
  <2> QED
    BY <2>1, <2>2
<1>4. ASSUME NEW d \in Cap, d # c PROVE StreamOf(d)'
  BY <1>0, <1>1, <1>2, <1>4, ChainType DEF Streams, StreamOf
<1> QED
  BY <1>0, <1>2, <1>3, <1>4 DEF Streams

LEMMA WalkNext ==
    ASSUME TypeOK, Streams, NEW c \in Cap, Walks(c)
    PROVE  /\ step = "bound" /\ stream[c] = "walking"
           /\ kthread[c] = "null" /\ ~Abandoned(c)
           /\ size[c] \in Nat /\ size[c] >= 1 /\ size[c] + 1 \in 2..Len(Chain[c])
           /\ NextUp(c) = Chain[c][size[c] + 1]
           /\ NextUp(c) \in Ent /\ NextUp(c) \in Reach[c] /\ pipe[NextUp(c)] = c
           /\ \A k \in 2..size[c] : Chain[c][k] # NextUp(c)
           /\ frame[NextUp(c)] # c
           /\ frame[NextUp(c)] # NULL => Dead(frame[NextUp(c)])
           /\ size'[c] = size[c] + 1
           /\ \A d \in Cap : d # c => size'[d] = size[d]
<1>1. /\ step = "bound" /\ stream[c] = "walking"
      /\ kthread[c] = "null" /\ ~Abandoned(c)
      /\ size[c] \in Nat /\ size[c] >= 1 /\ size[c] + 1 \in 2..Len(Chain[c])
  BY ChainType DEF Walks, MediaDevice, Streams, StreamOf, Abandoned, TypeOK
<1>2. /\ NextUp(c) = Chain[c][size[c] + 1]
      /\ NextUp(c) \in Ent /\ NextUp(c) \in Reach[c]
      /\ \A k \in 2..size[c] : Chain[c][k] # NextUp(c)
  <2>1. NextUp(c) = Chain[c][size[c] + 1] /\ size[c] + 1 \in 1..Len(Chain[c])
    BY <1>1 DEF NextUp
  <2>2. \A k \in 2..size[c] : k \in 1..Len(Chain[c]) /\ k # size[c] + 1
    BY <1>1, ChainType
  <2> QED
    BY <2>1, <2>2, ChainType
<1>3. pipe[NextUp(c)] = c /\ frame[NextUp(c)] # c
  BY <1>1, <1>2 DEF Streams, StreamOf
<1>4. size'[c] = size[c] + 1 /\ \A d \in Cap : d # c => size'[d] = size[d]
  BY DEF Walks, TypeOK
<1>5. frame[NextUp(c)] # NULL => Dead(frame[NextUp(c)])
  BY <1>1, <1>2, <1>3, InTheWay
<1> QED
  BY <1>1, <1>2, <1>3, <1>4, <1>5

\* A frame made or freed in the stream of c is none of another stream's, and a
\* thread of c is no other's.
LEMMA OthersKept ==
    ASSUME TypeOK, Streams, NEW c \in Cap, stream[c] # "off",
           NEW e \in Reach[c], NEW f \in {c, NULL},
           frame' = frame \/ frame' = [frame EXCEPT ![e] = f],
           pipe' = pipe, step' = "bound" \/ UNCHANGED probing,
           \A x \in Cap : Abandoned(x) => Abandoned(x)',
           NEW d \in Cap, d # c, stream'[d] = stream[d], size'[d] = size[d],
           kthread'[d] = kthread[d]
    PROVE  StreamOf(d)'
<1>1. Removed(d)' \/ step' = "adding" => Removed(d) \/ step = "adding"
  BY DEF Removed, probing
<1>2. \A x \in Ent : frame'[x] = d => frame[x] = d
  BY ChainType DEF TypeOK
<1>3. stream[d] \in {"walking", "on"} /\ ~Abandoned(d) =>
          \A k \in 2..size[d] : frame'[Chain[d][k]] = d \/ Dead(frame[Chain[d][k]])'
  <2> SUFFICES ASSUME stream[d] \in {"walking", "on"}, ~Abandoned(d),
                      NEW k \in 2..size[d]
               PROVE  frame'[Chain[d][k]] = d \/ Dead(frame[Chain[d][k]])'
    OBVIOUS
  <2>1. k \in 1..Len(Chain[d])
    BY ChainType DEF TypeOK
  <2>2. Chain[d][k] \in Reach[d] /\ Chain[d][k] \in Ent
    BY <2>1, ChainType
  <2>3. Chain[d][k] # e
    BY <2>2, Apart
  <2>4. frame[Chain[d][k]] = d \/ Dead(frame[Chain[d][k]])
    BY DEF Streams, StreamOf
  <2>5. frame'[Chain[d][k]] = frame[Chain[d][k]]
    BY <2>2, <2>3 DEF TypeOK
  <2> QED
    BY <2>4, <2>5 DEF Dead
<1>4. Abandoned(d)' <=> Abandoned(d)
  BY DEF Abandoned
<1> QED
  BY <1>1, <1>2, <1>3, <1>4 DEF Streams, StreamOf

LEMMA StartEntityKeeps ==
    ASSUME TypeOK, Streams, NEW c \in Cap, StartEntity(c)
    PROVE  Streams'
<1> DEFINE e == NextUp(c)
<1>0. Walks(c) /\ UNCHANGED <<probing, pipe, stream, kthread>>
  BY DEF StartEntity
<1>1. step' = "bound" /\ \A d \in Cap : ~Removed(d)'
  BY <1>0, WalkNext DEF Removed, probing
<1>2. \A x : (Abandoned(x)' <=> Abandoned(x)) /\ (Dead(x)' <=> Dead(x))
  BY <1>0 DEF Abandoned, Dead
<1>3. /\ frame' = frame \/ frame' = [frame EXCEPT ![e] = c]
      /\ dropped' = dropped \/ dropped' = dropped \cup ({frame[e]} \ {NULL})
  BY DEF StartEntity, SetFrame
<1>4. StreamOf(c)'
  <2>1. \A x \in Ent : frame'[x] = c => frame[x] = c \/ x = e
    BY <1>3, ChainType DEF TypeOK
  <2>2. \A x \in Ent : frame'[x] = c => \E k \in 2..size[c] + 1 : Chain[c][k] = x
    BY <1>0, <2>1, WalkNext DEF Streams, StreamOf
  <2>3. frame'[e] = c \/ Dead(frame'[e])
    <3>1. CASE Allocates(e)
      BY <1>0, <3>1, WalkNext DEF StartEntity, SetFrame, TypeOK
    <3>2. CASE ~Allocates(e)
      BY <1>0, <3>2, WalkNext DEF StartEntity, Allocates
    <3> QED
      BY <3>1, <3>2
  <2>4. \A k \in 2..size[c] + 1 : frame'[Chain[c][k]] = c \/ Dead(frame'[Chain[c][k]])
    <3>1. ASSUME NEW k \in 2..size[c] + 1, k # size[c] + 1
          PROVE  frame'[Chain[c][k]] = c \/ Dead(frame'[Chain[c][k]])
      <4>1. k \in 2..size[c] /\ k \in 1..Len(Chain[c])
        BY <1>0, <3>1, WalkNext, ChainType
      <4>2. frame[Chain[c][k]] = c \/ Dead(frame[Chain[c][k]])
        BY <1>0, <4>1, WalkNext DEF Streams, StreamOf
      <4>3. frame'[Chain[c][k]] = frame[Chain[c][k]]
        BY <1>0, <1>3, <4>1, WalkNext, ChainType DEF TypeOK
      <4> QED
        BY <4>2, <4>3
    <3> QED
      BY <1>0, <2>3, <3>1, WalkNext
  <2>5. size'[c] = size[c] + 1 /\ size[c] \in Nat
    BY <1>0, WalkNext
  <2>6. \A k \in 2..size'[c] : frame'[Chain[c][k]] = c \/ Dead(frame[Chain[c][k]])'
    BY <1>0, <2>4, <2>5 DEF Dead, Abandoned
  <2> QED
    BY <1>0, <1>1, <1>2, <2>2, <2>5, <2>6, WalkNext DEF Streams, StreamOf
<1>5. ASSUME NEW d \in Cap, d # c PROVE StreamOf(d)'
  BY <1>0, <1>1, <1>2, <1>3, <1>5, WalkNext, OthersKept
<1>6. \A x \in dropped' : Abandoned(x)'
  BY <1>0, <1>2, <1>3, WalkNext DEF Dead, Streams
<1> QED
  BY <1>4, <1>5, <1>6 DEF Streams

LEMMA StartFailsKeeps ==
    ASSUME TypeOK, Streams, NEW c \in Cap, StartFails(c)
    PROVE  Streams'
<1>0. /\ Walks(c) /\ UNCHANGED <<probing, pipe, kthread>>
      /\ frame' = [frame EXCEPT ![NextUp(c)] = NULL]
      /\ dropped' = dropped \cup ({frame[NextUp(c)]} \ {NULL})
      /\ stream'[c] = "terminating"
      /\ \A d \in Cap : d # c => stream'[d] = stream[d]
  BY DEF StartFails, SetFrame, TypeOK
<1>1. step' = "bound" /\ \A d \in Cap : ~Removed(d)'
  BY <1>0, WalkNext DEF Removed, probing
<1>2. \A x : (Abandoned(x)' <=> Abandoned(x)) /\ (Dead(x)' <=> Dead(x))
  BY <1>0 DEF Abandoned, Dead
<1>3. StreamOf(c)'
  <2>1. \A e \in Ent : frame'[e] = c => frame[e] = c
    BY <1>0, ChainType DEF TypeOK
  <2>2. \A e \in Ent : frame'[e] = c => \E k \in 2..size[c] + 1 : Chain[c][k] = e
    BY <1>0, <2>1, WalkNext DEF Streams, StreamOf
  <2> QED
    BY <1>0, <1>1, <1>2, <2>2, WalkNext DEF Streams, StreamOf
<1>4. ASSUME NEW d \in Cap, d # c PROVE StreamOf(d)'
  <2>1. /\ stream[c] # "off" /\ NextUp(c) \in Reach[c]
        /\ size'[d] = size[d] /\ kthread'[d] = kthread[d]
    BY <1>0, <1>4, WalkNext
  <2> QED
    BY <1>0, <1>1, <1>2, <1>4, <2>1, OthersKept
<1>5. \A x \in dropped' : Abandoned(x)'
  BY <1>0, <1>2, WalkNext DEF Dead, Streams
<1> QED
  BY <1>3, <1>4, <1>5 DEF Streams

\* Creating the thread, its first run, and the ways to stop it.
LEMMA ThreadKeeps ==
    ASSUME TypeOK, Streams, NEW c \in Cap,
           \/ StartThread(c) \/ StartThreadFails(c) \/ ThreadBegins(c)
           \/ StreamOff(c) \/ StreamOffEarly(c)
    PROVE  Streams'
<1>1. /\ stream[c] \in {"walking", "on"} /\ ~Abandoned(c)
      /\ UNCHANGED <<probing, pipe, size, frame, dropped>>
      /\ \A d \in Cap : d # c => stream'[d] = stream[d] /\ kthread'[d] = kthread[d]
  BY DEF StartThread, StartThreadFails, WalkEnds, ThreadBegins, StreamOff,
         StreamOffEarly, Stopping, TypeOK, Streams, StreamOf, Abandoned
<1>2. \/ stream'[c] = "on" /\ kthread'[c] \in {"new", "runs"}
      \/ stream'[c] = "leaving" /\ kthread'[c] \in {"err", "gone"}
      \/ stream'[c] = "terminating" /\ kthread'[c] = "null"
  BY DEF StartThread, StartThreadFails, WalkEnds, ThreadBegins, StreamOff,
         StreamOffEarly, Stopping, TypeOK
<1>3. \A d \in Cap : Removed(d)' <=> Removed(d)
  BY <1>1 DEF Removed, probing
<1>4. \A x \in Cap : Abandoned(x) => Abandoned(x)'
  BY <1>1 DEF Abandoned
<1>5. StreamOf(c)'
  <2>1. \A k \in 2..size[c] : frame'[Chain[c][k]] = c \/ Dead(frame[Chain[c][k]])'
    BY <1>1, <1>4 DEF Streams, StreamOf, Dead
  <2> QED
    BY <1>1, <1>2, <1>3, <2>1 DEF Streams, StreamOf, Abandoned, probing
<1>6. ASSUME NEW d \in Cap, d # c PROVE StreamOf(d)'
  <2>1. c \in Reach[c]
    BY ChainType
  <2> QED
    BY <1>1, <1>4, <1>6, <2>1, OthersKept
<1> QED
  BY <1>1, <1>4, <1>5, <1>6 DEF Streams, TypeOK

LEMMA TerminateKeeps ==
    ASSUME TypeOK, Streams, NEW c \in Cap, TerminateEntity(c),
           Live(Chain[c][size[c]])
    PROVE  Streams'
<1> DEFINE e == Chain[c][size[c]]
<1>0. /\ stream[c] = "terminating" /\ size[c] \in 1..Len(Chain[c])
      /\ UNCHANGED <<probing, pipe, stream, kthread, dropped>>
      /\ frame' = IF e \in Cap THEN frame ELSE [frame EXCEPT ![e] = NULL]
      /\ size'[c] = size[c] - 1 /\ \A d \in Cap : d # c => size'[d] = size[d]
  BY ChainType DEF TerminateEntity, TypeOK
<1>1. e \in Ent /\ e \in Reach[c] /\ (size[c] >= 2 => e \notin Cap)
  BY <1>0, ChainType
<1>2. \A d \in Cap : Removed(d)' <=> Removed(d)
  BY <1>0 DEF Removed, probing
<1>3. \A x : Abandoned(x)' <=> Abandoned(x)
  BY <1>0 DEF Abandoned
<1>4. StreamOf(c)'
  <2>1. ASSUME NEW x \in Ent, frame'[x] = c
        PROVE  \E k \in 2..size'[c] : Chain[c][k] = x
    <3>1. frame[x] = c /\ (e \notin Cap => x # e)
      BY <1>0, <1>1, <2>1, ChainType DEF TypeOK
    <3>2. PICK k \in 2..size[c] : Chain[c][k] = x
      BY <3>1 DEF Streams, StreamOf
    <3>3. k # size[c]
      BY <1>0, <1>1, <3>1, <3>2
    <3>4. k \in 2..size'[c]
      BY <1>0, <3>3
    <3> QED
      BY <3>2, <3>4
  <2> QED
    BY <1>0, <1>2, <1>3, <2>1 DEF Streams, StreamOf, probing
<1>5. ASSUME NEW d \in Cap, d # c PROVE StreamOf(d)'
  <2>1. frame' = frame \/ frame' = [frame EXCEPT ![e] = NULL]
    BY <1>0
  <2> QED
    BY <1>0, <1>1, <1>3, <1>5, <2>1, OthersKept
<1> QED
  BY <1>0, <1>3, <1>4, <1>5 DEF Streams

LEMMA MediaStopKeeps ==
    ASSUME TypeOK, Streams, NEW c \in Cap, MediaStop(c), MediaDevice
    PROVE  Streams'
<1>1. /\ stream[c] # "off"
      /\ Abandoned(c) \/ (size[c] = 0 /\ kthread[c] = "null")
      /\ UNCHANGED <<probing, size, frame, kthread, dropped>>
      /\ \A e \in Ent : pipe'[e] = IF pipe[e] = c THEN NULL ELSE pipe[e]
      /\ stream'[c] = "off" /\ \A d \in Cap : d # c => stream'[d] = stream[d]
  BY DEF MediaStop, TypeOK, Streams, StreamOf
<1>2. \A d \in Cap : Removed(d)' <=> Removed(d)
  BY <1>1 DEF Removed, probing
<1>3. \A x : (Abandoned(x)' <=> Abandoned(x)) /\ (Dead(x)' <=> Dead(x))
  BY <1>1 DEF Abandoned, Dead
<1>4. StreamOf(c)'
  BY <1>1, <1>2, <1>3, ChainType DEF Streams, StreamOf, Abandoned, probing
<1>5. ASSUME NEW d \in Cap, d # c PROVE StreamOf(d)'
  BY <1>1, <1>2, <1>3, <1>5, ChainType DEF Streams, StreamOf, probing
<1> QED
  BY <1>1, <1>3, <1>4, <1>5 DEF Streams

LEMMA StreamersStep ==
    ASSUME TypeOK, Streams, NEW c \in Cap, StreamAction(c)
    PROVE  Streams'
<1>1. ASSUME UNCHANGED <<probing, streaming>> PROVE Streams'
  BY <1>1, StreamsKept DEF Removed, probing
<1>2. CASE StreamOnRemoving(c) \/ StreamOffBadThread(c) \/ ThreadFaults(c)
  BY <1>1, <1>2 DEF StreamOnRemoving, StreamOffBadThread, ThreadFaults, Crash
<1>3. CASE TerminateEntity(c)
  BY <1>1, <1>3, TerminateKeeps DEF TerminateEntity, Crash
<1>4. CASE MediaStop(c)
  BY <1>1, <1>4, MediaStopKeeps DEF MediaStop, Crash
<1> QED
  BY <1>2, <1>3, <1>4, StreamOnKeeps, StartEntityKeeps, StartFailsKeeps,
     ThreadKeeps DEF StreamAction

\* While the device is being added no capture streams, and none streams any
\* more when the removal has come past it.
LEMMA DeviceStreams ==
    TypeOK /\ Streams /\ (Probe \/ Removal) => Streams'
<1> SUFFICES ASSUME TypeOK, Streams, Probe \/ Removal PROVE Streams'
  OBVIOUS
<1>0. list \in Lists /\ Len(list) \in Nat /\ at \in 1..Len(list) + 1
  BY ListType DEF TypeOK
<1>1. CASE Probe
  <2>1. step = "adding" /\ UNCHANGED streaming
    BY <1>1 DEF Probe, AddEntity, AddFails, Bind
  <2> QED
    BY <2>1, StreamsKept
<1>2. CASE Unplug
  <2>1. \A c \in Cap : ~Removed(c)' /\ step' # "adding"
    BY <1>0, <1>2 DEF Unplug, Removed
  <2> QED
    BY <1>2, <2>1, StreamsKept DEF Unplug
<1>3. ASSUME NEW e \in Ent, RemoveSubdev(e) \/ RemoveCapture(e) PROVE Streams'
  <2>1. /\ step = "removing" /\ UNCHANGED <<list, step, streaming>>
        /\ e = list[at] /\ at' = at + 1 /\ (e \in Cap => stream[e] = "off")
    BY <1>3 DEF RemoveSubdev, RemoveCapture, Removing
  <2>2. \A c \in Cap : Removed(c)' => Removed(c) \/ c = e
    BY <1>0, <2>1 DEF Removed
  <2> QED
    BY <2>1, <2>2, StreamsKept
<1>4. ASSUME NEW e \in Ent, RemoveStreaming(e) PROVE Streams'
  BY <1>4, StreamsKept DEF RemoveStreaming, Crash, Removed, probing
<1>5. CASE RemoveEnds
  <2>1. \A c \in Cap : Removed(c)
    BY <1>0, <1>5, ListType, ChainType DEF RemoveEnds, Removed
  <2> QED
    BY <1>5, <2>1, StreamsKept DEF RemoveEnds
<1> QED
  BY <1>1, <1>2, <1>3, <1>4, <1>5 DEF Removal

LEMMA StreamsStep == TypeOK /\ Streams /\ [Next]_vars => Streams'
<1> SUFFICES ASSUME TypeOK, Streams, [Next]_vars PROVE Streams'
  OBVIOUS
<1>1. ASSUME NEW e \in Ent, Open(e) \/ Close(e) PROVE Streams'
  <2>1. UNCHANGED <<probing, streaming>>
    BY <1>1 DEF Open, Close
  <2> QED
    BY <2>1, StreamsKept DEF Removed, probing
<1>2. CASE UNCHANGED vars
  BY <1>2, StreamsKept DEF Removed, vars, probing
<1> QED
  BY <1>1, <1>2, StreamersStep, DeviceStreams
  DEF Next, Program, Streamer, StreamAction

\* What each streamer holds follows from what it is doing, through every start
\* and stop that fails.
THEOREM StreamsHold == Spec => []Streams
BY TypeCorrect, InitStreams, StreamsStep, PTL DEF Spec

\* Two streams never share a subdevice, and no frame but those an abandoned
\* stream left; a sensor lets go of none but those.
THEOREM StreamsAreExclusive == Spec => []StreamsExclusive
<1>1. TypeOK /\ Streams => StreamsExclusive
  <2> SUFFICES ASSUME TypeOK, Streams PROVE StreamsExclusive
    OBVIOUS
  <2>1. ASSUME NEW e \in Ent, frame[e] # NULL, ~Abandoned(frame[e])
        PROVE  pipe[e] = frame[e]
    <3>1. frame[e] \in Cap
      BY <2>1 DEF TypeOK
    <3>2. PICK k \in 2..size[frame[e]] : Chain[frame[e]][k] = e
      BY <3>1 DEF Streams, StreamOf
    <3>3. size[frame[e]] \in Nat /\ size[frame[e]] # 0
      BY <3>1, <3>2 DEF TypeOK
    <3>4. stream[frame[e]] # "off" /\ k \in 1..Len(Chain[frame[e]])
      BY <2>1, <3>1, <3>2, <3>3, ChainType DEF Streams, StreamOf, TypeOK
    <3> QED
      BY <3>1, <3>2, <3>4, ChainType DEF Streams, StreamOf
  <2>2. ASSUME NEW c \in Cap, stream[c] = "on", ~Abandoned(c), NEW k \in 2..size[c]
        PROVE  /\ pipe[Chain[c][k]] = c
               /\ frame[Chain[c][k]] # NULL
               /\ frame[Chain[c][k]] = c \/ Abandoned(frame[Chain[c][k]])
    <3>1. k \in 1..Len(Chain[c])
      BY ChainType DEF TypeOK
    <3>2. Chain[c][k] \in Reach[c]
      BY <3>1, ChainType
    <3>3. frame[Chain[c][k]] = c \/ Dead(frame[Chain[c][k]])
      BY <2>2 DEF Streams, StreamOf
    <3>4. pipe[Chain[c][k]] = c
      BY <2>2, <3>2 DEF Streams, StreamOf
    <3> QED
      BY <3>3, <3>4, ChainType DEF Dead
  <2> QED
    BY <2>1, <2>2 DEF Streams, StreamsExclusive
<1> QED
  BY <1>1, TypeCorrect, StreamsHold, PTL

\* A capture that does not stream has given the graph back, and the frames too
\* if it did not abandon its stream.
THEOREM IdleCapturesLeaveGraph == Spec => []IdleLeavesGraph
<1>1. TypeOK /\ Streams => IdleLeavesGraph
  <2> SUFFICES ASSUME TypeOK, Streams, NEW c \in Cap, stream[c] = "off", NEW e \in Ent
               PROVE  pipe[e] # c /\ (frame[e] = c => Abandoned(c))
    BY DEF IdleLeavesGraph
  <2>1. pipe[e] # c
    BY DEF Streams, StreamOf
  <2>2. ASSUME frame[e] = c, ~Abandoned(c) PROVE FALSE
    BY <2>2 DEF Streams, StreamOf
  <2> QED
    BY <2>1, <2>2
<1> QED
  BY <1>1, TypeCorrect, StreamsHold, PTL

\* A device that is gone leaves nothing behind but what programs hold open and
\* the frames of abandoned streams.
THEOREM NothingIsLeaked == Spec => []NothingLeaks
<1>1. TypeOK /\ Ledger /\ Streams => NothingLeaks
  <2> SUFFICES ASSUME TypeOK, Ledger, Streams, step = "gone",
                      NEW e \in Ent, ~open[e]
               PROVE  res[e] = {} /\ (frame[e] # NULL => Abandoned(frame[e]))
    BY DEF NothingLeaks
  <2>1. res[e] = {}
    BY DEF Ledger, Owned, Added, Removed
  <2>2. ASSUME frame[e] \in Cap, ~Abandoned(frame[e]) PROVE FALSE
    <3>1. stream[frame[e]] = "off"
      BY <2>2 DEF Streams, StreamOf, Removed
    <3> QED
      BY <2>2, <3>1 DEF Streams, StreamOf
  <2> QED
    BY <2>1, <2>2 DEF TypeOK
<1> QED
  BY <1>1, TypeCorrect, LedgerHolds, StreamsHold, PTL

-----------------------------------------------------------------------------
(* Streams over entities that are there.                                     *)

\* Without a removal that passed it, what streams is there.
LEMMA PipelineLives ==
    ASSUME TypeOK, Ledger, Streams, Alive, CapturesFirst,
           NEW c \in Cap, stream[c] # "off", NEW k \in 1..size[c]
    PROVE  Live(Chain[c][k])
<1>0. /\ list \in Lists /\ Len(list) \in Nat /\ at \in 1..Len(list) + 1
      /\ k \in 1..Len(Chain[c]) /\ Chain[c][k] \in Ent
  BY ListType, ChainType DEF TypeOK
<1>1. ~Removed(c) /\ step # "adding"
  BY DEF Streams, StreamOf
<1>2. ~Removed(Chain[c][k])
  <2>1. CASE k = 1
    BY <1>1, <2>1, ChainType
  <2>2. CASE k # 1
    <3> SUFFICES ASSUME NEW j \in 1..Len(list), step = "removing",
                        j < at, list[j] = Chain[c][k]
                 PROVE  FALSE
      BY <1>1 DEF Removed
    <3>1. PICK i \in 1..Len(list) : list[i] = c
      BY <1>0, ListType, ChainType
    <3>2. i < j
      BY <1>0, <2>2, <3>1 DEF CapturesFirst
    <3> QED
      BY <1>0, <1>1, <3>1, <3>2 DEF Removed
  <2> QED
    BY <2>1, <2>2
<1>3. res[Chain[c][k]] = Range(Steps(Kind[Chain[c][k]]))
  BY <1>0, <1>1, <1>2 DEF Ledger, Alive, Owned, Added
<1> QED
  BY <1>0, <1>3, EntKind DEF Live

\* Removal reaches a capture before what it streams from.
THEOREM StreamsUseLiveEntities == Spec => []StreamUsesLiveEntities
<1>1. Init => StreamUsesLiveEntities
  BY DEF Init, StreamUsesLiveEntities
<1>2. TypeOK /\ Ledger /\ Streams /\ StreamUsesLiveEntities /\ [Next]_vars
      => StreamUsesLiveEntities'
  <2> SUFFICES ASSUME TypeOK, Ledger, Streams, StreamUsesLiveEntities,
                      [Next]_vars, CapturesFirst', oops' = "use_after_free"
               PROVE  FALSE
    BY DEF StreamUsesLiveEntities
  <2>0. oops # "use_after_free" /\ CapturesFirst
    <3>1. list' = list
      BY DEF Next, Probe, Program, Streamer, Removal, AddEntity, AddFails, Bind,
             Open, Close, StreamOn, StreamOnAlready, TakesPipe, StreamOnRemoving,
             StreamOff, StreamOffEarly, StreamOffBadThread, StartEntity, StartFails,
             StartThread, StartThreadFails, WalkEnds, ThreadBegins, ThreadFaults,
             TerminateEntity, MediaStop, Unplug, RemoveSubdev, RemoveCapture,
             RemoveStreaming, RemoveEnds, Crash, vars, probing
    <3> QED
      BY <3>1 DEF CapturesFirst, StreamUsesLiveEntities
  <2>1. PICK c \in Cap :
          /\ Alive /\ stream[c] # "off"
          /\ \/ PipelineFreed(c)
             \/ size[c] > 0 /\ ~Live(Chain[c][size[c]])
    <3>1. CASE Probe \/ Program
      BY <2>0, <3>1 DEF Probe, Program, AddEntity, AddFails, Bind, Open, Close,
             StreamOn, StreamOnAlready, TakesPipe, StreamOnRemoving, StreamOff,
             StreamOffEarly, StreamOffBadThread, Crash
    <3>2. CASE Streamer
      BY <2>0, <3>2 DEF Streamer, StartEntity, StartFails, StartThread,
             StartThreadFails, WalkEnds, ThreadBegins, ThreadFaults,
             TerminateEntity, MediaStop, Walks, Crash
    <3>3. CASE Removal
      BY <2>0, <3>3 DEF Removal, Unplug, RemoveSubdev, RemoveCapture,
             RemoveStreaming, RemoveEnds, Removing, Crash
    <3> QED
      BY <2>0, <3>1, <3>2, <3>3 DEF Next, vars
  <2>2. \E k \in 1..size[c] : ~Live(Chain[c][k])
    <3>1. size[c] \in Nat
      BY DEF TypeOK
    <3>2. size[c] > 0 => size[c] \in 1..size[c]
      BY <3>1
    <3> QED
      BY <2>1, <3>2 DEF PipelineFreed
  <2> QED
    BY <2>0, <2>1, <2>2, PipelineLives
<1> QED
  BY <1>1, <1>2, TypeCorrect, LedgerHolds, StreamsHold, PTL DEF Spec

-----------------------------------------------------------------------------
(* Streams and handles.                                                      *)

\* A capture streams under the handle of the program that started it.
Handles == \A c \in Cap : stream[c] # "off" => open[c]

LEMMA HandlesStep == TypeOK /\ Handles /\ [Next]_vars => Handles'
<1> SUFFICES ASSUME TypeOK, Handles, [Next]_vars PROVE Handles'
  OBVIOUS
<1>1. ASSUME UNCHANGED <<open, stream>> PROVE Handles'
  BY <1>1 DEF Handles
<1>2. ASSUME NEW e \in Ent, Open(e) \/ Close(e) PROVE Handles'
  BY <1>2 DEF Open, Close, Handles, TypeOK, streaming, Cap
<1>3. ASSUME NEW c \in Cap, StreamAction(c) PROVE Handles'
  <2>1. /\ open' = open
        /\ \A d \in Cap : d # c => stream'[d] = stream[d]
        /\ stream'[c] # "off" => stream[c] # "off" \/ open[c]
    BY <1>3 DEF StreamAction, StreamOn, StreamOnAlready, TakesPipe,
           StreamOnRemoving, StreamOff, StreamOffEarly, StreamOffBadThread,
           Stopping, StartEntity, StartFails, Walks, StartThread,
           StartThreadFails, WalkEnds, ThreadBegins, ThreadFaults,
           TerminateEntity, MediaStop, Crash, streaming, TypeOK
  <2> QED
    BY <2>1 DEF Handles
<1>4. CASE Probe \/ Removal \/ UNCHANGED vars
  <2>1. UNCHANGED <<open, stream>>
    BY <1>4 DEF Probe, AddEntity, AddFails, Bind, Removal, Unplug, RemoveSubdev,
           RemoveCapture, RemoveStreaming, RemoveEnds, Crash, streaming, vars
  <2> QED
    BY <1>1, <2>1
<1> QED
  BY <1>2, <1>3, <1>4 DEF Next, Program, Streamer, StreamAction

THEOREM HandlesHold == Spec => []Handles
<1>1. Init => Handles
  BY DEF Init, Handles
<1> QED
  BY <1>1, TypeCorrect, HandlesStep, PTL DEF Spec

\* A device that is bound has all its entities.
LEMMA BoundLives ==
    ASSUME Ledger, Alive, step = "bound", NEW e \in Ent
    PROVE  Live(e)
<1>1. res[e] = Range(Steps(Kind[e]))
  BY DEF Ledger, Alive, Owned, Added, Removed
<1> QED
  BY <1>1, EntKind DEF Live

\* A capture streams between the end of the probe and its own removal.
LEMMA StreamsWhile ==
    ASSUME TypeOK, Streams, NEW c \in Cap, stream[c] # "off"
    PROVE  step \in {"bound", "removing"} /\ ~Removed(c)
BY DEF Streams, StreamOf, TypeOK, Removed

\* A freed entity or a missing media device is met only when a device is
\* removed under an open capture.
LEMMA RemovalFaults ==
    ASSUME TypeOK, Ledger, Streams, Handles, StreamFaultsNeedHandle, [Next]_vars,
           oops' \in {"use_after_free", "no_media_device"}
    PROVE  step' = "removing" /\ \E c \in Cap : open'[c]
<1>1. CASE UNCHANGED vars
  BY <1>1 DEF StreamFaultsNeedHandle, vars, probing
<1>2. ASSUME NEW c \in Cap, open[c], step = "removing",
             UNCHANGED <<probing, open>>
      PROVE  step' = "removing" /\ \E d \in Cap : open'[d]
  BY <1>2 DEF probing
<1>3. ASSUME NEW c \in Cap, StreamAction(c)
      PROVE  step' = "removing" /\ \E d \in Cap : open'[d]
  <2>1. /\ Alive /\ UNCHANGED <<probing, open>>
        /\ \/ StreamOnRemoving(c)
           \/ ThreadFaults(c) /\ PipelineFreed(c)
           \/ TerminateEntity(c) /\ ~Live(Chain[c][size[c]])
           \/ MediaStop(c) /\ ~MediaDevice
    BY <1>3 DEF StreamAction, StreamOn, StreamOnAlready, TakesPipe,
           StreamOnRemoving, StreamOff, StreamOffEarly, StreamOffBadThread,
           Stopping, StartEntity, StartFails, Walks, StartThread,
           StartThreadFails, WalkEnds, ThreadBegins, ThreadFaults,
           TerminateEntity, MediaStop, Crash, Alive
  <2>2. CASE StreamOnRemoving(c)
    <3>1. open[c] /\ Registered(c) /\ step # "bound"
      BY <2>2 DEF StreamOnRemoving, MediaDevice
    <3>2. step # "adding" /\ step # "gone"
      BY <2>1, <3>1, RegisteredIs, ChainType DEF Ledger, Removed
    <3> QED
      BY <1>2, <2>1, <3>1, <3>2 DEF TypeOK
  <2>3. CASE ~StreamOnRemoving(c)
    <3>1. stream[c] # "off"
      BY <2>1, <2>3 DEF ThreadFaults, TerminateEntity, MediaStop
    <3>2. step # "bound"
      <4>1. CASE MediaStop(c) /\ ~MediaDevice
        BY <4>1 DEF MediaDevice
      <4>2. CASE ThreadFaults(c) /\ PipelineFreed(c)
        <5>1. PICK k \in 1..size[c] : ~Live(Chain[c][k])
          BY <4>2 DEF PipelineFreed
        <5>2. Chain[c][k] \in Ent
          BY <5>1, ChainType DEF TypeOK
        <5> QED
          BY <2>1, <5>1, <5>2, BoundLives
      <4>3. CASE TerminateEntity(c) /\ ~Live(Chain[c][size[c]])
        <5>1. Chain[c][size[c]] \in Ent
          BY <4>3, ChainType DEF TerminateEntity, TypeOK
        <5> QED
          BY <2>1, <4>3, <5>1, BoundLives
      <4> QED
        BY <2>1, <2>3, <4>1, <4>2, <4>3
    <3>3. step = "removing" /\ open[c]
      BY <3>1, <3>2, StreamsWhile DEF Handles
    <3> QED
      BY <1>2, <2>1, <3>3
  <2> QED
    BY <2>2, <2>3
<1>4. ASSUME NEW e \in Ent, RemoveStreaming(e)
      PROVE  step' = "removing" /\ \E d \in Cap : open'[d]
  <2>1. e \in Cap /\ open[e] /\ step = "removing" /\ UNCHANGED <<probing, open>>
    BY <1>4 DEF RemoveStreaming, Removing, Crash, Handles
  <2> QED
    BY <1>2, <2>1
<1>5. CASE \/ Probe \/ Unplug \/ RemoveEnds
           \/ \E e \in Ent : \/ Open(e) \/ Close(e)
                             \/ RemoveSubdev(e) \/ RemoveCapture(e)
  BY <1>5 DEF Probe, AddEntity, AddFails, Bind, Unplug, RemoveEnds, Open, Close,
         RemoveSubdev, RemoveCapture, Removing, Alive
<1> QED
  BY <1>1, <1>3, <1>4, <1>5 DEF Next, Program, Streamer, Removal, StreamAction

\* A bad thread pointer is stopped only where an earlier start or stop of that
\* capture left it.
LEMMA ThreadFaultsOnly ==
    ASSUME Streams, Handles, StreamFaultsNeedHandle, [Next]_vars,
           oops' = "bad_kthread"
    PROVE  \E c \in Cap : open'[c] /\ Abandoned(c)' /\ stream'[c] # "off"
<1>1. CASE UNCHANGED vars
  BY <1>1 DEF StreamFaultsNeedHandle, Abandoned, vars, streaming
<1>2. CASE ~UNCHANGED vars
  <2>1. PICK c \in Cap : /\ Abandoned(c) /\ stream[c] # "off"
                         /\ StreamOffBadThread(c) \/ RemoveStreaming(c)
    <3>1. Alive
      BY <1>2 DEF Next, Probe, Program, Streamer, Removal, AddEntity, AddFails, Bind,
             Open, Close, StreamOn, StreamOnAlready, TakesPipe, StreamOnRemoving,
             StreamOff, StreamOffEarly, StreamOffBadThread, Stopping, StartEntity,
             StartFails, Walks, StartThread, StartThreadFails, WalkEnds,
             ThreadBegins, ThreadFaults, TerminateEntity, MediaStop, Unplug,
             RemoveSubdev, RemoveCapture, RemoveStreaming, Removing, RemoveEnds
    <3>2. CASE \E c \in Cap : StreamOffBadThread(c)
      BY <3>2 DEF StreamOffBadThread, Stopping
    <3>3. CASE \E e \in Ent : RemoveStreaming(e)
      BY <3>3 DEF RemoveStreaming, Removing, Crash
    <3>4. CASE Probe \/ Program
      BY <3>1, <3>2, <3>4 DEF Probe, Program, AddEntity, AddFails, Bind, Open, Close,
             StreamOn, StreamOnAlready, TakesPipe, StreamOnRemoving, StreamOff,
             StreamOffEarly, Crash, Alive
    <3>5. CASE Streamer
      BY <3>1, <3>5 DEF Streamer, StartEntity, StartFails, Walks, StartThread,
             StartThreadFails, WalkEnds, ThreadBegins, ThreadFaults,
             TerminateEntity, MediaStop, Crash, Alive
    <3>6. CASE Removal
      BY <3>1, <3>3, <3>6 DEF Removal, Unplug, RemoveSubdev, RemoveCapture,
             RemoveEnds, Alive
    <3> QED
      BY <1>2, <3>4, <3>5, <3>6 DEF Next
  <2>2. UNCHANGED <<open, streaming>>
    BY <2>1 DEF StreamOffBadThread, RemoveStreaming, Crash
  <2> QED
    BY <2>1, <2>2 DEF Handles, Abandoned, streaming
<1> QED
  BY <1>1, <1>2

\* A stream stops the kernel only under an open capture: by a removal, or by the
\* stop of one that abandoned its stream before.
THEOREM StreamFaultsUnderHandles == Spec => []StreamFaultsNeedHandle
<1>1. Init => StreamFaultsNeedHandle
  BY DEF Init, StreamFaultsNeedHandle
<1>2. /\ TypeOK /\ Ledger /\ Streams /\ Handles /\ StreamFaultsNeedHandle
      /\ [Next]_vars
      => StreamFaultsNeedHandle'
  BY RemovalFaults, ThreadFaultsOnly DEF StreamFaultsNeedHandle
<1> QED
  BY <1>1, <1>2, TypeCorrect, LedgerHolds, StreamsHold, HandlesHold, PTL DEF Spec

-----------------------------------------------------------------------------
(* Add functions that fail.                                                  *)

\* The failures of an entity's add function, each with the path taken for it.
Balanced(kind, r) ==
    /\ HeldAt(kind, r) = Range(Errors(kind, r))
    /\ \A i, j \in DOMAIN Errors(kind, r) :
           j < i => Errors(kind, r)[j] # Errors(kind, r)[i]

LEMMA SensorBalanced ==
    ASSUME NEW r \in {"mem", "pads", "sd"} PROVE Balanced("sen", r)
<1> USE DEF Balanced, HeldAt, Errors, Steps, SensorSteps, SensorErrors, Range
<1>1. CASE r = "mem"
  BY <1>1
<1>2. CASE r = "pads"
  BY <1>2
<1>3. CASE r = "sd"
  BY <1>3
<1> QED
  BY <1>1, <1>2, <1>3

LEMMA SubdevBalanced ==
    ASSUME NEW r \in {"mem", "pads", "sd"} PROVE Balanced("proc", r)
<1> USE DEF Balanced, HeldAt, Errors, Steps, SubdevSteps, SubdevErrors, Range
<1>1. CASE r = "mem"
  BY <1>1
<1>2. CASE r = "pads"
  BY <1>2
<1>3. CASE r = "sd"
  BY <1>3
<1> QED
  BY <1>1, <1>2, <1>3

LEMMA CaptureBalanced ==
    ASSUME NEW r \in {"mem", "pads", "queue", "node"} PROVE Balanced("cap", r)
<1> USE DEF Balanced, HeldAt, Errors, Steps, CaptureSteps, CaptureErrors, Range
<1>1. CASE r = "mem"
  BY <1>1
<1>2. CASE r = "pads"
  BY <1>2
<1>3. CASE r = "queue"
  BY <1>3
<1>4. CASE r = "node"
  BY <1>4
<1> QED
  BY <1>1, <1>2, <1>3, <1>4

\* A balanced path frees each resource once and leaves none.
LEMMA BalancedPath ==
    ASSUME NEW kind, NEW r, Balanced(kind, r)
    PROVE  /\ HeldAt(kind, r) \ Range(Errors(kind, r)) = {}
           /\ ~FreesTwice(Errors(kind, r), HeldAt(kind, r))
<1>1. \A i \in DOMAIN Errors(kind, r) : Errors(kind, r)[i] \in HeldAt(kind, r)
  BY DEF Balanced, Range
<1>2. ASSUME FreesTwice(Errors(kind, r), HeldAt(kind, r)) PROVE FALSE
  <2>1. PICK i \in DOMAIN Errors(kind, r) :
          \E j \in DOMAIN Errors(kind, r) :
              j < i /\ Errors(kind, r)[j] = Errors(kind, r)[i]
    BY <1>1, <1>2 DEF FreesTwice
  <2>2. PICK j \in DOMAIN Errors(kind, r) :
          j < i /\ Errors(kind, r)[j] = Errors(kind, r)[i]
    BY <2>1
  <2> QED
    BY <2>2 DEF Balanced
<1> QED
  BY <1>2 DEF Balanced

\* Any add function that fails, but for a sensor's at its control handler or
\* test pattern generator, gives back what it took, once each.
THEOREM FailedAddsRelease ==
    Mishap \cap {"hdl", "tpg"} = {} => (Spec => []FailedAddReleases)
<1> SUFFICES ASSUME Mishap \cap {"hdl", "tpg"} = {}
             PROVE  Spec => []FailedAddReleases
  OBVIOUS
<1>1. Init => FailedAddReleases
  BY DEF Init, FailedAddReleases
<1>2. TypeOK /\ FailedAddReleases /\ [Next]_vars => FailedAddReleases'
  <2> SUFFICES ASSUME TypeOK, FailedAddReleases, [Next]_vars
               PROVE  FailedAddReleases'
    OBVIOUS
  <2>1. CASE AddFails
    <3>0. /\ list' = list /\ at' = at /\ list[at] \in Ent
          /\ res \in [Ent -> SUBSET Resource]
      BY <2>1, ListType DEF AddFails, probing, TypeOK
    <3> DEFINE kind == Kind[list[at]]
    <3> PICK r \in Mishap \cap Range(Steps(kind)) :
           LET held == HeldAt(kind, r)
               path == Errors(kind, r)
           IN  /\ res' = [res EXCEPT ![list[at]] = held \ Range(path)]
               /\ oops' = IF FreesTwice(path, held) THEN "double_free"
                          ELSE "null_deref"
      BY <2>1 DEF AddFails
    <3>1. r \notin {"hdl", "tpg"}
      OBVIOUS
    <3>2. Balanced(kind, r)
      BY <3>0, <3>1, EntKind, StepsHeld, SensorBalanced, SubdevBalanced, CaptureBalanced
    <3>3. res'[list[at]] = {} /\ oops' = "null_deref"
      BY <3>0, <3>2, BalancedPath
    <3> QED
      BY <3>0, <3>3 DEF FailedAddReleases
  <2>2. CASE ~AddFails /\ ~UNCHANGED vars
    <3>1. Alive /\ oops' \notin {"double_free", "null_deref"}
      BY <2>2 DEF Next, Probe, Program, Streamer, Removal, AddEntity, Bind,
             Open, Close, StreamOn, StreamOnAlready, TakesPipe, StreamOnRemoving,
             StreamOff, StreamOffEarly, StreamOffBadThread, Stopping, StartEntity,
             StartFails, StartThread, StartThreadFails, WalkEnds, ThreadBegins,
             ThreadFaults, TerminateEntity, MediaStop, Unplug, RemoveSubdev,
             RemoveCapture, RemoveStreaming, RemoveEnds, Crash, Walks, Removing, Alive
    <3> QED
      BY <3>1 DEF FailedAddReleases
  <2>3. CASE UNCHANGED vars
    BY <2>3 DEF FailedAddReleases, vars, probing
  <2> QED
    BY <2>1, <2>2, <2>3
<1> QED
  BY <1>1, <1>2, TypeCorrect, PTL DEF Spec

-----------------------------------------------------------------------------
(* VimcLifetime implements VimcSharedGraph.                                  *)

\* Adding an entity that fails leaves no object: all but the failure of the
\* allocation itself go past the kfree of it.
LEMMA FailedAddFrees ==
    ASSUME NEW kind \in {"cap", "proc", "sen"}, NEW r \in Range(Steps(kind))
    PROVE  "mem" \notin HeldAt(kind, r) \ Range(Errors(kind, r))
<1> USE DEF Steps
<1>1. CASE r = "mem"
  <2>1. \A s \in {SensorSteps, SubdevSteps, CaptureSteps} :
            \A j \in DOMAIN s : s[j] = "mem" => j = 1
    BY DEF SensorSteps, SubdevSteps, CaptureSteps
  <2>2. HeldAt(kind, r) = {}
    BY <1>1, <2>1 DEF HeldAt, SensorSteps, SubdevSteps, CaptureSteps
  <2> QED
    BY <2>2
<1>2. CASE r # "mem"
  <2>1. CASE kind = "sen"
    <3>1. r \in {"hdl", "pads", "sd", "tpg"}
      BY <1>2, <2>1, StepsHeld
    <3>2. /\ SensorErrors("hdl")[1] = "mem" /\ 1 \in DOMAIN SensorErrors("hdl")
          /\ SensorErrors("pads")[2] = "mem" /\ 2 \in DOMAIN SensorErrors("pads")
          /\ SensorErrors("sd")[3] = "mem" /\ 3 \in DOMAIN SensorErrors("sd")
          /\ SensorErrors("tpg")[7] = "mem" /\ 7 \in DOMAIN SensorErrors("tpg")
      BY DEF SensorErrors, Release
    <3>3. PICK i \in DOMAIN SensorErrors(r) : SensorErrors(r)[i] = "mem"
      BY <3>1, <3>2
    <3> QED
      BY <2>1, <3>3 DEF Errors, Range
  <2>2. CASE kind = "proc"
    <3>1. r \in {"pads", "sd"}
      BY <1>2, <2>2, StepsHeld
    <3>2. /\ SubdevErrors("pads")[1] = "mem" /\ 1 \in DOMAIN SubdevErrors("pads")
          /\ SubdevErrors("sd")[2] = "mem" /\ 2 \in DOMAIN SubdevErrors("sd")
      BY DEF SubdevErrors
    <3>3. PICK i \in DOMAIN SubdevErrors(r) : SubdevErrors(r)[i] = "mem"
      BY <3>1, <3>2
    <3> QED
      BY <2>2, <3>3 DEF Errors, Range
  <2>3. CASE kind = "cap"
    <3>1. r \in {"pads", "queue", "node"}
      BY <1>2, <2>3, StepsHeld
    <3>2. /\ CaptureErrors("pads")[1] = "mem" /\ 1 \in DOMAIN CaptureErrors("pads")
          /\ CaptureErrors("queue")[2] = "mem" /\ 2 \in DOMAIN CaptureErrors("queue")
          /\ CaptureErrors("node")[3] = "mem" /\ 3 \in DOMAIN CaptureErrors("node")
      BY DEF CaptureErrors
    <3>3. PICK i \in DOMAIN CaptureErrors(r) : CaptureErrors(r)[i] = "mem"
      BY <3>1, <3>2
    <3> QED
      BY <2>3, <3>3 DEF Errors, Range
  <2> QED
    BY <2>1, <2>2, <2>3
<1> QED
  BY <1>1, <1>2

\* What the shared graph does not see.
LEMMA Unseen ==
    ASSUME UNCHANGED <<step, res, open, pipe, frame>>,
           \A c \in Cap : Abandoned(c)' <=> Abandoned(c)
    PROVE  UNCHANGED Graph!vars
BY DEF Graph!vars, GraphPhase, Present, InHand, GivenUp, Live

LEMMA CrashUnseen ==
    ASSUME NEW how, Crash(how)
    PROVE  UNCHANGED Graph!vars
BY Unseen DEF Crash, Abandoned, probing, streaming

LEMMA NoOwner ==
    ASSUME TypeOK, Streams, NEW e \in Ent, e \in Cap => stream[e] = "off"
    PROVE  ~Graph!Owns(e)
<1> SUFFICES ASSUME NEW x \in Ent, pipe[x] = e PROVE FALSE
  BY DEF Graph!Owns
<1>1. e \in Cap
  BY LifetimeAssumption DEF TypeOK
<1> QED
  BY <1>1 DEF Streams, StreamOf

LEMMA InitGraph == Init => Graph!Init
<1> SUFFICES ASSUME Init PROVE Graph!Init
  OBVIOUS
<1>1. GraphPhase = "building" /\ Present = {} /\ InHand = {} /\ GivenUp = {}
  BY DEF Init, GraphPhase, Present, InHand, GivenUp, Abandoned, Live
<1> QED
  BY <1>1 DEF Init, Graph!Init

LEMMA ProbeGraph ==
    ASSUME TypeOK, Ledger, Probe
    PROVE  [Graph!Next]_(Graph!vars)
<1>0. list \in Lists /\ Len(list) \in Nat /\ at \in 1..Len(list) + 1
  BY ListType DEF TypeOK
<1>1. CASE AddEntity
  <2> DEFINE e == list[at]
  <2>0. /\ step = "adding" /\ step' = step /\ at <= Len(list) /\ oops = "no"
        /\ UNCHANGED <<open, pipe, frame>> /\ e \in Ent /\ GivenUp' = GivenUp
        /\ res' = [res EXCEPT ![e] = Range(Steps(Kind[e]))]
    BY <1>0, <1>1, ListType DEF AddEntity, Alive, GivenUp, Abandoned, streaming
  <2>1. e \notin Present
    <3>1. ~Added(e)
      BY <1>0, <2>0, ListType DEF Added
    <3> QED
      BY <2>0, <3>1 DEF Ledger, Owned, Present, Live
  <2>2. Present' = Present \cup {e}
    BY <2>0, EntKind DEF Present, Live, TypeOK
  <2>3. GraphPhase = "building" /\ GraphPhase' = "building" /\ InHand' = InHand
    BY <2>0 DEF GraphPhase, InHand
  <2>4. Graph!Create(e)
    BY <2>0, <2>1, <2>2, <2>3 DEF Graph!Create
  <2> QED
    BY <2>0, <2>4 DEF Graph!Next
<1>2. CASE AddFails
  <2> DEFINE e == list[at]
  <2>0. /\ step = "adding" /\ step' = step /\ at <= Len(list) /\ oops = "no"
        /\ UNCHANGED <<open, pipe, frame>> /\ e \in Ent /\ GivenUp' = GivenUp
    BY <1>0, <1>2, ListType
    DEF AddFails, Alive, GivenUp, Abandoned, probing, streaming
  <2>1. PICK r \in Range(Steps(Kind[e])) :
          res' = [res EXCEPT ![e] = HeldAt(Kind[e], r) \ Range(Errors(Kind[e], r))]
    BY <1>2 DEF AddFails
  <2>2. "mem" \notin HeldAt(Kind[e], r) \ Range(Errors(Kind[e], r))
    BY <2>0, EntKind, FailedAddFrees
  <2>3. e \notin Present
    <3>1. ~Added(e)
      BY <1>0, <2>0, ListType DEF Added
    <3> QED
      BY <2>0, <3>1 DEF Ledger, Owned, Present, Live
  <2>4. Present' = Present
    BY <2>0, <2>1, <2>2, <2>3 DEF Present, Live, TypeOK
  <2>5. GraphPhase' = GraphPhase /\ InHand' = InHand
    BY <2>0 DEF GraphPhase, InHand
  <2> QED
    BY <2>0, <2>4, <2>5 DEF Graph!vars
<1>3. CASE Bind
  <2>0. /\ step = "adding" /\ step' = "bound" /\ at > Len(list) /\ oops = "no"
        /\ UNCHANGED <<res, open, pipe, frame>> /\ GivenUp' = GivenUp
    BY <1>3 DEF Bind, Alive, GivenUp, Abandoned, streaming
  <2>1. \A e \in Ent : Added(e) /\ ~Removed(e)
    BY <1>0, <2>0, ListType DEF Added, Removed
  <2>2. Present = Ent
    BY <2>0, <2>1, EntKind DEF Ledger, Owned, Present, Live
  <2>3. /\ GraphPhase = "building" /\ GraphPhase' = "plugged"
        /\ InHand' = InHand /\ Present' = Present
    BY <2>0 DEF GraphPhase, InHand, Present, Live
  <2>4. Graph!Plug
    BY <2>0, <2>2, <2>3 DEF Graph!Plug
  <2> QED
    BY <2>4 DEF Graph!Next
<1> QED
  BY <1>1, <1>2, <1>3 DEF Probe

LEMMA HandleGraph ==
    ASSUME TypeOK, Ledger, Streams, NEW e \in Ent, Open(e) \/ Close(e)
    PROVE  [Graph!Next]_(Graph!vars)
<1>0. /\ Alive /\ step # "adding" /\ UNCHANGED <<step, pipe, frame>>
      /\ GivenUp' = GivenUp
      /\ GraphPhase # "building" /\ GraphPhase' = GraphPhase
      /\ res[e] = Owned(e) /\ Added(e) /\ step' = step
  BY DEF Open, Close, Ledger, Alive, Added, GraphPhase, GivenUp, Abandoned,
         probing, streaming, TypeOK
<1>1. CASE Open(e)
  <2>1. e \in Present \ InHand
    BY <1>0, <1>1, RegisteredIs, EntKind DEF Open, Owned, Present, InHand, Live
  <2>2. Present' = Present /\ InHand' = InHand \cup {e}
    BY <1>1 DEF Open, Present, InHand, Live, TypeOK
  <2>3. Graph!Hold(e)
    BY <1>0, <2>1, <2>2 DEF Graph!Hold
  <2> QED
    BY <2>3 DEF Graph!Next
<1>2. CASE Close(e)
  <2>1. ~Graph!Owns(e)
    BY <1>2, NoOwner DEF Close
  <2>2. e \in InHand /\ InHand' = InHand \ {e}
    BY <1>2 DEF Close, InHand, TypeOK
  <2>3. \/ Present' = Present
        \/ GraphPhase = "unplugged" /\ Present' = Present \ {e}
    <3>1. CASE Registered(e)
      <4>1. res' = res
        BY <1>2, <3>1 DEF Close
      <4>2. Present' = Present
        BY <4>1 DEF Present, Live
      <4> QED
        BY <4>2
    <3>2. CASE ~Registered(e)
      <4>1. Removed(e)
        BY <1>0, <3>2, RegisteredIs
      <4>2. res' = [res EXCEPT ![e] = Released(e, res[e])]
        BY <1>2, <3>2 DEF Close
      <4>3. "mem" \notin Released(e, res[e])
        BY EntKind DEF Released
      <4>4. Present' = Present \ {e}
        BY <4>2, <4>3 DEF Present, Live, TypeOK
      <4> QED
        BY <4>1, <4>4 DEF Removed, GraphPhase
    <3> QED
      BY <3>1, <3>2
  <2>4. Graph!Drop(e)
    BY <1>0, <2>1, <2>2, <2>3 DEF Graph!Drop
  <2> QED
    BY <2>4 DEF Graph!Next
<1> QED
  BY <1>1, <1>2

LEMMA StreamGraph ==
    ASSUME TypeOK, Ledger, Streams, NEW c \in Cap, StreamAction(c)
    PROVE  [Graph!Next]_(Graph!vars)
<1>0. ASSUME UNCHANGED <<step, res, open>>
      PROVE  GraphPhase' = GraphPhase /\ Present' = Present /\ InHand' = InHand
  BY <1>0 DEF GraphPhase, Present, InHand, Live
<1>a. ASSUME UNCHANGED kthread PROVE GivenUp' = GivenUp
  BY <1>a DEF GivenUp, Abandoned
<1>1. CASE StreamOn(c) \/ StreamOnAlready(c)
  <2>0. TakesPipe(c)
    BY <1>1 DEF StreamOn, StreamOnAlready
  <2>1. GraphPhase = "plugged" /\ c \in InHand
    BY <2>0, ChainType DEF TakesPipe, MediaDevice, GraphPhase, InHand
  <2>2. UNCHANGED <<step, res, open, kthread>>
    BY <2>0 DEF TakesPipe, probing
  <2>3. Graph!Take(c)
    BY <1>0, <1>a, <2>0, <2>1, <2>2 DEF TakesPipe, Graph!Take
  <2> QED
    BY <2>3 DEF Graph!Next
<1>2. CASE StreamOnRemoving(c) \/ StreamOffBadThread(c) \/ ThreadFaults(c)
  <2>1. \E how \in {"no_media_device", "use_after_free", "no_source_frame",
                    "bad_kthread"} : Crash(how)
    BY <1>2 DEF StreamOnRemoving, StreamOffBadThread, ThreadFaults
  <2> QED
    BY <2>1, CrashUnseen
<1>3. CASE StreamOff(c) \/ StartThread(c) \/ ThreadBegins(c)
  <2>1. \A d \in Cap : d # c => kthread'[d] = kthread[d]
    BY <1>3 DEF StreamOff, StartThread, ThreadBegins, TypeOK
  <2>2. ~Abandoned(c) /\ ~Abandoned(c)'
    BY <1>3 DEF StreamOff, StartThread, WalkEnds, ThreadBegins, Abandoned, TypeOK,
           Streams, StreamOf
  <2>3. \A d \in Cap : Abandoned(d)' <=> Abandoned(d)
    BY <2>1, <2>2 DEF Abandoned
  <2> QED
    BY <1>3, <2>3, Unseen DEF StreamOff, StartThread, WalkEnds, ThreadBegins, probing
<1>4. CASE StartThreadFails(c) \/ StreamOffEarly(c)
  <2>1. /\ stream[c] # "off" /\ ~Abandoned(c)
        /\ UNCHANGED <<step, res, open, pipe, frame>>
    BY <1>4 DEF StartThreadFails, WalkEnds, StreamOffEarly, Stopping, Abandoned,
           Streams, StreamOf, probing
  <2>2. Abandoned(c)' /\ \A d \in Cap : d # c => kthread'[d] = kthread[d]
    BY <1>4 DEF StartThreadFails, StreamOffEarly, Abandoned, TypeOK
  <2>3. c \notin GivenUp /\ GivenUp' = GivenUp \cup {c}
    BY <2>1, <2>2 DEF GivenUp, Abandoned
  <2>4. pipe[c] = c
    BY <2>1, ChainType DEF Streams, StreamOf
  <2>5. Graph!Abandon(c)
    BY <1>0, <2>1, <2>3, <2>4 DEF Graph!Abandon
  <2> QED
    BY <2>5 DEF Graph!Next
<1>5. CASE StartEntity(c) \/ StartFails(c)
  <2>0. Walks(c)
    BY <1>5 DEF StartEntity, StartFails
  <2> DEFINE e == NextUp(c)
  <2>1. /\ e \in Ent /\ e \in Reach[c] /\ pipe[e] = c /\ step = "bound"
        /\ c \notin GivenUp /\ frame[e] \in GivenUp \cup {NULL}
    BY <2>0, WalkNext DEF GivenUp, Dead
  <2>2. UNCHANGED <<step, res, open, pipe, kthread>>
    BY <1>5 DEF StartEntity, StartFails, probing
  <2>3. GraphPhase = "plugged"
    BY <2>1 DEF GraphPhase
  <2>4. CASE frame' = [frame EXCEPT ![e] = c]
    <3>1. Graph!Use(c, e)
      BY <1>0, <1>a, <2>1, <2>2, <2>3, <2>4 DEF Graph!Use
    <3> QED
      BY <2>1, <3>1 DEF Graph!Next
  <2>5. CASE frame' = [frame EXCEPT ![e] = NULL]
    <3>1. e \in Present
      BY <1>5, <2>0, <2>1, BoundLives DEF Present, Walks
    <3>2. CASE frame[e] \in GivenUp
      <4>1. Graph!Leave(c, e)
        BY <1>0, <1>a, <2>1, <2>2, <2>5, <3>1, <3>2 DEF Graph!Leave
      <4> QED
        BY <2>1, <4>1 DEF Graph!Next
    <3>3. CASE frame[e] = NULL
      <4>1. frame' = frame
        BY <2>5, <3>3 DEF TypeOK
      <4> QED
        BY <2>2, <4>1, Unseen DEF Abandoned
    <3> QED
      BY <2>1, <3>2, <3>3
  <2>6. CASE frame' = frame
    BY <2>2, <2>6, Unseen DEF Abandoned
  <2> QED
    BY <1>5, <2>4, <2>5, <2>6 DEF StartEntity, StartFails, SetFrame
<1>6. CASE TerminateEntity(c)
  <2> DEFINE e == Chain[c][size[c]]
  <2>1. CASE ~Live(e)
    BY <1>6, <2>1, CrashUnseen DEF TerminateEntity
  <2>2. CASE Live(e)
    <3>0. /\ e \in Ent /\ e \in Reach[c] /\ stream[c] = "terminating"
          /\ UNCHANGED <<step, res, open, pipe, kthread>>
          /\ frame' = IF e \in Cap THEN frame ELSE [frame EXCEPT ![e] = NULL]
      BY <1>6, <2>2, ChainType DEF TerminateEntity, TypeOK, probing
    <3>1. frame[e] = NULL \/ frame[e] \in GivenUp \cup {c}
      BY <3>0, InTheWay DEF Dead, GivenUp
    <3>2. CASE frame' = frame
      BY <3>0, <3>2, Unseen DEF Abandoned
    <3>3. CASE frame' # frame
      <4>1. frame' = [frame EXCEPT ![e] = NULL] /\ frame[e] \in GivenUp \cup {c}
        BY <3>0, <3>1, <3>3 DEF TypeOK
      <4>2. e \in Present
        BY <2>2, <3>0 DEF Present
      <4>3. pipe[e] = c /\ c \notin GivenUp
        BY <3>0 DEF Streams, StreamOf, GivenUp, Abandoned
      <4>4. Graph!Leave(c, e)
        BY <1>0, <1>a, <3>0, <4>1, <4>2, <4>3 DEF Graph!Leave
      <4> QED
        BY <3>0, <4>4 DEF Graph!Next
    <3> QED
      BY <3>2, <3>3
  <2> QED
    BY <2>1, <2>2
<1>7. CASE MediaStop(c)
  <2>1. CASE ~MediaDevice
    BY <1>7, <2>1, CrashUnseen DEF MediaStop
  <2>2. CASE MediaDevice
    <3>1. /\ UNCHANGED <<step, res, open, frame, kthread>>
          /\ pipe' = [e \in Ent |-> IF pipe[e] = c THEN NULL ELSE pipe[e]]
      BY <1>7, <2>2 DEF MediaStop, probing
    <3>2. c \in GivenUp \/ size[c] = 0
      BY <1>7 DEF MediaStop, Streams, StreamOf, GivenUp
    <3>3. c \in GivenUp \/ \A e \in Ent : frame[e] # c
      BY <3>2 DEF Streams, StreamOf
    <3>4. GraphPhase = "plugged"
      BY <2>2 DEF MediaDevice, GraphPhase
    <3>5. Graph!Free(c)
      BY <1>0, <1>a, <3>1, <3>3, <3>4 DEF Graph!Free
    <3> QED
      BY <3>5 DEF Graph!Next
  <2> QED
    BY <2>1, <2>2
<1> QED
  BY <1>1, <1>2, <1>3, <1>4, <1>5, <1>6, <1>7 DEF StreamAction

\* An entity that is removed goes, or stays for those who hold it.
LEMMA RemoveGraph ==
    ASSUME TypeOK, Ledger, Streams, NEW e \in Ent, Removing(e),
           e \in Cap => stream[e] = "off",
           UNCHANGED <<list, step, open, streaming>>,
           NEW lost, "mem" \notin lost,
           res' = [res EXCEPT ![e] = Unregistered(e, @ \ lost)]
    PROVE  [Graph!Next]_(Graph!vars)
<1>0. /\ list \in Lists /\ Len(list) \in Nat /\ at \in 1..Len(list) + 1
      /\ step = "removing" /\ oops = "no" /\ at <= Len(list) /\ e = list[at]
      /\ UNCHANGED <<pipe, frame>> /\ GivenUp' = GivenUp
  BY ListType DEF TypeOK, Removing, Alive, GivenUp, Abandoned, streaming
<1>1. Live(e)
  <2>1. Added(e) /\ ~Removed(e)
    BY <1>0, ListType DEF Added, Removed
  <2> QED
    BY <1>0, <2>1, EntKind DEF Ledger, Owned, Live
<1>2. /\ GraphPhase = "unplugged" /\ GraphPhase' = GraphPhase /\ InHand' = InHand
  BY <1>0 DEF GraphPhase, InHand
<1>3. CASE open[e]
  <2>1. "mem" \in res'[e]
    BY <1>1, <1>3 DEF Unregistered, Live, TypeOK
  <2>2. Present' = Present
    BY <1>1, <2>1 DEF Present, Live, TypeOK
  <2> QED
    BY <1>0, <1>2, <2>2 DEF Graph!vars
<1>4. CASE ~open[e]
  <2>1. "mem" \notin Unregistered(e, res[e] \ lost)
    BY <1>4, EntKind DEF Unregistered, Released
  <2>2. Present' = Present \ {e} /\ e \in Present \ InHand
    BY <1>1, <1>4, <2>1 DEF Present, InHand, Live, TypeOK
  <2>3. Graph!Destroy(e)
    BY <1>0, <1>2, <2>2, NoOwner DEF Graph!Destroy
  <2> QED
    BY <2>3 DEF Graph!Next
<1> QED
  BY <1>3, <1>4

LEMMA RemovalGraph ==
    ASSUME TypeOK, Ledger, Streams, Removal
    PROVE  [Graph!Next]_(Graph!vars)
<1>1. CASE Unplug
  <2>1. /\ GraphPhase = "plugged" /\ GraphPhase' = "unplugged"
        /\ Present' = Present /\ InHand' = InHand /\ UNCHANGED <<pipe, frame>>
        /\ GivenUp' = GivenUp
    BY <1>1 DEF Unplug, GraphPhase, Present, InHand, Live, GivenUp, Abandoned, streaming
  <2>2. Graph!Unplug
    BY <2>1 DEF Graph!Unplug
  <2> QED
    BY <2>2 DEF Graph!Next
<1>2. ASSUME NEW e \in Ent, RemoveSubdev(e) PROVE [Graph!Next]_(Graph!vars)
  <2>1. "mem" \notin {"sd"}
    OBVIOUS
  <2> QED
    BY <1>2, <2>1, RemoveGraph DEF RemoveSubdev
<1>3. ASSUME NEW e \in Ent, RemoveCapture(e) PROVE [Graph!Next]_(Graph!vars)
  <2>1. "mem" \notin {"queue", "node"}
    OBVIOUS
  <2> QED
    BY <1>3, <2>1, RemoveGraph DEF RemoveCapture
<1>4. ASSUME NEW e \in Ent, RemoveStreaming(e) PROVE [Graph!Next]_(Graph!vars)
  BY <1>4, CrashUnseen DEF RemoveStreaming
<1>5. CASE RemoveEnds
  <2>1. /\ GraphPhase' = GraphPhase
        /\ Present' = Present /\ InHand' = InHand /\ UNCHANGED <<pipe, frame>>
        /\ GivenUp' = GivenUp
    BY <1>5 DEF RemoveEnds, GraphPhase, Present, InHand, Live, GivenUp, Abandoned,
           streaming
  <2> QED
    BY <2>1 DEF Graph!vars
<1> QED
  BY <1>1, <1>2, <1>3, <1>4, <1>5 DEF Removal

\* Whatever fails and whoever removes the device, programs and streams share
\* its entities as VimcSharedGraph says.
THEOREM SharesTheGraph == Spec => SharesGraph
<1>1. TypeOK /\ Ledger /\ Streams /\ [Next]_vars
      => [Graph!Next]_(Graph!vars)
  <2> SUFFICES ASSUME TypeOK, Ledger, Streams, [Next]_vars
               PROVE  [Graph!Next]_(Graph!vars)
    OBVIOUS
  <2>1. CASE UNCHANGED vars
    BY <2>1, Unseen DEF vars, Abandoned, probing, streaming
  <2> QED
    BY <2>1, ProbeGraph, HandleGraph, StreamGraph, RemovalGraph
    DEF Next, Program, Streamer, StreamAction
<1> QED
  BY <1>1, InitGraph, TypeCorrect, LedgerHolds, StreamsHold, PTL
  DEF Spec, SharesGraph, Graph!Spec
=============================================================================
