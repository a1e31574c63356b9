--------------------------- MODULE LobbyRoomProofs ---------------------------
(***************************************************************************)
(* Proofs about LobbyRoom for any connections, members, tasks and          *)
(* coroutines under way: nobody waits for ever for a task it has           *)
(* cancelled, whoever speaks is told to stop, and the index of connections *)
(* names the member each connection answers for.                           *)
(***************************************************************************)
EXTENDS LobbyRoom, TLAPS

-----------------------------------------------------------------------------
(* Coroutines that wait for each other                                     *)

Spots == {"idle", "free", "sleep", "schedule", "choose", "announcing", "grant", "clock", "give", "granting",
          "revoking", "over", "saying", "starting", "downGap", "downTurn", "closing", "replying", "lost",
          "return", "failed"}

\* Where a coroutine goes on once the task it has cancelled is done.
Waits == {"choose", "clock", "give", "over", "downGap", "downTurn"}

Threads ==
    /\ running \in Coroutines \cup {None}
    /\ pc \in [Coroutines -> Spots]
    /\ awaits \in [Coroutines -> Tasks \cup {None}]
    /\ cancelled \subseteq Tasks
    /\ gapTask \in GapTasks \cup {None} /\ timeoutTask \in TurnTasks \cup {None}

WaitsSomewhere ==
    /\ \A t \in Coroutines : awaits[t] # None => pc[t] \in Waits /\ pc[awaits[t]] # "free"
    /\ \A t \in cancelled : pc[t] \in Interruptible

\* The gap task of the room sleeps, runs on to its turn, or waits for itself.
GapAtWork ==
    gapTask # None =>
        \/ pc[gapTask] = "sleep"
        \/ running = gapTask /\ pc[gapTask] \in {"grant", "clock", "return"}
        \/ awaits[gapTask] = gapTask /\ pc[gapTask] = "clock"

\* The timeout task of the room waits for no other timeout task.
ClockAtWork ==
    timeoutTask # None =>
        pc[timeoutTask] # "free" /\ awaits[timeoutTask] \in GapTasks \cup {None, timeoutTask}

\* A gap task that another waits for is about to get its CancelledError, ...
GapsGiveUp ==
    \A t \in Coroutines : awaits[t] \in GapTasks \ {t} => awaits[t] \in cancelled

AwaitInv == Threads /\ WaitsSomewhere /\ GapAtWork /\ ClockAtWork /\ GapsGiveUp /\ AwaitedTasksEnd

\* t may take a step.
Acts(t) == running \in {None, t} /\ t \notin cancelled /\ awaits[t] = None

LEMMA Kinds ==
    /\ GapTasks \subseteq Tasks /\ TurnTasks \subseteq Tasks /\ GapTasks \cap TurnTasks = {}
    /\ Tasks \cap Handlers = {} /\ Tasks \subseteq Coroutines /\ Handlers \subseteq Coroutines
    /\ None \notin Coroutines /\ None \notin Tasks /\ Coroutines = Handlers \cup Tasks
    /\ Conns \subseteq Handlers /\ Host \in Handlers /\ Deleters \subseteq Handlers
  BY RoomAssumption DEF RoomAssumption, Tasks, Coroutines, Handlers

LEMMA IdleActs ==
    ASSUME AwaitInv, NEW t \in Handlers, Idle(t)
    PROVE  Acts(t)
  BY Kinds DEF AwaitInv, Threads, WaitsSomewhere, Waits, Idle, Acts

\* While t acts, the gap task of the room is t, sleeps or waits for itself.
LEMMA GapBeside ==
    ASSUME AwaitInv, NEW t \in Coroutines, Acts(t), gapTask \notin {None, t}
    PROVE  (pc[gapTask] = "sleep" /\ awaits[gapTask] = None) \/ (awaits[gapTask] = gapTask /\ pc[gapTask] = "clock")
  BY Kinds DEF AwaitInv, Threads, WaitsSomewhere, Waits, GapAtWork, Acts

-----------------------------------------------------------------------------
(* The kinds of steps                                                      *)

\* t goes on or suspends.
LEMMA MoveStep ==
    ASSUME AwaitInv, NEW t \in Coroutines, Acts(t),
           NEW p \in Spots \ {"free", "sleep"}, pc' = [pc EXCEPT ![t] = p],
           running' \in {None, t}, UNCHANGED <<awaits, cancelled>>,
           gapTask' \in {gapTask, None}, timeoutTask' \in {timeoutTask, None},
           gapTask' = t => running' = t /\ p \in {"grant", "clock", "return"}
    PROVE  AwaitInv'
  <1> USE Kinds DEF AwaitInv
  <1>0. pc'[t] = p /\ \A u \in Coroutines \ {t} : pc'[u] = pc[u]
    BY DEF Threads
  <1>1. Threads'
    BY DEF Threads
  <1>2. WaitsSomewhere'
    BY <1>0 DEF Threads, WaitsSomewhere, Acts
  <1>3. GapAtWork'
    BY <1>0, GapBeside DEF Threads, GapAtWork
  <1>4. ClockAtWork'
    BY <1>0 DEF Threads, ClockAtWork
  <1>5. GapsGiveUp'
    BY DEF GapsGiveUp
  <1>6. AwaitedTasksEnd'
    BY <1>0 DEF Threads, AwaitedTasksEnd
  <1> QED
    BY <1>1, <1>2, <1>3, <1>4, <1>5, <1>6

\* A cancellation of the room's gap or timeout task by another reaches it, or
\* the task it is waiting for.
LEMMA CancelReaches ==
    ASSUME AwaitInv, NEW t \in Coroutines, Acts(t), NEW h \in {gapTask, timeoutTask} \ {None, t}, awaits[h] # h
    PROVE  /\ h \in Tasks /\ pc[h] # "free" /\ awaits[h] # t
           /\ h \in GapTasks => pc[h] = "sleep"
           /\ pc[h] = "sleep" => awaits[h] = None
  <1> USE Kinds DEF AwaitInv
  <1>1. CASE h = gapTask
    BY <1>1, GapBeside DEF Threads
  <1>2. CASE h = timeoutTask
    <2>1. h \in TurnTasks /\ awaits[h] \in GapTasks \cup {None} /\ pc[h] # "free"
      BY <1>2 DEF Threads, ClockAtWork
    <2>2. awaits[h] # None => awaits[h] \in cancelled /\ pc[h] # "sleep"
      BY <2>1 DEF GapsGiveUp, WaitsSomewhere, Waits
    <2> QED
      BY <2>1, <2>2 DEF Acts
  <1> QED
    BY <1>1, <1>2

LEMMA CancelStep ==
    ASSUME AwaitInv, NEW t \in Coroutines, Acts(t), NEW h \in {gapTask, timeoutTask}, NEW p \in Waits,
           CancelThen(t, h, p),
           gapTask' \in {gapTask, None}, timeoutTask' = timeoutTask,
           gapTask' = t => p = "clock" /\ h = t,
           timeoutTask = t => h \in GapTasks \cup {None, t}
    PROVE  AwaitInv'
  <1> USE Kinds DEF AwaitInv
  <1>1. CASE h # None /\ h # t /\ awaits[h] = h
    <2>1. running' = t /\ pc' = [pc EXCEPT ![t] = "failed"] /\ UNCHANGED <<awaits, cancelled>>
      BY <1>1 DEF CancelThen
    <2>2. gapTask' # t
      BY <1>1
    <2> QED
      BY <2>1, <2>2, MoveStep DEF Spots
  <1>2. CASE ~(h # None /\ h # t /\ awaits[h] = h)
    <2>1. /\ running' = IF h = None THEN t ELSE None
          /\ pc' = [pc EXCEPT ![t] = p]
          /\ awaits' = [awaits EXCEPT ![t] = h]
          /\ cancelled' = cancelled \cup {u \in {Reached(h)} \ {None, t} : pc[u] \in Interruptible}
      BY <1>2 DEF CancelThen
    <2>2. h \in Tasks \cup {None} /\ p \in Spots
      BY DEF Threads, Waits, Spots
    <2>3. /\ pc'[t] = p /\ \A u \in Coroutines \ {t} : pc'[u] = pc[u]
          /\ awaits'[t] = h /\ \A u \in Coroutines \ {t} : awaits'[u] = awaits[u]
      BY <2>1 DEF Threads
    <2>4. \A u \in {Reached(h)} \ {None, t} : u \in Tasks
      BY <2>2 DEF Reached, Threads
    <2>5. cancelled \subseteq cancelled'
      BY <2>1
    <2>6. h \notin {None, t} =>
            /\ pc[h] # "free" /\ awaits[h] # t
            /\ h \in GapTasks => pc[h] = "sleep"
            /\ pc[h] = "sleep" => h \in cancelled'
      <3> SUFFICES ASSUME h \notin {None, t}
                   PROVE  /\ pc[h] # "free" /\ awaits[h] # t
                          /\ h \in GapTasks => pc[h] = "sleep"
                          /\ pc[h] = "sleep" => h \in cancelled'
        OBVIOUS
      <3>1. /\ pc[h] # "free" /\ awaits[h] # t
            /\ h \in GapTasks => pc[h] = "sleep"
            /\ pc[h] = "sleep" => awaits[h] = None
        BY <1>2, CancelReaches
      <3>2. pc[h] = "sleep" => h \in cancelled'
        BY <2>1, <3>1 DEF Reached, Interruptible
      <3> QED
        BY <3>1, <3>2
    <2>7. pc[t] # "free" \/ h # t
      BY DEF Threads, GapAtWork, ClockAtWork
    <2>8. Threads'
      <3>1. running' \in Coroutines \cup {None}
        BY <2>1
      <3>2. pc' \in [Coroutines -> Spots] /\ awaits' \in [Coroutines -> Tasks \cup {None}]
        BY <2>1, <2>2 DEF Threads
      <3> QED
        BY <2>1, <2>4, <3>1, <3>2 DEF Threads
    <2>9. WaitsSomewhere'
      <3>1. ASSUME NEW u \in Coroutines, awaits'[u] # None
            PROVE  pc'[u] \in Waits /\ pc'[awaits'[u]] # "free"
        <4>1. p # "free" /\ \A w \in Coroutines : pc[w] # "free" => pc'[w] # "free"
          BY <2>3 DEF Waits
        <4>2. CASE u = t
          BY <2>2, <2>3, <2>6, <3>1, <4>1, <4>2
        <4>3. CASE u # t
          BY <2>3, <3>1, <4>1, <4>3 DEF Threads, WaitsSomewhere
        <4> QED
          BY <4>2, <4>3
      <3>2. ASSUME NEW u \in cancelled' PROVE pc'[u] \in Interruptible
        <4>1. u # t /\ u \in Tasks /\ pc[u] \in Interruptible
          BY <2>1, <2>4, <3>2 DEF Acts, Threads, WaitsSomewhere
        <4> QED
          BY <2>3, <4>1
      <3> QED
        BY <3>1, <3>2 DEF WaitsSomewhere
    <2>10. GapAtWork'
      <3>1. CASE gapTask' = None
        BY <3>1 DEF GapAtWork
      <3>2. CASE gapTask' = t
        <4>1. awaits'[t] = t /\ pc'[t] = "clock"
          BY <2>3, <3>2
        <4> QED
          BY <3>2, <4>1 DEF GapAtWork
      <3>3. CASE gapTask' \notin {None, t}
        <4>1. gapTask' = gapTask /\ gapTask \in Coroutines
          BY <3>3 DEF Threads
        <4> QED
          BY <2>3, <3>3, <4>1, GapBeside DEF GapAtWork
      <3> QED
        BY <3>1, <3>2, <3>3
    <2>11. ClockAtWork'
      <3> SUFFICES ASSUME timeoutTask # None
                   PROVE  pc'[timeoutTask] # "free" /\ awaits'[timeoutTask] \in GapTasks \cup {None, timeoutTask}
        BY DEF ClockAtWork
      <3>1. timeoutTask \in Coroutines
        BY DEF Threads
      <3> QED
        BY <2>3, <3>1 DEF ClockAtWork, Waits
    <2>12. GapsGiveUp'
      BY <2>2, <2>3, <2>5, <2>6 DEF GapsGiveUp
    <2>13. AwaitedTasksEnd'
      <3> SUFFICES ASSUME NEW u \in Coroutines, NEW w \in {awaits'[u]} \ {None, u}
                   PROVE  (w \in cancelled' \/ pc'[w] # "sleep") /\ awaits'[w] # u
        BY DEF AwaitedTasksEnd
      <3>1. CASE u = t
        <4>1. w = h /\ h \notin {None, t} /\ w \in Coroutines
          BY <2>2, <2>3, <3>1
        <4> QED
          BY <2>3, <2>6, <3>1, <4>1
      <3>2. CASE u # t
        <4>1. w = awaits[u] /\ w \in Tasks
          BY <2>3, <3>2 DEF Threads
        <4>2. (w \in cancelled \/ pc[w] # "sleep") /\ awaits[w] # u
          BY <4>1 DEF AwaitedTasksEnd
        <4>3. CASE w = t
          <5>1. pc'[w] # "sleep"
            BY <2>3, <4>3 DEF Waits
          <5>2. h # u
            <6> SUFFICES ASSUME h = u PROVE FALSE
              OBVIOUS
            <6>1. awaits[h] = t /\ h \notin {None, t}
              BY <3>2, <4>1, <4>3
            <6> QED
              BY <2>6, <6>1
          <5> QED
            BY <2>3, <4>3, <5>1, <5>2
        <4>4. CASE w # t
          BY <2>3, <2>5, <4>1, <4>2, <4>4
        <4> QED
          BY <4>3, <4>4
      <3> QED
        BY <3>1, <3>2
    <2> QED
      BY <2>8, <2>9, <2>10, <2>11, <2>12, <2>13
  <1> QED
    BY <1>1, <1>2

\* t creates the room's next gap or timeout task.
LEMMA SpawnStep ==
    ASSUME AwaitInv, NEW t \in Coroutines, Acts(t), pc[t] \in {"announcing", "granting"},
           NEW x \in Tasks, pc[x] = "free",
           running' = t, pc' = [pc EXCEPT ![x] = "sleep", ![t] = "return"], UNCHANGED <<awaits, cancelled>>,
           \/ x \in GapTasks /\ gapTask' = x /\ timeoutTask' = timeoutTask
           \/ x \in TurnTasks /\ timeoutTask' = x /\ gapTask' = gapTask
    PROVE  AwaitInv'
  <1> USE Kinds DEF AwaitInv
  <1>0. x # t /\ pc'[x] = "sleep" /\ pc'[t] = "return" /\ \A u \in Coroutines \ {x, t} : pc'[u] = pc[u]
    BY DEF Threads
  <1>x. awaits[x] = None /\ x \notin cancelled /\ \A u \in Coroutines : awaits[u] # x
    BY DEF Threads, WaitsSomewhere, Waits, Interruptible
  <1>1. Threads'
    <2>1. pc' \in [Coroutines -> Spots]
      BY DEF Threads, Spots
    <2> QED
      BY <2>1 DEF Threads
  <1>2. WaitsSomewhere'
    <2>1. ASSUME NEW u \in Coroutines, awaits[u] # None PROVE pc'[u] \in Waits /\ pc'[awaits[u]] # "free"
      <3>1. u \notin {x, t} /\ awaits[u] \in Coroutines /\ awaits[u] # x
        BY <1>x, <2>1 DEF Acts, Threads
      <3> QED
        BY <1>0, <2>1, <3>1 DEF WaitsSomewhere
    <2>2. ASSUME NEW u \in cancelled PROVE pc'[u] \in Interruptible
      BY <1>0, <1>x DEF Acts, Threads, WaitsSomewhere
    <2> QED
      BY <2>1, <2>2 DEF WaitsSomewhere
  <1>3. GapAtWork'
    <2>1. CASE gapTask' = x
      BY <1>0, <2>1 DEF GapAtWork
    <2>2. CASE gapTask' # x
      <3> SUFFICES ASSUME gapTask # None PROVE GapAtWork'
        BY <2>2 DEF GapAtWork
      <3>1. gapTask' = gapTask /\ gapTask \in Coroutines
        BY <2>2 DEF Threads
      <3>2. gapTask # t
        BY DEF GapAtWork, Acts
      <3>3. gapTask # x
        BY <2>2, <3>1
      <3> QED
        BY <1>0, <3>1, <3>2, <3>3, GapBeside DEF GapAtWork
    <2> QED
      BY <2>1, <2>2
  <1>4. ClockAtWork'
    <2>1. CASE timeoutTask' = x
      BY <1>0, <1>x, <2>1 DEF ClockAtWork
    <2>2. CASE timeoutTask' # x
      BY <1>0, <2>2 DEF ClockAtWork, Threads
    <2> QED
      BY <2>1, <2>2
  <1>5. GapsGiveUp'
    BY DEF GapsGiveUp
  <1>6. AwaitedTasksEnd'
    BY <1>0, <1>x DEF Threads, AwaitedTasksEnd
  <1> QED
    BY <1>1, <1>2, <1>3, <1>4, <1>5, <1>6

LEMMA EndStep ==
    ASSUME AwaitInv, NEW t \in Coroutines, TaskEnds(t)
    PROVE  AwaitInv'
  <1> USE Kinds DEF AwaitInv
  <1>0. /\ t \in Tasks /\ awaits[t] = None /\ running \in {None, t} /\ running' = None
        /\ pc'[t] = "free"
        /\ \A u \in Coroutines \ {t} : pc'[u] \in {pc[u], "failed"} /\ (awaits[u] # t => pc'[u] = pc[u])
        /\ \A u \in Coroutines : awaits'[u] = IF awaits[u] = t THEN None ELSE awaits[u]
        /\ cancelled' = cancelled \ {t}
        /\ gapTask' = IF gapTask = t THEN None ELSE gapTask
        /\ timeoutTask' = IF timeoutTask = t THEN None ELSE timeoutTask
    <2>1. awaits[t] = None
      BY DEF TaskEnds, At, Threads, WaitsSomewhere, Waits, Interruptible
    <2> QED
      BY <2>1 DEF TaskEnds, At
  <1>1. Threads'
    <2>1. pc' \in [Coroutines -> Spots] /\ awaits' \in [Coroutines -> Tasks \cup {None}]
      BY DEF TaskEnds, Threads, Spots
    <2> QED
      BY <1>0, <2>1 DEF Threads
  <1>2. WaitsSomewhere'
    <2>1. ASSUME NEW u \in Coroutines, awaits'[u] # None PROVE pc'[u] \in Waits /\ pc'[awaits'[u]] # "free"
      <3>1. awaits'[u] = awaits[u] /\ awaits[u] # t /\ u # t /\ awaits[u] \in Coroutines
        BY <1>0, <2>1 DEF Threads
      <3>2. pc[u] \in Waits /\ pc[awaits[u]] # "free"
        BY <2>1, <3>1 DEF WaitsSomewhere
      <3> QED
        BY <1>0, <3>1, <3>2
    <2>2. ASSUME NEW u \in cancelled' PROVE pc'[u] \in Interruptible
      <3>1. u \in cancelled /\ u # t /\ u \in Coroutines
        BY <1>0, <2>2 DEF Threads
      <3>2. awaits[u] = None
        BY <3>1 DEF WaitsSomewhere, Waits, Interruptible
      <3> QED
        BY <1>0, <3>1, <3>2 DEF WaitsSomewhere
    <2> QED
      BY <2>1, <2>2 DEF WaitsSomewhere
  <1>3. GapAtWork'
    <2> SUFFICES ASSUME gapTask' # None PROVE GapAtWork'
      BY DEF GapAtWork
    <2>1. gapTask' = gapTask /\ gapTask # t /\ gapTask \in Coroutines /\ running # gapTask
      BY <1>0 DEF Threads
    <2>2. awaits[gapTask] # t
      BY <2>1 DEF GapAtWork, WaitsSomewhere, Waits
    <2> QED
      BY <1>0, <2>1, <2>2 DEF GapAtWork
  <1>4. ClockAtWork'
    BY <1>0 DEF Threads, ClockAtWork
  <1>5. GapsGiveUp'
    BY <1>0 DEF Threads, GapsGiveUp
  <1>6. AwaitedTasksEnd'
    <2> SUFFICES ASSUME NEW u \in Coroutines, NEW w \in {awaits'[u]} \ {None, u}
                 PROVE  (w \in cancelled' \/ pc'[w] # "sleep") /\ awaits'[w] # u
      BY DEF AwaitedTasksEnd
    <2>1. w = awaits[u] /\ w # t /\ w \in Coroutines
      BY <1>0 DEF Threads
    <2>2. (w \in cancelled \/ pc[w] # "sleep") /\ awaits[w] # u
      BY <2>1 DEF AwaitedTasksEnd
    <2> QED
      BY <1>0, <2>1, <2>2
  <1> QED
    BY <1>1, <1>2, <1>3, <1>4, <1>5, <1>6

LEMMA AbsorbStep ==
    ASSUME AwaitInv, NEW t \in Coroutines, Absorbs(t)
    PROVE  AwaitInv'
  <1> USE Kinds DEF AwaitInv
  <1>0. /\ running = None /\ awaits[t] = t /\ running' = t /\ UNCHANGED <<pc, cancelled, gapTask, timeoutTask>>
        /\ awaits'[t] = None /\ \A u \in Coroutines \ {t} : awaits'[u] = awaits[u]
    BY DEF Absorbs, handles, Threads
  <1>1. Threads'
    BY <1>0 DEF Absorbs, Threads
  <1>2. WaitsSomewhere'
    BY <1>0 DEF WaitsSomewhere
  <1>3. GapAtWork'
    <2> SUFFICES ASSUME gapTask # None PROVE GapAtWork'
      BY <1>0 DEF GapAtWork
    <2>1. gapTask \in Coroutines
      BY DEF Threads
    <2>2. pc[t] # "sleep"
      BY <1>0 DEF WaitsSomewhere, Waits
    <2> QED
      BY <1>0, <2>1, <2>2 DEF GapAtWork
  <1>4. ClockAtWork'
    BY <1>0 DEF Threads, ClockAtWork
  <1>5. GapsGiveUp'
    BY <1>0 DEF GapsGiveUp
  <1>6. AwaitedTasksEnd'
    BY <1>0 DEF Threads, AwaitedTasksEnd
  <1> QED
    BY <1>1, <1>2, <1>3, <1>4, <1>5, <1>6

LEMMA RestStep ==
    ASSUME running' = None, pc' = AtRest, awaits' = Nobody(Coroutines), cancelled' = {},
           gapTask' = None, timeoutTask' = None
    PROVE  AwaitInv'
  BY Kinds DEF AwaitInv, AtRest, Nobody, Threads, Spots, WaitsSomewhere, GapAtWork, ClockAtWork, GapsGiveUp,
               AwaitedTasksEnd
-----------------------------------------------------------------------------
(* The steps of the room, by kind                                          *)

\* Between an await and the next a coroutine that is not the room's gap task
\* moves freely, and the gap task only towards its turn or its end.
LEMMA GoOn ==
    ASSUME AwaitInv, NEW t \in Coroutines, Acts(t), NEW p \in Spots \ {"free", "sleep"},
           running' \in {None, t}, pc' = [pc EXCEPT ![t] = p], UNCHANGED <<awaits, cancelled, gapTask>>,
           timeoutTask' \in {timeoutTask, None},
           t \in GapTasks =>
              \/ pc[t] \notin {"sleep", "grant", "clock", "return"}
              \/ running' = t /\ p \in {"grant", "clock", "return"}
    PROVE  AwaitInv'
  <1>1. gapTask = t => running' = t /\ p \in {"grant", "clock", "return"}
    BY Kinds DEF AwaitInv, Threads, GapAtWork, Acts
  <1> QED
    BY <1>1, MoveStep

LEMMA HandlerSteps ==
    ASSUME AwaitInv, NEW t \in Handlers
    PROVE  /\ HandlerReturns(t) => AwaitInv'
           /\ MentionsNext(t) \/ NamesNobody(t) => AwaitInv'
           /\ t \in Conns /\ (TurnDone(t) \/ Says(t) \/ Disconnects(t)) => AwaitInv'
           /\ t \in Conns /\ (Joins(t) \/ ReplyArrives(t) \/ ReplyFails(t)) => AwaitInv'
           /\ t = Host /\ (Starts \/ FirstTurn) => AwaitInv'
           /\ t \in Deleters /\ (Deletes(t) \/ StopsTurn(t) \/ ClearsRoom(t) \/ Forgets(t)) => AwaitInv'
  <1> USE Kinds DEF GoesOn, GoesOnFor, Suspends, SuspendsFor
  <1>0. t \notin GapTasks /\ t \notin TurnTasks /\ t \in Coroutines
    OBVIOUS
  <1>h. gapTask # t /\ timeoutTask # t
    BY <1>0 DEF AwaitInv, Threads
  <1>a. \A p \in Spots : At(t, p) => Acts(t)
    BY DEF At, Acts
  <1>i. Idle(t) => Acts(t)
    BY IdleActs
  <1>1. CASE HandlerReturns(t)
    BY <1>0, <1>1, <1>a, GoOn DEF HandlerReturns, Spots, handles
  <1>2. CASE MentionsNext(t) \/ NamesNobody(t)
    BY <1>0, <1>2, <1>a, GoOn DEF MentionsNext, NamesNobody, Spots, handles
  <1>3. CASE Says(t)
    BY <1>0, <1>3, <1>i, GoOn DEF Says, Spots, handles
  <1>4. CASE TurnDone(t)
    BY <1>0, <1>h, <1>4, <1>i, CancelStep DEF TurnDone, Waits, handles
  <1>5. CASE Disconnects(t)
    <2>1. Acts(t) /\ UNCHANGED <<gapTask, timeoutTask>>
      BY <1>5, <1>i DEF Disconnects, At, Acts, handles
    <2>2. CASE CancelThen(t, timeoutTask, "over")
      BY <1>0, <1>h, <2>1, <2>2, CancelStep DEF Waits
    <2>3. CASE GoesOn(t, "return")
      BY <1>0, <2>1, <2>3, GoOn DEF Spots
    <2> QED
      BY <1>5, <2>2, <2>3 DEF Disconnects
  <1>6. CASE t = Host /\ (Starts \/ FirstTurn)
    <2>1. Acts(t)
      BY <1>6, <1>i DEF Starts, FirstTurn, At, Acts
    <2> QED
      BY <1>0, <1>6, <2>1, GoOn DEF Starts, FirstTurn, Spots, handles
  <1>7. CASE Deletes(t)
    BY <1>0, <1>h, <1>7, <1>i, CancelStep DEF Deletes, Waits, handles
  <1>8. CASE StopsTurn(t)
    <2>1. Acts(t)
      BY <1>8 DEF StopsTurn, At, Acts
    <2>2. gapTask' = None /\ timeoutTask' = timeoutTask /\ CancelThen(t, timeoutTask, "downTurn") /\ gapTask' # t
      BY <1>8 DEF StopsTurn
    <2> QED
      BY <1>0, <1>h, <2>1, <2>2, CancelStep DEF Waits
  <1>9. CASE ClearsRoom(t) \/ Forgets(t)
    BY <1>0, <1>9, <1>a, GoOn DEF ClearsRoom, Forgets, Spots, handles
  <1>10. CASE Joins(t) \/ ReplyArrives(t) \/ ReplyFails(t)
    <2>1. Acts(t) /\ UNCHANGED <<gapTask, timeoutTask, awaits, cancelled>>
      BY <1>10, <1>i DEF Joins, ReplyArrives, ReplyFails, At, Acts, handles
    <2>2. PICK p \in {"replying", "return", "failed", "lost"} :
             pc' = [pc EXCEPT ![t] = p] /\ running' \in {None, t}
      BY <1>10 DEF Joins, ReplyArrives, ReplyFails
    <2> QED
      BY <1>0, <2>1, <2>2, GoOn DEF Spots
  <1> QED
    BY <1>1, <1>2, <1>3, <1>4, <1>5, <1>6, <1>7, <1>8, <1>9, <1>10

\* The gap and timeout tasks of the room are of different kinds.
LEMMA ChooseSteps ==
    ASSUME AwaitInv, NEW t \in Coroutines
    PROVE  /\ Schedules(t) => AwaitInv'
           /\ ChoosesQueued(t) \/ ChoosesInLine(t) \/ ChoosesNobody(t) => AwaitInv'
           /\ SleepsTheGap(t) \/ StartsClock(t) => AwaitInv'
           /\ GapEnds(t) => AwaitInv'
  <1> USE Kinds DEF GoesOn, GoesOnFor, Suspends, SuspendsFor
  <1>1. CASE Schedules(t)
    <2>1. Acts(t) /\ UNCHANGED <<gapTask, timeoutTask>> /\ pc[t] = "schedule"
      BY <1>1 DEF Schedules, At, Acts, handles
    <2>2. gapTask # t
      BY <2>1 DEF AwaitInv, GapAtWork
    <2>3. CASE CancelThen(t, gapTask, "choose")
      <3>1. gapTask \in GapTasks \cup {None}
        BY DEF AwaitInv, Threads
      <3> QED
        BY <2>1, <2>2, <2>3, <3>1, CancelStep DEF Waits
    <2>4. CASE GoesOn(t, "return")
      BY <2>1, <2>4, GoOn DEF Spots
    <2> QED
      BY <1>1, <2>3, <2>4 DEF Schedules
  <1>2. CASE ChoosesQueued(t) \/ ChoosesInLine(t) \/ ChoosesNobody(t)
    <2>1. Acts(t) /\ gapTask' = None /\ timeoutTask' = timeoutTask
      BY <1>2 DEF ChoosesQueued, ChoosesInLine, ChoosesNobody, At, Acts
    <2>2. PICK p \in {"grant", "announcing", "return"} :
             pc' = [pc EXCEPT ![t] = p] /\ running' \in {None, t} /\ UNCHANGED <<awaits, cancelled>>
      BY <1>2 DEF ChoosesQueued, ChoosesInLine, ChoosesNobody, Announces
    <2>3. gapTask' # t
      BY <2>1
    <2> QED
      BY <2>1, <2>2, <2>3, MoveStep DEF Spots
  <1>3. CASE SleepsTheGap(t)
    <2>1. Acts(t) /\ pc[t] = "announcing" /\ timeoutTask' = timeoutTask
      BY <1>3 DEF SleepsTheGap, At, Acts
    <2>2. gapTask' \in Spare(GapTasks)
      BY <1>3 DEF SleepsTheGap
    <2>3. gapTask' \in GapTasks /\ gapTask' \in Tasks /\ pc[gapTask'] = "free"
      BY <2>2 DEF Spare
    <2>4. /\ running' = t /\ pc' = [pc EXCEPT ![gapTask'] = "sleep", ![t] = "return"]
          /\ UNCHANGED <<awaits, cancelled>>
      BY <1>3 DEF SleepsTheGap, Spawns
    <2> QED
      BY <2>1, <2>3, <2>4, SpawnStep
  <1>4. CASE StartsClock(t)
    <2>1. Acts(t) /\ pc[t] = "granting" /\ gapTask' = gapTask
      BY <1>4 DEF StartsClock, At, Acts
    <2>2. timeoutTask' \in Spare(TurnTasks)
      BY <1>4 DEF StartsClock
    <2>3. timeoutTask' \in TurnTasks /\ timeoutTask' \in Tasks /\ pc[timeoutTask'] = "free"
      BY <2>2 DEF Spare
    <2>4. /\ running' = t /\ pc' = [pc EXCEPT ![timeoutTask'] = "sleep", ![t] = "return"]
          /\ UNCHANGED <<awaits, cancelled>>
      BY <1>4 DEF StartsClock, Spawns
    <2> QED
      BY <2>1, <2>3, <2>4, SpawnStep
  <1>5. CASE GapEnds(t)
    <2>1. Acts(t)
      BY <1>5 DEF GapEnds, At, Acts
    <2>2. PICK p \in {"grant", "return"} : pc' = [pc EXCEPT ![t] = p] /\ running' = t
      BY <1>5 DEF GapEnds
    <2> QED
      BY <1>5, <2>1, <2>2, GoOn DEF GapEnds, Spots, handles
  <1> QED
    BY <1>1, <1>2, <1>3, <1>4, <1>5

LEMMA TurnSteps ==
    ASSUME AwaitInv, NEW t \in Coroutines
    PROVE  /\ Grants(t) => AwaitInv'
           /\ StopsClock(t) => AwaitInv'
           /\ GivesTurn(t) \/ TurnIsOver(t) => AwaitInv'
           /\ TurnTimesOut(t) \/ Revokes(t) => AwaitInv'
           /\ MentionsNext(t) \/ NamesNobody(t) => AwaitInv'
  <1> USE Kinds DEF GoesOn, GoesOnFor, Suspends, SuspendsFor
  <1>a. \A p \in Spots : At(t, p) => Acts(t) /\ pc[t] = p
    BY DEF At, Acts
  <1>1. CASE Grants(t)
    <2>1. Acts(t) /\ UNCHANGED <<gapTask, timeoutTask>>
      BY <1>1, <1>a DEF Grants, Spots, handles
    <2>2. CASE CancelThen(t, gapTask, "clock")
      <3>1. gapTask \in GapTasks \cup {None}
        BY DEF AwaitInv, Threads
      <3> QED
        BY <2>1, <2>2, <3>1, CancelStep DEF Waits
    <2>3. CASE GoesOn(t, "return")
      BY <2>1, <2>3, GoOn DEF Spots
    <2> QED
      BY <1>1, <2>2, <2>3 DEF Grants
  <1>2. CASE StopsClock(t)
    <2>1. Acts(t) /\ gapTask' = None /\ timeoutTask' = timeoutTask /\ CancelThen(t, timeoutTask, "give")
      BY <1>2, <1>a DEF StopsClock, Spots
    <2>2. gapTask' # t
      BY <2>1
    <2> QED
      BY <2>1, <2>2, CancelStep DEF Waits
  <1>3. CASE GivesTurn(t) \/ TurnIsOver(t)
    <2>1. Acts(t) /\ pc[t] \in {"give", "over"} /\ gapTask' = gapTask /\ timeoutTask' = None
      BY <1>3, <1>a DEF GivesTurn, TurnIsOver, Spots
    <2>2. PICK p \in {"granting", "schedule"} :
             pc' = [pc EXCEPT ![t] = p] /\ running' \in {None, t} /\ UNCHANGED <<awaits, cancelled>>
      BY <1>3 DEF GivesTurn, TurnIsOver
    <2> QED
      BY <2>1, <2>2, GoOn DEF Spots
  <1>4. CASE TurnTimesOut(t)
    <2>1. Acts(t) /\ t \notin GapTasks /\ UNCHANGED <<gapTask, timeoutTask>>
      BY <1>4, <1>a DEF TurnTimesOut, Spots, handles
    <2>2. PICK p \in {"revoking", "return"} :
             pc' = [pc EXCEPT ![t] = p] /\ running' \in {None, t} /\ UNCHANGED <<awaits, cancelled>>
      BY <1>4 DEF TurnTimesOut
    <2> QED
      BY <2>1, <2>2, GoOn DEF Spots
  <1>5. CASE Revokes(t)
    BY <1>5, <1>a, GoOn DEF Revokes, Spots, handles
  <1>6. CASE MentionsNext(t) \/ NamesNobody(t)
    BY <1>6, <1>a, GoOn DEF MentionsNext, NamesNobody, Spots, handles
  <1> QED
    BY <1>1, <1>2, <1>3, <1>4, <1>5, <1>6

LEMMA AwaitStep ==
    ASSUME AwaitInv, [RoomNext]_roomVars
    PROVE  AwaitInv'
  <1> USE Kinds
  <1>1. ASSUME NEW t \in Coroutines, Step(t) PROVE AwaitInv'
    <2>1. CASE HandlerReturns(t)
      BY <2>1, HandlerSteps DEF HandlerReturns
    <2>2. CASE TaskEnds(t) \/ Absorbs(t)
      BY <2>2, EndStep, AbsorbStep
    <2> QED
      BY <1>1, <2>1, <2>2, ChooseSteps, TurnSteps DEF Step
  <1>2. CASE HostStep \/ Starts
    BY <1>2, HandlerSteps DEF HostStep
  <1>3. ASSUME NEW c \in Conns,
               TurnDone(c) \/ Says(c) \/ Disconnects(c) \/ Joins(c) \/ ReplyArrives(c) \/ ReplyFails(c)
        PROVE  AwaitInv'
    BY <1>3, HandlerSteps
  <1>4. ASSUME NEW d \in Deleters, Deletes(d) PROVE AwaitInv'
    BY <1>4, HandlerSteps
  <1>5. CASE Restarts
    BY <1>5, RestStep DEF Restarts
  <1>6. CASE UNCHANGED <<running, pc, awaits, cancelled, gapTask, timeoutTask>>
    BY <1>6 DEF AwaitInv, Threads, WaitsSomewhere, GapAtWork, ClockAtWork, GapsGiveUp, AwaitedTasksEnd
  <1>7. CASE SetsPaused
    BY <1>6, <1>7 DEF SetsPaused, threads, handles
  <1> QED
    BY <1>1, <1>2, <1>3, <1>4, <1>5, <1>6, <1>7 DEF RoomNext, roomVars, threads, handles

\* Nobody waits for ever for a task it has cancelled, with any number of
\* connections, deletions and tasks alive at once: the task is about to get
\* its CancelledError or has swallowed it, and no two wait for each other.
THEOREM AwaitsEnd ==
    RoomSpec => []AwaitedTasksEnd
  <1>1. RoomInit => AwaitInv
    BY Kinds DEF RoomInit, TurnsInit, AtRest, Nobody, AwaitInv, Threads, Spots, WaitsSomewhere, GapAtWork,
                 ClockAtWork, GapsGiveUp, AwaitedTasksEnd
  <1>2. AwaitInv /\ [RoomNext]_roomVars => AwaitInv'
    BY AwaitStep
  <1>3. AwaitInv => AwaitedTasksEnd
    BY DEF AwaitInv
  <1> QED
    BY <1>1, <1>2, <1>3, PTL DEF RoomSpec

-----------------------------------------------------------------------------
(* The speaker is watched                                                  *)

\* t will revoke the speaker's turn or start the task that will.
Watches(t) ==
    /\ (t \in TurnTasks /\ pc[t] \in {"sleep", "revoking"}) \/ pc[t] = "granting"
    /\ target[t] = speaker /\ t \notin cancelled

\* t will end the turn or give it on, whatever becomes of the task it awaits:
\* that task has its CancelledError on the way, so it does not fail.
Replaces(t) ==
    pc[t] \in {"give", "over", "downTurn"} /\ awaits[t] \in cancelled \cup {None, t}

Watched == speaker # None => \E t \in Coroutines : Watches(t) \/ Replaces(t)

TimedInv == AwaitInv /\ target = [t \in Coroutines |-> target[t]] /\ Watched

LEMMA TimedImplies ==
    ASSUME TimedInv
    PROVE  TurnIsTimed
  BY DEF TimedInv, Watched, Watches, Replaces, TurnIsTimed

\* A step of t that cancels nothing and leaves the speaker.
LEMMA MoveTimed ==
    ASSUME TimedInv, NEW t \in Coroutines, NEW p, pc' = [pc EXCEPT ![t] = p],
           UNCHANGED <<awaits, cancelled, speaker>>,
           \A u \in Coroutines \ {t} : target'[u] = target[u],
           Watches(t) => Watches(t)', ~Replaces(t)
    PROVE  Watched'
  <1>1. \A u \in Coroutines \ {t} : (Watches(u) => Watches(u)') /\ (Replaces(u) => Replaces(u)')
    BY DEF TimedInv, AwaitInv, Threads, Watches, Replaces
  <1> QED
    BY <1>1 DEF TimedInv, Watched

\* t cancels the room's gap or timeout task.  If that one watched the speaker,
\* t takes its place.
LEMMA CancelTimed ==
    ASSUME TimedInv, NEW t \in Coroutines, Acts(t), NEW p,
           \/ p \in {"choose", "clock", "downGap"} /\ CancelThen(t, gapTask, p)
           \/ p \in {"give", "over", "downTurn"} /\ CancelThen(t, timeoutTask, p),
           speaker' = speaker, pc[t] \notin {"sleep", "revoking", "granting", "give", "over", "downTurn"}
    PROVE  Watched'
  <1> USE Kinds DEF TimedInv
  <1>1. PICK h \in {gapTask, timeoutTask} :
           /\ CancelThen(t, h, p)
           /\ h = gapTask \/ p \in {"give", "over", "downTurn"}
    OBVIOUS
  <1>2. ~Watches(t) /\ ~Replaces(t) /\ target' = target
    BY <1>1 DEF Watches, Replaces, CancelThen
  <1>3. CASE h # None /\ h # t /\ awaits[h] = h
    <2>1. pc' = [pc EXCEPT ![t] = "failed"] /\ UNCHANGED <<awaits, cancelled>>
      BY <1>1, <1>3 DEF CancelThen
    <2> QED
      BY <1>2, <2>1, MoveTimed
  <1>4. CASE ~(h # None /\ h # t /\ awaits[h] = h)
    <2>1. /\ pc' = [pc EXCEPT ![t] = p]
          /\ awaits' = [awaits EXCEPT ![t] = h]
          /\ cancelled' = cancelled \cup {u \in {Reached(h)} \ {None, t} : pc[u] \in Interruptible}
      BY <1>1, <1>4 DEF CancelThen
    <2>2. /\ pc'[t] = p /\ \A u \in Coroutines \ {t} : pc'[u] = pc[u]
          /\ awaits'[t] = h /\ \A u \in Coroutines \ {t} : awaits'[u] = awaits[u]
      BY <2>1 DEF AwaitInv, Threads
    <2>3. ASSUME NEW u \in Coroutines, Replaces(u) PROVE Replaces(u)'
      BY <1>2, <2>1, <2>2, <2>3 DEF Replaces
    <2>4. ASSUME NEW u \in Coroutines, Watches(u) PROVE Watches(u)' \/ Replaces(t)'
      <3>1. u # t /\ pc'[u] = pc[u]
        BY <1>2, <2>2, <2>4
      <3>2. CASE u \notin cancelled'
        BY <1>2, <2>4, <3>1, <3>2 DEF Watches
      <3>3. CASE u \in cancelled'
        <4>1. u = Reached(h) /\ h \notin {None, t}
          BY <2>1, <2>4, <3>1, <3>3 DEF Watches, Reached, AwaitInv, Threads, Acts
        <4>2. /\ h \in GapTasks => pc[h] = "sleep"
              /\ pc[h] = "sleep" => awaits[h] = None
          BY <1>4, <4>1, CancelReaches
        <4>3. h \notin GapTasks
          <5> SUFFICES ASSUME h \in GapTasks PROVE FALSE
            OBVIOUS
          <5>1. u = h /\ pc[h] = "sleep"
            BY <4>1, <4>2 DEF Reached
          <5> QED
            BY <2>4, <5>1 DEF Watches
        <4>4. p \in {"give", "over", "downTurn"} /\ h = timeoutTask /\ h \in TurnTasks
          BY <1>1, <4>1, <4>3 DEF AwaitInv, Threads
        <4>5. awaits[h] = None
          <5> SUFFICES ASSUME awaits[h] # None PROVE FALSE
            OBVIOUS
          <5>1. awaits[h] = u /\ u \in GapTasks /\ u # h
            BY <1>4, <4>1, <4>4 DEF Reached, AwaitInv, ClockAtWork
          <5> QED
            BY <2>4, <4>4, <5>1 DEF Watches, AwaitInv, GapsGiveUp
        <4> QED
          BY <2>2, <3>3, <4>1, <4>4, <4>5 DEF Reached, Replaces
      <3> QED
        BY <3>2, <3>3
    <2> QED
      BY <2>3, <2>4 DEF Watched
  <1> QED
    BY <1>3, <1>4

LEMMA SpawnTimed ==
    ASSUME TimedInv, NEW t \in Coroutines, Acts(t), NEW x \in Tasks, pc[x] = "free", Spawns(t, x, target[t]),
           speaker' = speaker,
           \/ pc[t] = "granting" /\ x \in TurnTasks
           \/ pc[t] = "announcing"
    PROVE  Watched'
  <1> USE Kinds DEF TimedInv
  <1>1. x # t /\ awaits' = awaits /\ cancelled' = cancelled
    BY DEF Spawns
  <1>2. /\ pc'[x] = "sleep" /\ target'[x] = target[t] /\ x \notin cancelled
        /\ \A u \in Coroutines \ {x, t} : pc'[u] = pc[u] /\ target'[u] = target[u]
    BY <1>1 DEF Spawns, AwaitInv, Threads, WaitsSomewhere, Interruptible
  <1>3. Watches(t) => Watches(x)'
    BY <1>1, <1>2 DEF Watches
  <1>4. ~Replaces(t) /\ ~Watches(x) /\ ~Replaces(x)
    BY DEF Replaces, Watches
  <1>5. \A u \in Coroutines \ {x, t} : (Watches(u) => Watches(u)') /\ (Replaces(u) => Replaces(u)')
    BY <1>1, <1>2 DEF Watches, Replaces
  <1> QED
    BY <1>3, <1>4, <1>5 DEF Watched

LEMMA EndTimed ==
    ASSUME TimedInv, NEW t \in Coroutines, TaskEnds(t)
    PROVE  Watched'
  <1> USE Kinds DEF TimedInv
  <1>1. ~Watches(t) /\ ~Replaces(t)
    BY DEF TaskEnds, At, Watches, Replaces, AwaitInv, WaitsSomewhere, Interruptible
  <1>2. /\ speaker' = speaker /\ cancelled' = cancelled \ {t}
        /\ \A u \in Coroutines \ {t} :
              /\ target'[u] = target[u]
              /\ awaits'[u] = IF awaits[u] = t THEN None ELSE awaits[u]
              /\ pc'[u] = IF awaits[u] = t /\ pc[t] = "failed" THEN "failed" ELSE pc[u]
    BY DEF TaskEnds
  <1>3. ASSUME NEW u \in Coroutines, Watches(u) PROVE Watches(u)'
    <2>1. u # t /\ awaits[u] = None
      BY <1>1, <1>3 DEF Watches, AwaitInv, WaitsSomewhere, Waits
    <2> QED
      BY <1>2, <1>3, <2>1 DEF Watches
  <1>4. ASSUME NEW u \in Coroutines, Replaces(u) PROVE Replaces(u)'
    <2>1. u # t
      BY <1>1, <1>4
    <2>2. awaits[u] = t => t \in cancelled /\ pc[t] # "failed"
      BY <1>4, <2>1 DEF Replaces, AwaitInv, WaitsSomewhere, Interruptible
    <2> QED
      BY <1>2, <1>4, <2>1, <2>2 DEF Replaces
  <1> QED
    BY <1>2, <1>3, <1>4 DEF Watched

LEMMA AbsorbTimed ==
    ASSUME TimedInv, NEW t \in Coroutines, Absorbs(t)
    PROVE  Watched'
  <1>1. /\ UNCHANGED <<pc, target, cancelled, speaker>>
        /\ awaits'[t] = None /\ \A u \in Coroutines \ {t} : awaits'[u] = awaits[u]
    BY DEF Absorbs, turnVars, TimedInv, AwaitInv, Threads
  <1> QED
    BY <1>1 DEF TimedInv, Watched, Watches, Replaces

\* target stays a function of the coroutines.
LEMMA TargetStep ==
    ASSUME TimedInv, [RoomNext]_roomVars
    PROVE  target' = [t \in Coroutines |-> target'[t]]
  <1> USE DEF TimedInv, GoesOn, GoesOnFor, Suspends, SuspendsFor, CancelThen
  <1>1. ASSUME NEW t \in Coroutines, Step(t) PROVE target' = [u \in Coroutines |-> target'[u]]
    <2>1. CASE HandlerReturns(t) \/ TaskEnds(t) \/ Absorbs(t) \/ Schedules(t)
      BY <2>1 DEF HandlerReturns, TaskEnds, Absorbs, Schedules
    <2>2. CASE ChoosesQueued(t) \/ ChoosesInLine(t) \/ ChoosesNobody(t)
      BY <2>2 DEF ChoosesQueued, ChoosesInLine, ChoosesNobody, Announces
    <2>3. CASE SleepsTheGap(t) \/ GapEnds(t) \/ StartsClock(t)
      BY <2>3 DEF SleepsTheGap, GapEnds, StartsClock, Spawns
    <2>4. CASE Grants(t) \/ StopsClock(t) \/ GivesTurn(t)
      BY <2>4 DEF Grants, StopsClock, GivesTurn
    <2>5. CASE TurnTimesOut(t) \/ Revokes(t) \/ TurnIsOver(t) \/ MentionsNext(t) \/ NamesNobody(t)
      BY <2>5 DEF TurnTimesOut, Revokes, TurnIsOver, MentionsNext, NamesNobody
    <2> QED
      BY <1>1, <2>1, <2>2, <2>3, <2>4, <2>5 DEF Step
  <1>2. CASE HostStep \/ Starts \/ SetsPaused \/ \E d \in Deleters : Deletes(d)
    BY <1>2 DEF HostStep, FirstTurn, StopsTurn, ClearsRoom, Forgets, Starts, SetsPaused, Deletes, threads
  <1>3. CASE \E c \in Conns : TurnDone(c) \/ Says(c) \/ Disconnects(c)
    BY <1>3 DEF TurnDone, Says, Disconnects
  <1>5. CASE \E c \in Conns : Joins(c) \/ ReplyArrives(c) \/ ReplyFails(c)
    BY <1>5 DEF Joins, ReplyArrives, ReplyFails
  <1>4. CASE Restarts
    BY <1>4 DEF Restarts, Nobody
  <1> QED
    BY <1>1, <1>2, <1>3, <1>4, <1>5 DEF RoomNext, roomVars, threads

\* A step of a coroutine whose place says nothing of the speaker.
LEMMA PlainTimed ==
    ASSUME TimedInv, NEW t \in Coroutines, pc[t] \notin {"sleep", "revoking", "granting", "give", "over", "downTurn"}
    PROVE  ~Watches(t) /\ ~Replaces(t)
  BY DEF Watches, Replaces

LEMMA WatchedStep ==
    ASSUME TimedInv, [RoomNext]_roomVars
    PROVE  Watched'
  <1> USE Kinds
  <1>d. DOMAIN target = Coroutines
    BY DEF TimedInv
  <1>n. speaker' = None => Watched'
    BY DEF Watched
  <1>1. ASSUME NEW t \in Coroutines, Step(t) PROVE Watched'
    <2> USE DEF GoesOn, GoesOnFor, Suspends, SuspendsFor, At
    <2>1. CASE HandlerReturns(t)
      <3>1. pc[t] \in {"return", "failed"} /\ pc' = [pc EXCEPT ![t] = "idle"] /\ UNCHANGED <<target, awaits, cancelled, speaker>>
        BY <2>1 DEF HandlerReturns, turnVars
      <3> QED
        BY <3>1, PlainTimed, MoveTimed
    <2>2. CASE TaskEnds(t) \/ Absorbs(t)
      BY <2>2, EndTimed, AbsorbTimed
    <2>3. CASE Schedules(t)
      <3>1. Acts(t) /\ speaker' = speaker /\ pc[t] = "schedule"
        BY <2>3 DEF Schedules, Acts, turnVars
      <3>2. CASE CancelThen(t, gapTask, "choose")
        BY <3>1, <3>2, CancelTimed
      <3>3. CASE GoesOn(t, "return")
        BY <1>d, <3>1, <3>3, PlainTimed, MoveTimed
      <3> QED
        BY <2>3, <3>2, <3>3 DEF Schedules
    <2>4. CASE ChoosesQueued(t) \/ ChoosesInLine(t) \/ ChoosesNobody(t)
      <3>1. pc[t] = "choose" /\ speaker' = speaker
        BY <2>4 DEF ChoosesQueued, ChoosesInLine, ChoosesNobody
      <3>2. PICK p \in {"grant", "announcing", "return"} : pc' = [pc EXCEPT ![t] = p]
        BY <2>4 DEF ChoosesQueued, ChoosesInLine, ChoosesNobody, Announces
      <3>3. UNCHANGED <<awaits, cancelled>> /\ \A u \in Coroutines \ {t} : target'[u] = target[u]
        BY <1>d, <2>4 DEF ChoosesQueued, ChoosesInLine, ChoosesNobody, Announces
      <3> QED
        BY <3>1, <3>2, <3>3, PlainTimed, MoveTimed
    <2>5. CASE SleepsTheGap(t)
      <3>1. Acts(t) /\ pc[t] = "announcing" /\ speaker' = speaker /\ gapTask' \in Spare(GapTasks)
            /\ Spawns(t, gapTask', target[t])
        BY <2>5 DEF SleepsTheGap, Acts, turnVars
      <3> QED
        BY <3>1, SpawnTimed DEF Spare
    <2>6. CASE GapEnds(t)
      <3>1. t \in GapTasks /\ pc[t] = "sleep" /\ speaker' = speaker /\ UNCHANGED <<awaits, cancelled>>
        BY <2>6 DEF GapEnds, turnVars
      <3>2. PICK p \in {"grant", "return"} : pc' = [pc EXCEPT ![t] = p]
        BY <2>6 DEF GapEnds
      <3>3. ~Watches(t) /\ ~Replaces(t)
        BY <3>1 DEF Watches, Replaces
      <3>4. \A u \in Coroutines \ {t} : target'[u] = target[u]
        BY <1>d, <2>6 DEF GapEnds
      <3> QED
        BY <3>1, <3>2, <3>3, <3>4, MoveTimed
    <2>7. CASE Grants(t)
      <3>1. Acts(t) /\ speaker' = speaker /\ pc[t] = "grant"
        BY <2>7 DEF Grants, Acts, turnVars
      <3>2. CASE CancelThen(t, gapTask, "clock")
        BY <3>1, <3>2, CancelTimed
      <3>3. CASE GoesOn(t, "return")
        BY <1>d, <3>1, <3>3, PlainTimed, MoveTimed
      <3> QED
        BY <2>7, <3>2, <3>3 DEF Grants
    <2>8. CASE StopsClock(t)
      <3>1. Acts(t) /\ speaker' = speaker /\ pc[t] = "clock" /\ CancelThen(t, timeoutTask, "give")
        BY <2>8 DEF StopsClock, Acts
      <3> QED
        BY <3>1, CancelTimed
    <2>9. CASE GivesTurn(t)
      <3>1. Watches(t)'
        BY <2>9 DEF GivesTurn, Watches, TimedInv, AwaitInv, Threads
      <3> QED
        BY <3>1 DEF Watched
    <2>10. CASE StartsClock(t)
      <3>1. Acts(t) /\ pc[t] = "granting" /\ speaker' = speaker /\ timeoutTask' \in Spare(TurnTasks)
            /\ Spawns(t, timeoutTask', target[t])
        BY <2>10 DEF StartsClock, Acts, turnVars
      <3> QED
        BY <3>1, SpawnTimed DEF Spare
    <2>11. CASE TurnTimesOut(t)
      <3>1. t \in TurnTasks /\ pc[t] = "sleep" /\ speaker' = speaker /\ UNCHANGED <<awaits, cancelled>>
        BY <2>11 DEF TurnTimesOut, turnVars
      <3>2. ~Replaces(t)
        BY <3>1 DEF Replaces
      <3>3. CASE speaker = target[t]
        <4>1. pc' = [pc EXCEPT ![t] = "revoking"] /\ target' = target
          BY <2>11, <3>3 DEF TurnTimesOut
        <4>2. Watches(t) => Watches(t)'
          BY <3>1, <4>1 DEF Watches, TimedInv, AwaitInv, Threads
        <4> QED
          BY <3>1, <3>2, <4>1, <4>2, MoveTimed
      <3>4. CASE speaker # target[t]
        <4>1. pc' = [pc EXCEPT ![t] = "return"] /\ \A u \in Coroutines \ {t} : target'[u] = target[u]
          BY <1>d, <2>11, <3>4 DEF TurnTimesOut
        <4>2. ~Watches(t)
          BY <3>4 DEF Watches
        <4> QED
          BY <3>1, <3>2, <4>1, <4>2, MoveTimed
      <3> QED
        BY <3>3, <3>4
    <2>12. CASE Revokes(t) \/ TurnIsOver(t)
      BY <1>n, <2>12 DEF Revokes, TurnIsOver
    <2>13. CASE MentionsNext(t) \/ NamesNobody(t)
      <3>1. pc[t] = "saying" /\ speaker' = speaker /\ pc' = [pc EXCEPT ![t] = "return"] /\ UNCHANGED <<awaits, cancelled>>
        BY <2>13 DEF MentionsNext, NamesNobody
      <3>2. \A u \in Coroutines \ {t} : target'[u] = target[u]
        BY <1>d, <2>13 DEF MentionsNext, NamesNobody
      <3> QED
        BY <3>1, <3>2, PlainTimed, MoveTimed
    <2> QED
      BY <1>1, <2>1, <2>2, <2>3, <2>4, <2>5, <2>6, <2>7, <2>8, <2>9, <2>10, <2>11, <2>12, <2>13 DEF Step
  <1>2. ASSUME NEW t \in Handlers,
               \/ t = Host /\ (Starts \/ FirstTurn)
               \/ t \in Deleters /\ Forgets(t)
               \/ t \in Conns /\ (Says(t) \/ Joins(t) \/ ReplyArrives(t) \/ ReplyFails(t))
        PROVE  Watched'
    <2> USE DEF GoesOn, GoesOnFor, Suspends, SuspendsFor, At
    <2>1. pc[t] \in {"idle", "starting", "closing", "replying"} /\ speaker' = speaker /\ UNCHANGED <<awaits, cancelled>>
      BY <1>2 DEF Starts, FirstTurn, Forgets, Says, Joins, ReplyArrives, ReplyFails, Idle, turnVars
    <2>2. PICK p \in {"starting", "grant", "return", "saying", "replying", "failed", "lost"} : pc' = [pc EXCEPT ![t] = p]
      BY <1>2 DEF Starts, FirstTurn, Forgets, Says, Joins, ReplyArrives, ReplyFails
    <2>3. \A u \in Coroutines \ {t} : target'[u] = target[u]
      BY <1>d, <1>2 DEF Starts, FirstTurn, Forgets, Says, Joins, ReplyArrives, ReplyFails
    <2>4. ~Watches(t) /\ ~Replaces(t)
      BY <2>1, PlainTimed
    <2> QED
      BY <2>1, <2>2, <2>3, <2>4, MoveTimed
  <1>3. ASSUME NEW d \in Deleters, StopsTurn(d) \/ ClearsRoom(d) \/ Deletes(d) PROVE Watched'
    <2>1. CASE Deletes(d)
      <3>1. Acts(d) /\ speaker' = speaker /\ pc[d] = "idle" /\ CancelThen(d, gapTask, "downGap")
        BY <2>1, IdleActs DEF Deletes, turnVars, Idle, TimedInv
      <3> QED
        BY <3>1, CancelTimed
    <2>2. CASE StopsTurn(d)
      <3>1. Acts(d) /\ speaker' = speaker /\ pc[d] = "downGap" /\ CancelThen(d, timeoutTask, "downTurn")
        BY <2>2 DEF StopsTurn, At, Acts
      <3> QED
        BY <3>1, CancelTimed
    <2> QED
      BY <1>n, <1>3, <2>1, <2>2 DEF ClearsRoom
  <1>4. ASSUME NEW c \in Conns, TurnDone(c) \/ Disconnects(c) PROVE Watched'
    <2>1. Acts(c) /\ speaker' = speaker /\ pc[c] \in {"idle", "failed"}
      <3>1. Idle(c) => Acts(c)
        BY IdleActs DEF TimedInv
      <3> QED
        BY <1>4, <3>1 DEF TurnDone, Disconnects, At, Acts, Idle, turnVars
    <2>2. CASE CancelThen(c, timeoutTask, "over")
      BY <2>1, <2>2, CancelTimed
    <2>3. CASE GoesOn(c, "return")
      BY <1>d, <2>1, <2>3, PlainTimed, MoveTimed DEF GoesOn
    <2> QED
      BY <1>4, <2>2, <2>3 DEF TurnDone, Disconnects
  <1>5. CASE Restarts
    BY <1>n, <1>5 DEF Restarts
  <1>6. CASE UNCHANGED <<speaker, pc, target, awaits, cancelled>>
    BY <1>6 DEF TimedInv, Watched, Watches, Replaces
  <1>7. CASE SetsPaused
    BY <1>6, <1>7 DEF SetsPaused, threads, turnVars
  <1> QED
    <2>1. CASE HostStep \/ Starts
      BY <1>2, <1>3, <2>1 DEF HostStep
    <2>2. CASE UNCHANGED roomVars
      BY <1>6, <2>2 DEF roomVars, threads, turnVars
    <2> QED
      BY <1>1, <1>2, <1>3, <1>4, <1>5, <1>7, <2>1, <2>2 DEF RoomNext

LEMMA InitTimed == RoomInit => TimedInv
  BY Kinds DEF RoomInit, TurnsInit, AtRest, Nobody, TimedInv, AwaitInv, Threads, Spots, WaitsSomewhere, GapAtWork,
               ClockAtWork, GapsGiveUp, AwaitedTasksEnd, Watched

\* Whoever speaks is told to stop, for any number of coroutines under way,
\* whatever they cancel and however their awaits fail: if the task that would
\* revoke the turn is cancelled, whoever cancelled it ends the turn or gives
\* it on, since what it awaits then does not fail.
THEOREM TurnsAreTimed ==
    RoomSpec => []TurnIsTimed
  <1>1. RoomInit => TimedInv
    BY InitTimed
  <1>2. TimedInv /\ [RoomNext]_roomVars => TimedInv'
    BY AwaitStep, TargetStep, WatchedStep DEF TimedInv
  <1>3. TimedInv => TurnIsTimed
    BY TimedImplies
  <1> QED
    BY <1>1, <1>2, <1>3, PTL DEF RoomSpec

-----------------------------------------------------------------------------
(* The index of connections                                                *)

Places ==
    /\ serial \in 0 .. MaxMembers
    /\ connOf \in [Members -> Conns \cup {None}]
    /\ index \in [Conns -> Members \cup {None}]
    /\ agentOf = [c \in Conns |-> agentOf[c]]

\* The index and the members it names agree.
Owned == \A c \in Conns : index[c] # None => connOf[index[c]] = c /\ index[c] \in online

\* The loop of a connection speaks for the member of the index, or is about to.
Speaks(c) ==
    index[c] # None =>
        /\ pc[c] = "replying" => target[c] = index[c]
        /\ pc[c] \notin {"replying", "lost"} => agentOf[c] = index[c] \/ MustLeave(c)

IndexInv ==
    /\ TimedInv
    /\ Places /\ Owned
    /\ ~removed => \A c \in Conns : Speaks(c)

LEMMA EnterKeepsPlaces ==
    ASSUME Places, Owned, NEW c \in Conns, NEW m \in Members, Enter(c, m), serial' \in 0 .. MaxMembers
    PROVE  Places' /\ Owned' /\ index'[c] = m /\ \A d \in Conns \ {c} : index'[d] \in {index[d], None}
  <1>0. None \notin Conns
    BY RoomAssumption DEF RoomAssumption, Coroutines, Handlers
  <1>1. Places' /\ index'[c] = m /\ \A d \in Conns \ {c} : index'[d] \in {index[d], None}
    BY DEF Places, Enter
  <1>2. ASSUME NEW d \in Conns, index'[d] # None
        PROVE  connOf'[index'[d]] = d /\ index'[d] \in online'
    <2>1. CASE d = c
      BY <2>1 DEF Places, Enter
    <2>2. CASE d # c
      <3>1. index'[d] = index[d] /\ d # connOf[m]
        BY <1>2, <2>2 DEF Enter
      <3>2. connOf[index[d]] = d /\ index[d] \in online /\ index[d] # m
        BY <1>2, <3>1 DEF Owned
      <3> QED
        BY <2>2, <3>1, <3>2 DEF Enter, Places
    <2> QED
      BY <2>1, <2>2
  <1> QED
    BY <1>1, <1>2 DEF Owned

LEMMA LeaveKeepsPlaces ==
    ASSUME Places, Owned, NEW c \in Conns, Leave(c)
    PROVE  Places' /\ Owned'
  <1>0. None \notin Conns
    BY RoomAssumption DEF RoomAssumption, Coroutines, Handlers
  <1>1. Places'
    BY DEF Places, Leave
  <1>2. ASSUME NEW d \in Conns, index'[d] # None
        PROVE  connOf'[index'[d]] = d /\ index'[d] \in online'
    <2>1. d # c /\ index'[d] = index[d] /\ index[d] \in Members
      BY <1>2 DEF Leave, Places
    <2>2. connOf[index[d]] = d /\ index[d] \in online
      BY <1>2, <2>1 DEF Owned
    <2>3. index[d] \notin LeavesWith(c)
      BY <2>1, <2>2 DEF LeavesWith
    <2> QED
      BY <2>1, <2>2, <2>3 DEF Leave, Places
  <1> QED
    BY <1>1, <1>2 DEF Owned

\* What another coroutine's step leaves of a connection's loop.
Alone(d) ==
    /\ pc'[d] = "replying" => pc[d] = "replying"
    /\ pc[d] \in {"replying", "lost"} => pc'[d] = pc[d] /\ target'[d] = target[d]
    /\ MustLeave(d) => pc'[d] = "failed"

\* A step of t, which neither replies nor must leave.
LEMMA MoveAlone ==
    ASSUME AwaitInv, NEW t \in Coroutines, NEW p \in Spots, pc' = [pc EXCEPT ![t] = p],
           \A u \in Coroutines \ {t} : target'[u] = target[u],
           NEW d \in Conns,
           d = t => p # "replying" /\ pc[t] \notin {"replying", "lost"} /\ ~MustLeave(t)
    PROVE  Alone(d)
  <1>1. d \in Coroutines
    BY Kinds
  <1>2. CASE d = t
    BY <1>1, <1>2 DEF Alone, AwaitInv, Threads
  <1>3. CASE d # t
    BY <1>1, <1>3 DEF Alone, AwaitInv, Threads, MustLeave
  <1> QED
    BY <1>2, <1>3

LEMMA CancelAlone ==
    ASSUME AwaitInv, NEW t \in Coroutines, NEW h, NEW p \in Waits, CancelThen(t, h, p), NEW d \in Conns,
           pc[t] \notin {"replying", "lost", "failed"}
    PROVE  Alone(d)
  <1>1. target' = target
    BY DEF CancelThen
  <1>2. PICK q \in Waits \cup {"failed"} : pc' = [pc EXCEPT ![t] = q]
    BY DEF CancelThen
  <1>3. ~MustLeave(t)
    BY DEF MustLeave
  <1> QED
    BY <1>1, <1>2, <1>3, MoveAlone DEF Waits, Spots

LEMMA EndAlone ==
    ASSUME AwaitInv, NEW t \in Coroutines, TaskEnds(t), NEW d \in Conns
    PROVE  Alone(d)
  <1> USE Kinds
  <1>1. t \in Tasks /\ d \in Coroutines /\ d # t
    BY DEF TaskEnds
  <1>2. target'[d] = target[d] \/ DOMAIN target # Coroutines
    BY <1>1 DEF TaskEnds
  <1>3. pc'[d] = (IF awaits[d] = t /\ pc[t] = "failed" THEN "failed" ELSE pc[d])
    BY <1>1 DEF TaskEnds
  <1>4. pc[d] \in {"replying", "lost"} => awaits[d] # t
    BY <1>1 DEF AwaitInv, WaitsSomewhere, Waits
  <1> QED
    BY <1>1, <1>2, <1>3, <1>4 DEF Alone, MustLeave, TaskEnds

LEMMA SpawnAlone ==
    ASSUME AwaitInv, NEW t \in Coroutines, pc[t] \in {"announcing", "granting"}, NEW x \in Tasks,
           Spawns(t, x, target[t]), target = [u \in Coroutines |-> target[u]], NEW d \in Conns
    PROVE  Alone(d)
  <1> USE Kinds
  <1>1. d \in Coroutines /\ d # x
    OBVIOUS
  <1>2. CASE d = t
    BY <1>1, <1>2 DEF Spawns, Alone, MustLeave, AwaitInv, Threads
  <1>3. CASE d # t
    BY <1>1, <1>3 DEF Spawns, Alone, MustLeave, AwaitInv, Threads
  <1> QED
    BY <1>2, <1>3

LEMMA StepAlone ==
    ASSUME AwaitInv, target = [u \in Coroutines |-> target[u]], NEW t \in Coroutines, Step(t), NEW d \in Conns
    PROVE  Alone(d)
  <1> USE Kinds DEF GoesOn, GoesOnFor, Suspends, SuspendsFor, At
  <1>d. DOMAIN target = Coroutines
    OBVIOUS
  <1>1. CASE HandlerReturns(t)
    <2>1. t = d => ~MustLeave(t)
      BY <1>1 DEF HandlerReturns
    <2>2. pc[t] \in {"return", "failed"} /\ pc' = [pc EXCEPT ![t] = "idle"] /\ target' = target
      BY <1>1 DEF HandlerReturns
    <2> QED
      BY <2>1, <2>2, MoveAlone DEF Spots
  <1>2. CASE TaskEnds(t) \/ Absorbs(t)
    <2>1. Absorbs(t) => Alone(d)
      BY DEF Absorbs, Alone, MustLeave
    <2> QED
      BY <1>2, <2>1, EndAlone
  <1>3. CASE Schedules(t) \/ Grants(t) \/ StopsClock(t)
    <2>1. pc[t] \in {"schedule", "grant", "clock"}
      BY <1>3 DEF Schedules, Grants, StopsClock
    <2>2. CASE GoesOn(t, "return")
      BY <1>d, <2>1, <2>2, MoveAlone DEF Spots, MustLeave
    <2>3. CASE \E h \in {gapTask, timeoutTask}, p \in Waits : CancelThen(t, h, p)
      BY <2>1, <2>3, CancelAlone
    <2> QED
      BY <1>3, <2>2, <2>3 DEF Schedules, Grants, StopsClock, Waits
  <1>4. CASE SleepsTheGap(t) \/ StartsClock(t)
    <2>1. pc[t] \in {"announcing", "granting"}
      BY <1>4 DEF SleepsTheGap, StartsClock
    <2>2. PICK x \in Tasks : Spawns(t, x, target[t])
      BY <1>4 DEF SleepsTheGap, StartsClock, Spare
    <2> QED
      BY <2>1, <2>2, SpawnAlone
  <1>5. CASE \/ ChoosesQueued(t) \/ ChoosesInLine(t) \/ ChoosesNobody(t) \/ GapEnds(t) \/ GivesTurn(t)
             \/ TurnTimesOut(t) \/ Revokes(t) \/ TurnIsOver(t) \/ MentionsNext(t) \/ NamesNobody(t)
    <2>1. pc[t] \in {"choose", "sleep", "give", "revoking", "over", "saying"}
      BY <1>5 DEF ChoosesQueued, ChoosesInLine, ChoosesNobody, GapEnds, GivesTurn, TurnTimesOut, Revokes,
                  TurnIsOver, MentionsNext, NamesNobody
    <2>2. PICK p \in {"grant", "announcing", "return", "granting", "revoking", "schedule"} :
             pc' = [pc EXCEPT ![t] = p]
      BY <1>5 DEF ChoosesQueued, ChoosesInLine, ChoosesNobody, Announces, GapEnds, GivesTurn, TurnTimesOut, Revokes,
                  TurnIsOver, MentionsNext, NamesNobody
    <2>3. \A u \in Coroutines \ {t} : target'[u] = target[u]
      BY <1>d, <1>5 DEF ChoosesQueued, ChoosesInLine, ChoosesNobody, Announces, GapEnds, GivesTurn, TurnTimesOut,
                        Revokes, TurnIsOver, MentionsNext, NamesNobody
    <2> QED
      BY <2>1, <2>2, <2>3, MoveAlone DEF Spots, MustLeave
  <1> QED
    BY <1>1, <1>2, <1>3, <1>4, <1>5 DEF Step

LEMMA HandlerAlone ==
    ASSUME AwaitInv, target = [u \in Coroutines |-> target[u]], NEW d \in Conns,
           HostStep \/ Starts \/ SetsPaused \/ (\E e \in Deleters : Deletes(e)) \/ (\E c \in Conns : TurnDone(c) \/ Says(c))
    PROVE  Alone(d)
  <1> USE Kinds DEF GoesOn, GoesOnFor, Suspends, SuspendsFor, At, Idle
  <1>d. DOMAIN target = Coroutines
    OBVIOUS
  <1>1. ASSUME NEW t \in Handlers,
               \/ t = Host /\ (Starts \/ FirstTurn)
               \/ t \in Deleters /\ (ClearsRoom(t) \/ Forgets(t))
               \/ t \in Conns /\ Says(t)
        PROVE  Alone(d)
    <2>1. pc[t] \in {"idle", "starting", "downTurn", "closing"}
      BY <1>1 DEF Starts, FirstTurn, ClearsRoom, Forgets, Says
    <2>2. PICK p \in {"starting", "grant", "closing", "return", "saying"} : pc' = [pc EXCEPT ![t] = p]
      BY <1>1 DEF Starts, FirstTurn, ClearsRoom, Forgets, Says
    <2>3. \A u \in Coroutines \ {t} : target'[u] = target[u]
      BY <1>d, <1>1 DEF Starts, FirstTurn, ClearsRoom, Forgets, Says
    <2> QED
      BY <2>1, <2>2, <2>3, MoveAlone DEF Spots, MustLeave
  <1>2. ASSUME NEW t \in Handlers,
               \/ t \in Deleters /\ (Deletes(t) \/ StopsTurn(t))
               \/ t \in Conns /\ TurnDone(t)
        PROVE  Alone(d)
    <2>1. pc[t] \in {"idle", "downGap"}
      BY <1>2 DEF Deletes, StopsTurn, TurnDone
    <2>2. PICK h \in {gapTask, timeoutTask}, p \in Waits : CancelThen(t, h, p)
      BY <1>2 DEF Deletes, StopsTurn, TurnDone, Waits
    <2> QED
      BY <2>1, <2>2, CancelAlone
  <1>3. CASE SetsPaused
    BY <1>3 DEF SetsPaused, threads, Alone, MustLeave
  <1> QED
    BY <1>1, <1>2, <1>3 DEF HostStep

\* The steps that change who is a member, and on which connection.
LEMMA MembersChange ==
    ASSUME RoomNext
    PROVE  \/ \E c \in Conns : Joins(c) \/ ReplyArrives(c) \/ ReplyFails(c) \/ Disconnects(c)
           \/ Restarts
           \/ /\ UNCHANGED memberVars
              /\ removed => removed'
              /\ \/ \E t \in Coroutines : Step(t)
                 \/ HostStep \/ Starts \/ SetsPaused
                 \/ (\E e \in Deleters : Deletes(e))
                 \/ (\E c \in Conns : TurnDone(c) \/ Says(c))
  BY DEF RoomNext, Step, HostStep, HandlerReturns, TaskEnds, Absorbs, Schedules, ChoosesQueued, ChoosesInLine,
         ChoosesNobody, SleepsTheGap, GapEnds, Grants, StopsClock, GivesTurn, StartsClock, TurnTimesOut, Revokes,
         TurnIsOver, MentionsNext, NamesNobody, FirstTurn, StopsTurn, ClearsRoom, Forgets, TurnDone, Says, Starts,
         SetsPaused, Deletes, config

LEMMA SpeaksAlone ==
    ASSUME NEW d \in Conns, Speaks(d), Alone(d), ~removed, ~removed', agentOf'[d] = agentOf[d],
           index'[d] \in {index[d], None}
    PROVE  Speaks(d)'
  BY DEF Speaks, Alone, MustLeave

\* A step of one connection, for its own loop and for the others'.
LEMMA ConnSteps ==
    ASSUME AwaitInv, target = [u \in Coroutines |-> target[u]], Places, NEW c \in Conns,
           Joins(c) \/ ReplyArrives(c) \/ ReplyFails(c) \/ Disconnects(c)
    PROVE  /\ removed' = removed
           /\ \/ pc'[c] = "replying" /\ target'[c] = index'[c]
              \/ pc[c] = "replying" /\ pc'[c] = "return" /\ agentOf'[c] = target[c] /\ index' = index
              \/ pc[c] = "replying" /\ pc'[c] = "lost"
              \/ pc[c] = "replying" /\ pc'[c] = "failed" /\ agentOf'[c] # None
              \/ index'[c] = None
           /\ \A d \in Conns \ {c} : Alone(d) /\ agentOf'[d] = agentOf[d]
  <1> USE Kinds
  <1>d. DOMAIN pc = Coroutines /\ DOMAIN target = Coroutines /\ DOMAIN agentOf = Conns /\ DOMAIN index = Conns
    BY DEF AwaitInv, Threads, Places
  <1>1. CASE Joins(c)
    <2>1. agentOf' = agentOf
      BY <1>1 DEF Joins, Join, Rejoin, Enter
    <2>2. pc' = [pc EXCEPT ![c] = "replying"] /\ target' = [target EXCEPT ![c] = index'[c]] /\ removed' = removed
      BY <1>1 DEF Joins, SuspendsFor, config
    <2>3. \A d \in Conns \ {c} : Alone(d)
      BY <1>d, <2>2, MoveAlone DEF Spots
    <2> QED
      BY <1>d, <2>1, <2>2, <2>3
  <1>2. CASE ReplyArrives(c)
    <2>1. /\ pc[c] = "replying" /\ pc' = [pc EXCEPT ![c] = "return"] /\ removed' = removed /\ index' = index
          /\ agentOf' = [agentOf EXCEPT ![c] = target[c]]
          /\ \A u \in Coroutines \ {c} : target'[u] = target[u]
      BY <1>d, <1>2 DEF ReplyArrives, At, GoesOn, config
    <2>2. \A d \in Conns \ {c} : Alone(d)
      BY <1>d, <2>1, MoveAlone DEF Spots
    <2> QED
      BY <1>d, <2>1, <2>2
  <1>3. CASE ReplyFails(c)
    <2>1. pc[c] = "replying" /\ removed' = removed /\ agentOf' = agentOf
      BY <1>3 DEF ReplyFails, At, config, memberVars
    <2>2. \/ pc' = [pc EXCEPT ![c] = "failed"] /\ agentOf[c] # None
          \/ pc' = [pc EXCEPT ![c] = "lost"]
      BY <1>3 DEF ReplyFails, GoesOn, SuspendsFor
    <2>3. \A u \in Coroutines \ {c} : target'[u] = target[u]
      BY <1>d, <1>3 DEF ReplyFails, GoesOn, SuspendsFor
    <2>4. \A d \in Conns \ {c} : Alone(d)
      BY <2>2, <2>3, MoveAlone DEF Spots
    <2> QED
      BY <1>d, <2>1, <2>2, <2>4
  <1>4. CASE Disconnects(c)
    <2>1. /\ removed' = removed
          /\ index' = [index EXCEPT ![c] = None] /\ agentOf' = [agentOf EXCEPT ![c] = None]
      BY <1>4 DEF Disconnects, Leave, config
    <2>2. CASE GoesOn(c, "return")
      <3>1. pc' = [pc EXCEPT ![c] = "return"] /\ \A u \in Coroutines \ {c} : target'[u] = target[u]
        BY <1>d, <2>2 DEF GoesOn
      <3>2. \A d \in Conns \ {c} : Alone(d)
        BY <3>1, MoveAlone DEF Spots
      <3> QED
        BY <1>d, <2>1, <3>2
    <2>3. CASE CancelThen(c, timeoutTask, "over")
      <3>1. target' = target /\ \E q \in {"failed", "over"} : pc' = [pc EXCEPT ![c] = q]
        BY <2>3 DEF CancelThen
      <3>2. \A d \in Conns \ {c} : Alone(d)
        BY <3>1, MoveAlone DEF Spots
      <3> QED
        BY <1>d, <2>1, <3>2
    <2> QED
      BY <1>4, <2>2, <2>3 DEF Disconnects
  <1> QED
    BY <1>1, <1>2, <1>3, <1>4

LEMMA PlacesStep ==
    ASSUME Places, Owned, [RoomNext]_roomVars
    PROVE  Places' /\ Owned'
  <1>m. MaxMembers \in Nat
    BY RoomAssumption DEF RoomAssumption
  <1>1. ASSUME NEW c \in Conns, Joins(c) PROVE Places' /\ Owned'
    <2>1. ASSUME NEW n \in Names, Join(c, n) PROVE Places' /\ Owned'
      <3>1. serial + 1 \in Members /\ serial' \in 0 .. MaxMembers
        BY <1>m, <2>1 DEF Join, Places, Members
      <3> QED
        BY <2>1, <3>1, EnterKeepsPlaces DEF Join
    <2>2. ASSUME NEW m \in Members, Rejoin(c, m) PROVE Places' /\ Owned'
      BY <2>2, EnterKeepsPlaces DEF Rejoin, Places
    <2> QED
      BY <1>1, <2>1, <2>2 DEF Joins
  <1>2. ASSUME NEW c \in Conns, ReplyArrives(c) PROVE Places' /\ Owned'
    BY <1>2 DEF ReplyArrives, Places, Owned
  <1>3. ASSUME NEW c \in Conns, Disconnects(c) PROVE Places' /\ Owned'
    BY <1>3, LeaveKeepsPlaces DEF Disconnects
  <1>4. CASE Restarts
    BY <1>m, <1>4 DEF Restarts, Nobody, Places, Owned
  <1>5. CASE UNCHANGED memberVars
    BY <1>5 DEF memberVars, Places, Owned
  <1>6. ASSUME NEW c \in Conns, ReplyFails(c) PROVE Places' /\ Owned'
    BY <1>5, <1>6 DEF ReplyFails
  <1> QED
    BY <1>1, <1>2, <1>3, <1>4, <1>5, <1>6, MembersChange DEF roomVars

LEMMA SpeaksStep ==
    ASSUME IndexInv, [RoomNext]_roomVars, ~removed', NEW d \in Conns
    PROVE  Speaks(d)'
  <1> USE DEF IndexInv, TimedInv
  <1>1. ASSUME NEW c \in Conns, Joins(c) \/ ReplyArrives(c) \/ ReplyFails(c) \/ Disconnects(c)
        PROVE  Speaks(d)'
    <2>1. ~removed /\ Speaks(d) /\ Speaks(c)
      BY <1>1, ConnSteps
    <2>2. CASE d = c
      BY <1>1, <2>1, <2>2, ConnSteps DEF Speaks, MustLeave
    <2>3. CASE d # c
      <3>1. index'[d] \in {index[d], None}
        <4>1. ASSUME NEW m \in Members, Enter(c, m) PROVE index'[d] \in {index[d], None}
          BY <2>3, <4>1 DEF Enter
        <4>2. CASE Joins(c)
          <5>1. ASSUME NEW n \in Names, Join(c, n) PROVE index'[d] \in {index[d], None}
            <6>1. serial + 1 \in Members
              BY RoomAssumption, <5>1 DEF RoomAssumption, Join, Places, Members
            <6> QED
              BY <4>1, <5>1, <6>1 DEF Join
          <5> QED
            BY <4>1, <4>2, <5>1 DEF Joins, Rejoin
        <4>3. CASE ReplyArrives(c) \/ ReplyFails(c) \/ Disconnects(c)
          BY <2>3, <4>3 DEF ReplyArrives, ReplyFails, Disconnects, Leave, memberVars, Places
        <4> QED
          BY <1>1, <4>2, <4>3
      <3> QED
        BY <1>1, <2>1, <2>3, <3>1, ConnSteps, SpeaksAlone
    <2> QED
      BY <2>2, <2>3
  <1>2. CASE Restarts
    BY <1>2 DEF Restarts, Nobody, Speaks
  <1>3. ASSUME UNCHANGED memberVars, removed => removed',
               \/ \E t \in Coroutines : Step(t)
               \/ HostStep \/ Starts \/ SetsPaused
               \/ (\E e \in Deleters : Deletes(e))
               \/ (\E c \in Conns : TurnDone(c) \/ Says(c))
        PROVE  Speaks(d)'
    <2>1. Alone(d)
      BY <1>3, StepAlone, HandlerAlone
    <2> QED
      BY <1>3, <2>1, SpeaksAlone DEF memberVars
  <1>4. CASE UNCHANGED roomVars
    BY <1>4 DEF roomVars, memberVars, config, threads, Speaks, MustLeave
  <1> QED
    BY <1>1, <1>2, <1>3, <1>4, MembersChange

LEMMA IndexStep ==
    ASSUME IndexInv, [RoomNext]_roomVars
    PROVE  IndexInv'
  <1>1. TimedInv'
    BY AwaitStep, TargetStep, WatchedStep DEF IndexInv, TimedInv
  <1>2. Places' /\ Owned'
    BY PlacesStep DEF IndexInv
  <1>3. ~removed' => \A d \in Conns : Speaks(d)'
    BY SpeaksStep
  <1> QED
    BY <1>1, <1>2, <1>3 DEF IndexInv

\* Whatever joins, takes a connection over, leaves or restarts, and whichever
\* reply to a join fails: a connection in the index is the one its member
\* answers on, and its loop speaks for that member, is about to, leaves or is
\* lost.
THEOREM IndexIsRight ==
    RoomSpec => []IndexNamesOwner
  <1>1. RoomInit => IndexInv
    <2>1. RoomInit => TimedInv
      BY InitTimed
    <2> QED
      BY <2>1, RoomAssumption
         DEF RoomAssumption, RoomInit, MembersInit, IndexInv, Places, Owned, Speaks
  <1>2. IndexInv /\ [RoomNext]_roomVars => IndexInv'
    BY IndexStep
  <1>3. IndexInv => IndexNamesOwner
    BY DEF IndexInv, Owned, Speaks, IndexNamesOwner
  <1> QED
    BY <1>1, <1>2, <1>3, PTL DEF RoomSpec
=============================================================================
