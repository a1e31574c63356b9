----------------------------- MODULE LobbyRoom -----------------------------
(***************************************************************************)
(* The turns of a lobby room (infrastructure/lobby/room.py): one member    *)
(* speaks at a time, is told to stop by a timeout, and the next one is     *)
(* granted the turn after a gap.                                           *)
(*                                                                         *)
(* The room is driven by coroutines on one event loop: a handler for each  *)
(* websocket connection, the host's requests, and the tasks that sleep     *)
(* through a gap or a turn.  "running" is the coroutine between two        *)
(* awaits; nobody else moves before it suspends.  It suspends when it      *)
(* sends (emit_all) and when it awaits a task it has cancelled; the        *)
(* timeline is written without suspending.                                 *)
(*                                                                         *)
(* A cancelled task ends when it next runs, unless it is itself awaiting a *)
(* cancelled task: there the CancelledError is swallowed (_cancel_gap,     *)
(* _cancel_timeout), and so is the one a task gets for cancelling itself.  *)
(* A task that awaits itself goes on a cycle later; meanwhile whoever else *)
(* awaits it gets a RuntimeError from asyncio, which nobody catches.       *)
(* A task handle is None here when its task is done, the only thing the    *)
(* code asks of it.                                                        *)
(***************************************************************************)
EXTENDS LobbyMembers, SequencesExt

CONSTANTS
    Host,               \* the host's request to start the room
    Deleters,           \* the host's requests to delete it
    GapTasks,           \* the tasks of _after_gap that may live at once
    TurnTasks,          \* the tasks of _on_timeout that may live at once
    RoundRobin,         \* round_robin_enabled
    TurnGaps,           \* the values "turn_gap_sec > 0" may take
    MaxQueue,           \* bounds what mentions add to speak_queue
    MaxUnderWay         \* bounds the coroutines between their start or sleep and their end

VARIABLES
    speaker, speakQueue, roundRobin,    \* current_speaker, speak_queue, round_robin_index
    pending,                            \* pending_next_id
    gapTask, timeoutTask,               \* _gap_task, _timeout_task
    started, paused, removed,           \* the config, and whether the registry dropped the room
    running, pc, target, awaits,        \* the coroutines: who runs, where, for whom, awaiting whom
    cancelled                           \* the tasks that will get a CancelledError

turnVars == <<speaker, speakQueue, roundRobin, pending>>
handles  == <<gapTask, timeoutTask>>
config   == <<started, paused, removed>>
threads  == <<running, pc, target, awaits, cancelled>>
roomVars == <<memberVars, turnVars, handles, config, threads>>

Tasks      == GapTasks \cup TurnTasks
Handlers   == Conns \cup {Host} \cup Deleters
Coroutines == Handlers \cup Tasks

ASSUME RoomAssumption ==
    /\ GapTasks \cap TurnTasks = {} /\ Tasks \cap Handlers = {} /\ None \notin Coroutines
    /\ MaxMembers \in Nat

-----------------------------------------------------------------------------
(* Coroutines                                                              *)

At(t, p) ==
    /\ pc[t] = p /\ running \in {None, t}
    /\ t \notin cancelled /\ awaits[t] = None

UnderWay == {t \in Coroutines : pc[t] \notin {"idle", "free", "sleep", "lost"}}

MayBegin == Cardinality(UnderWay) < MaxUnderWay

Idle(t) == running = None /\ pc[t] = "idle" /\ MayBegin

GoesOn(t, p) ==
    /\ running' = t /\ pc' = [pc EXCEPT ![t] = p]
    /\ target' = IF p = "grant" THEN target ELSE [target EXCEPT ![t] = None]
    /\ UNCHANGED <<awaits, cancelled>>

GoesOnFor(t, p, m) ==
    /\ running' = t /\ pc' = [pc EXCEPT ![t] = p] /\ target' = [target EXCEPT ![t] = m]
    /\ UNCHANGED <<awaits, cancelled>>

Suspends(t, p) ==
    /\ running' = None /\ pc' = [pc EXCEPT ![t] = p]
    /\ UNCHANGED <<target, awaits, cancelled>>

SuspendsFor(t, p, m) ==
    /\ running' = None /\ pc' = [pc EXCEPT ![t] = p] /\ target' = [target EXCEPT ![t] = m]
    /\ UNCHANGED <<awaits, cancelled>>

\* Whom a cancellation of h reaches: what h awaits is cancelled with it.
Reached(h) == IF h = None \/ awaits[h] = None THEN h ELSE awaits[h]

Interruptible == {"sleep", "revoking", "announcing", "granting"}

\* Mutant: the task is awaited without being cancelled.
AwaitsOnly(t, h, p) ==
    /\ running' = IF h = None THEN t ELSE None
    /\ pc' = [pc EXCEPT ![t] = p]
    /\ awaits' = [awaits EXCEPT ![t] = h]
    /\ UNCHANGED <<target, cancelled>>

\* Cancel the task behind a handle, await its end, go on at p.
CancelThen(t, h, p) ==
    /\ UNCHANGED target
    /\ IF h # None /\ h # t /\ awaits[h] = h
       THEN /\ running' = t /\ pc' = [pc EXCEPT ![t] = "failed"]
            /\ UNCHANGED <<awaits, cancelled>>
       ELSE /\ running' = IF h = None THEN t ELSE None
            /\ pc' = [pc EXCEPT ![t] = p]
            /\ awaits' = [awaits EXCEPT ![t] = h]
            /\ cancelled' = cancelled \cup {u \in {Reached(h)} \ {None, t} : pc[u] \in Interruptible}

\* The CancelledError that a task gave itself is swallowed.
Absorbs(t) ==
    /\ running = None /\ awaits[t] = t
    /\ running' = t /\ awaits' = [awaits EXCEPT ![t] = None]
    /\ UNCHANGED <<memberVars, turnVars, handles, config, pc, target, cancelled>>

\* A connection whose handler failed is closed, and leaves the room first.
MustLeave(c) == pc[c] = "failed" /\ agentOf[c] # None /\ ~removed

HandlerReturns(t) ==
    /\ At(t, "return") \/ At(t, "failed")
    /\ t \in Handlers /\ (t \in Conns => ~MustLeave(t))
    /\ Suspends(t, "idle")
    /\ UNCHANGED <<memberVars, turnVars, handles, config>>

\* A task ends by returning, by its CancelledError or by an error, which
\* whoever awaits it gets too; _after_gap clears pending_next_id in its finally.
TaskEnds(t) ==
    /\ t \in Tasks
    /\ At(t, "return") \/ At(t, "failed") \/ (running = None /\ t \in cancelled)
    /\ running' = None
    /\ pc' = [u \in Coroutines |->
                IF u = t THEN "free"
                ELSE IF awaits[u] = t /\ pc[t] = "failed" THEN "failed" ELSE pc[u]]
    /\ target' = [target EXCEPT ![t] = None]
    /\ awaits' = [u \in Coroutines |-> IF awaits[u] = t THEN None ELSE awaits[u]]
    /\ cancelled' = cancelled \ {t}
    /\ gapTask' = IF gapTask = t THEN None ELSE gapTask
    /\ timeoutTask' = IF timeoutTask = t THEN None ELSE timeoutTask
    /\ pending' = IF t \in GapTasks THEN None ELSE pending
    /\ UNCHANGED <<memberVars, speaker, speakQueue, roundRobin, config>>

Spare(S) == {x \in S : pc[x] = "free"}

\* create_task, then return.
Spawns(t, x, m) ==
    /\ running' = t
    /\ pc' = [pc EXCEPT ![x] = "sleep", ![t] = "return"]
    /\ target' = [target EXCEPT ![x] = m, ![t] = None]
    /\ UNCHANGED <<awaits, cancelled>>

-----------------------------------------------------------------------------
(* Whose turn is next                                                      *)

OnlineIds == SetToSortSeq(online, <)

\* _round_robin_next: the member and the index it leaves.
NextInLine(exclude) ==
    LET n == Len(OnlineIds)
        i == roundRobin % n
        j == IF OnlineIds[i + 1] # exclude THEN i ELSE (i + 1) % n
    IN  <<OnlineIds[j + 1], (j + 1) % n>>

\* The first member of the queue that is online; those before it are dropped.
FirstOnline == SelectInSeq(speakQueue, LAMBDA m : m \in online)

\* _schedule_next
Schedules(t) ==
    /\ At(t, "schedule")
    /\ IF paused \/ ~started THEN GoesOn(t, "return")
                             ELSE CancelThen(t, gapTask, "choose")
    /\ UNCHANGED <<memberVars, turnVars, handles, config>>

Announces(t, m) ==
    \/ FALSE \in TurnGaps /\ pending' = None /\ GoesOnFor(t, "grant", m)
    \/ TRUE \in TurnGaps /\ pending' = m /\ SuspendsFor(t, "announcing", m)

ChoosesQueued(t) ==
    /\ At(t, "choose") /\ FirstOnline > 0
    /\ gapTask' = None
    /\ speakQueue' = SubSeq(speakQueue, FirstOnline + 1, Len(speakQueue))
    /\ Announces(t, speakQueue[FirstOnline])
    /\ UNCHANGED <<memberVars, speaker, roundRobin, timeoutTask, config>>

ChoosesInLine(t) ==
    /\ At(t, "choose") /\ FirstOnline = 0 /\ RoundRobin /\ online # {}
    /\ gapTask' = None
    /\ speakQueue' = <<>>
    /\ roundRobin' = NextInLine(None)[2]
    /\ Announces(t, NextInLine(None)[1])
    /\ UNCHANGED <<memberVars, speaker, timeoutTask, config>>

ChoosesNobody(t) ==
    /\ At(t, "choose") /\ FirstOnline = 0 /\ ~(RoundRobin /\ online # {})
    /\ gapTask' = None /\ pending' = None /\ speakQueue' = <<>>
    /\ GoesOn(t, "return")
    /\ UNCHANGED <<memberVars, speaker, roundRobin, timeoutTask, config>>

SleepsTheGap(t) ==
    /\ At(t, "announcing")
    /\ Spare(GapTasks) # {}
    /\ gapTask' = CHOOSE x \in Spare(GapTasks) : TRUE
    /\ Spawns(t, gapTask', target[t])
    /\ UNCHANGED <<memberVars, turnVars, timeoutTask, config>>

\* _after_gap
GapEnds(t) ==
    /\ t \in GapTasks /\ At(t, "sleep") /\ MayBegin
    /\ GoesOn(t, IF pending = target[t] /\ speaker = None THEN "grant" ELSE "return")
    /\ UNCHANGED <<memberVars, turnVars, handles, config>>

-----------------------------------------------------------------------------
(* A turn                                                                  *)

\* grant_turn
Grants(t) ==
    /\ At(t, "grant")
    /\ IF paused \/ ~started \/ target[t] \notin online
       THEN GoesOn(t, "return")
       ELSE CancelThen(t, gapTask, "clock")
    /\ UNCHANGED <<memberVars, turnVars, handles, config>>

StopsClock(t) ==
    /\ At(t, "clock")
    /\ gapTask' = None /\ pending' = None
    /\ CancelThen(t, timeoutTask, "give")
    /\ UNCHANGED <<memberVars, speaker, speakQueue, roundRobin, timeoutTask, config>>

GivesTurn(t) ==
    /\ At(t, "give")
    /\ timeoutTask' = None
    /\ speaker' = target[t]
    /\ Suspends(t, "granting")
    /\ UNCHANGED <<memberVars, speakQueue, roundRobin, pending, gapTask, config>>

StartsClock(t) ==
    /\ At(t, "granting")
    /\ Spare(TurnTasks) # {}
    /\ timeoutTask' = CHOOSE x \in Spare(TurnTasks) : TRUE
    /\ Spawns(t, timeoutTask', target[t])
    /\ UNCHANGED <<memberVars, turnVars, gapTask, config>>

\* _on_timeout
TurnTimesOut(t) ==
    /\ t \in TurnTasks /\ At(t, "sleep") /\ MayBegin
    /\ IF speaker = target[t] THEN Suspends(t, "revoking") ELSE GoesOn(t, "return")
    /\ UNCHANGED <<memberVars, turnVars, handles, config>>

\* Mutant: the next turn is scheduled with the speaker still in place.
RevokesInName(t) ==
    /\ At(t, "revoking")
    /\ GoesOn(t, "schedule")
    /\ UNCHANGED <<memberVars, turnVars, handles, config>>

Revokes(t) ==
    /\ At(t, "revoking")
    /\ speaker' = None
    /\ GoesOn(t, "schedule")
    /\ UNCHANGED <<memberVars, speakQueue, roundRobin, pending, handles, config>>

\* handle_turn_done, handle_pass: a connection whose member was taken over by
\* another still speaks for it.
TurnDone(c) ==
    /\ Idle(c) /\ ~removed
    /\ agentOf[c] # None /\ speaker = agentOf[c]
    /\ CancelThen(c, timeoutTask, "over")
    /\ UNCHANGED <<memberVars, turnVars, handles, config>>

TurnIsOver(t) ==
    /\ At(t, "over")
    /\ timeoutTask' = None /\ speaker' = None
    /\ GoesOn(t, "schedule")
    /\ UNCHANGED <<memberVars, speakQueue, roundRobin, pending, gapTask, config>>

Says(c) ==
    /\ Idle(c) /\ ~removed
    /\ agentOf[c] # None /\ speaker = agentOf[c]
    /\ Len(speakQueue) < MaxQueue
    /\ SuspendsFor(c, "saying", agentOf[c])
    /\ UNCHANGED <<memberVars, turnVars, handles, config>>

\* _enqueue_from_text, with one mention or none
MentionsNext(c) ==
    /\ At(c, "saying")
    /\ \E m \in online \ {target[c]} : speakQueue' = Append(speakQueue, m)
    /\ GoesOn(c, "return")
    /\ UNCHANGED <<memberVars, speaker, roundRobin, pending, handles, config>>

NamesNobody(c) ==
    /\ At(c, "saying")
    /\ IF RoundRobin /\ online \ {target[c]} # {}
       THEN LET next == NextInLine(target[c]) IN
            speakQueue' = Append(speakQueue, next[1]) /\ roundRobin' = next[2]
       ELSE UNCHANGED <<speakQueue, roundRobin>>
    /\ GoesOn(c, "return")
    /\ UNCHANGED <<memberVars, speaker, pending, handles, config>>

-----------------------------------------------------------------------------
(* Members and the host                                                    *)

\* handle_join changes the room; then join_ok is sent.
Joins(c) ==
    /\ Idle(c) /\ ~removed
    /\ (\E n \in Names : Join(c, n)) \/ (\E m \in Members : Rejoin(c, m))
    /\ SuspendsFor(c, "replying", index'[c])
    /\ UNCHANGED <<turnVars, handles, config>>

\* Only now does the loop know the room and the member it speaks for.
ReplyArrives(c) ==
    /\ At(c, "replying")
    /\ agentOf' = [agentOf EXCEPT ![c] = target[c]]
    /\ GoesOn(c, "return")
    /\ UNCHANGED <<serial, online, name, connOf, index, turnVars, handles, config>>

\* The reply cannot be sent.  A loop that had joined before leaves the room;
\* one that had not knows no room to leave, and is gone for good.
ReplyFails(c) ==
    /\ At(c, "replying")
    /\ \/ agentOf[c] # None /\ GoesOn(c, "failed")
       \/ agentOf[c] = None /\ SuspendsFor(c, "lost", None)
    /\ UNCHANGED <<memberVars, turnVars, handles, config>>

Disconnects(c) ==
    /\ ~removed
    /\ Idle(c) \/ (At(c, "failed") /\ MustLeave(c))
    /\ Leave(c)
    /\ IF speaker \in LeavesWith(c) THEN CancelThen(c, timeoutTask, "over")
                                    ELSE GoesOn(c, "return")
    /\ UNCHANGED <<turnVars, handles, config>>

\* start_discussion
Starts ==
    /\ Idle(Host) /\ ~removed
    /\ ~started /\ online # {}
    /\ started' = TRUE
    /\ roundRobin' = NextInLine(None)[2]
    /\ SuspendsFor(Host, "starting", NextInLine(None)[1])
    /\ UNCHANGED <<memberVars, speaker, speakQueue, pending, handles, paused, removed>>

FirstTurn ==
    /\ At(Host, "starting")
    /\ GoesOn(Host, "grant")
    /\ UNCHANGED <<memberVars, turnVars, handles, config>>

SetsPaused ==
    /\ running = None /\ ~removed
    /\ paused' = ~paused
    /\ UNCHANGED <<memberVars, turnVars, handles, started, removed, threads>>

\* delete_room: shutdown, then the registry forgets the room
Deletes(d) ==
    /\ Idle(d) /\ ~removed
    /\ CancelThen(d, gapTask, "downGap")
    /\ UNCHANGED <<memberVars, turnVars, handles, config>>

StopsTurn(d) ==
    /\ At(d, "downGap")
    /\ gapTask' = None /\ pending' = None
    /\ CancelThen(d, timeoutTask, "downTurn")
    /\ UNCHANGED <<memberVars, speaker, speakQueue, roundRobin, timeoutTask, config>>

ClearsRoom(d) ==
    /\ At(d, "downTurn")
    /\ timeoutTask' = None /\ speaker' = None /\ speakQueue' = <<>> /\ pending' = None
    /\ Suspends(d, "closing")
    /\ UNCHANGED <<memberVars, roundRobin, gapTask, config>>

Forgets(d) ==
    /\ At(d, "closing")
    /\ removed' = TRUE
    /\ GoesOn(d, "return")
    /\ UNCHANGED <<memberVars, turnVars, handles, started, paused>>

-----------------------------------------------------------------------------

AtRest == [t \in Coroutines |-> IF t \in Tasks THEN "free" ELSE "idle"]
Nobody(S) == [x \in S |-> None]

TurnsInit ==
    /\ speaker = None /\ speakQueue = <<>> /\ roundRobin = 0 /\ pending = None
    /\ gapTask = None /\ timeoutTask = None
    /\ started = FALSE /\ paused = FALSE /\ removed = FALSE
    /\ running = None
    /\ pc = AtRest /\ target = Nobody(Coroutines) /\ awaits = Nobody(Coroutines)
    /\ cancelled = {}

\* The server restarts and loads the config of the room from disk: members and
\* turns are lost.  Before the start that is a new room.
Restarts ==
    /\ started /\ ~removed
    /\ serial' = 0 /\ online' = {}
    /\ name' = Nobody(Members) /\ connOf' = Nobody(Members)
    /\ index' = Nobody(Conns) /\ agentOf' = Nobody(Conns)
    /\ speaker' = None /\ speakQueue' = <<>> /\ roundRobin' = 0 /\ pending' = None
    /\ gapTask' = None /\ timeoutTask' = None
    /\ running' = None
    /\ pc' = AtRest /\ target' = Nobody(Coroutines) /\ awaits' = Nobody(Coroutines)
    /\ cancelled' = {}
    /\ UNCHANGED config

RoomInit == MembersInit /\ TurnsInit

\* What a coroutine does once it was started.
Step(t) ==
    \/ HandlerReturns(t) \/ TaskEnds(t) \/ Absorbs(t)
    \/ Schedules(t) \/ ChoosesQueued(t) \/ ChoosesInLine(t) \/ ChoosesNobody(t)
    \/ SleepsTheGap(t) \/ GapEnds(t)
    \/ Grants(t) \/ StopsClock(t) \/ GivesTurn(t) \/ StartsClock(t)
    \/ TurnTimesOut(t) \/ Revokes(t) \/ TurnIsOver(t)
    \/ MentionsNext(t) \/ NamesNobody(t)

HostStep == FirstTurn \/ \E d \in Deleters : StopsTurn(d) \/ ClearsRoom(d) \/ Forgets(d)

RoomNext ==
    \/ \E t \in Coroutines : Step(t)
    \/ HostStep
    \/ \E c \in Conns : TurnDone(c) \/ Says(c) \/ Disconnects(c)
    \/ \E c \in Conns : Joins(c) \/ ReplyArrives(c) \/ ReplyFails(c)
    \/ Starts \/ SetsPaused
    \/ \E d \in Deleters : Deletes(d)
    \/ Restarts

RoomSpec == RoomInit /\ [][RoomNext]_roomVars

-----------------------------------------------------------------------------
(* Properties                                                              *)

RoomTypeOK ==
    /\ MembersTypeOK
    /\ speaker \in Members \cup {None} /\ pending \in Members \cup {None}
    /\ speakQueue \in Seq(Members) /\ roundRobin \in 0 .. MaxMembers - 1
    /\ gapTask \in GapTasks \cup {None} /\ timeoutTask \in TurnTasks \cup {None}
    /\ {started, paused, removed} \subseteq BOOLEAN
    /\ running \in Coroutines \cup {None}
    /\ target \in [Coroutines -> Members \cup {None}]
    /\ awaits \in [Coroutines -> Tasks \cup {None}]
    /\ cancelled \subseteq Tasks

\* A connection in the index is the one its member answers on, so closing it
\* takes exactly that member offline, never one that another connection has
\* taken over.  Its loop speaks for that member: from the join until the reply
\* was sent it is about to, and when the reply fails it leaves, or is lost and
\* the index keeps a connection that nobody closes.
IndexNamesOwner ==
    ~removed => \A c \in Conns : index[c] # None =>
        /\ connOf[index[c]] = c /\ index[c] \in online
        /\ pc[c] = "replying" => target[c] = index[c]
        /\ pc[c] \notin {"replying", "lost"} => agentOf[c] = index[c] \/ MustLeave(c)

\* Whoever has the turn is watched: a task sleeps that will revoke it, or some
\* coroutine is about to start that task, to end the turn or to give it on.
TurnIsTimed ==
    speaker # None =>
        \/ \E t \in TurnTasks : pc[t] \in {"sleep", "revoking"} /\ target[t] = speaker /\ t \notin cancelled
        \/ \E t \in Coroutines : pc[t] = "granting" /\ target[t] = speaker /\ t \notin cancelled
        \/ \E t \in Coroutines : pc[t] \in {"give", "over", "downTurn"}

\* Nobody waits for ever for a task it has cancelled: that task is about to get
\* its CancelledError or has swallowed it on its way to its end, and no two
\* coroutines wait for each other.
AwaitedTasksEnd ==
    \A t \in Coroutines : \A h \in {awaits[t]} \ {None, t} :
        /\ h \in cancelled \/ pc[h] # "sleep"
        /\ awaits[h] # t

Quiet ==
    /\ running = None /\ cancelled = {}
    /\ \A t \in Coroutines : pc[t] \in {"idle", "free", "sleep"}

\* A room listed as "active" has a speaker, or one whose gap is being slept,
\* whenever somebody is online and no handler is under way, nor one lost.
ActiveRoomHasTurn ==
    started /\ ~paused /\ ~removed /\ online # {} /\ RoundRobin /\ Quiet =>
        speaker # None \/ (gapTask # None /\ pending = target[gapTask])
=============================================================================
