------------------------------ MODULE Detections ------------------------------
(***************************************************************************)
(* A client, the path of its packets through the player (player/packet.go, *)
(* player/movement.go), the tick loop (player/player.go), the allowance    *)
(* for inputs (player/component/movement.go) and the detections that see   *)
(* every packet in the end (DetectionRules).                               *)
(*                                                                         *)
(* Time is counted in ticks of 50 milliseconds.  The client does one thing *)
(* in all of a behaviour, again and again or not: what an unmodified       *)
(* client does, or what a modified one does.  It sends an input for every  *)
(* tick and answers a batch of acknowledgements when it receives it, with  *)
(* the changes in it; both ways are in order.                              *)
(***************************************************************************)
EXTENDS DetectionRules, Functions

CONSTANTS
    MaxTime,        \* bound: ticks of a behaviour
    MaxChanges,     \* bound: changes of the backend
    Scenarios       \* what a client does, what the backend changes, by how many ticks packets
                    \* may be late and the loop may stall, and whether the player is Ready

VARIABLES
    now,            \* the clock
    fired,          \* the ticker's channel holds a tick
    woken,          \* the loop took it and waits for procMu
    lastTick, serverTick, clientTick,
    allowed,        \* allowedInputs
    hasFirst,       \* hasFirstInput
    quota,          \* auxiliary: the first lag and the ticks since, less the inputs accepted
    batch,          \* the changes whose acknowledgements wait for the next flush
    pending,        \* batches the client did not answer, oldest first
    received,       \* how many of them the client has received
    changes,        \* how many changes the backend made
    up,             \* packets on their way to the proxy
    cl,             \* the client
    mv,             \* the movement component, and the player's SimulationFrame, last swing,
                    \* InputMode and Ready
    creative, pendingMode,
    clicks, det, closed,
    streak          \* auxiliary: inputs in a row that did something, unexcused

vars == <<now, fired, woken, lastTick, serverTick, clientTick, allowed, hasFirst, quota, batch, pending,
          received, changes, up, cl, mv, creative, pendingMode, clicks, det, closed, streak>>
tickVars == <<fired, woken, lastTick, serverTick>>
rateVars == <<clientTick, allowed, hasFirst, quota>>
ackVars == <<batch, pending, received, changes>>
playerVars == <<mv, creative, pendingMode, clicks, det, closed, streak>>

Legitimate == {"walk", "jump", "land", "ride", "gui", "attack", "attackFirst", "creative", "click", "tap"}
Modified == {"aim", "zeroTick", "self", "break", "action", "craft", "vector", "slot", "face", "ping", "nan",
             "spin", "spoofFall", "mode", "jumpSpam", "glideUp", "fastFall", "title", "defaultMode", "badMode",
             "touch", "unknown", "walkInGui", "nuke", "blind", "reach", "hitbox", "phase", "scaffold", "speed",
             "flood", "autoclick", "autouse"}
Changes == {"teleport", "smoothed", "knockback", "creative", "survival", "immobile", "latency", "chunk"}

ASSUME DetectionsAssumption ==
    /\ MaxTime \in Nat /\ MaxChanges \in Nat
    /\ Scenarios \subseteq [act : Legitimate \cup Modified, change : Changes, lag : Nat, ready : BOOLEAN]

Cap == 65535
NoQuota == -1   \* the limit has not begun
Bounded(n) == AtMost(n, Settle + 3)

-----------------------------------------------------------------------------
(* the client *)

Login(act) ==
    [os |-> CASE act = "unknown" -> "other" [] OTHER -> "win32",
     title |-> IF act = "title" THEN "android" ELSE "windows",
     version |-> 120, mode |-> IF act = "defaultMode" THEN 3 ELSE 1]

\* The mode of an input: a client that changes it does so in the frames it does something.
ModeOf(act, on) ==
    IF ~on THEN 1 ELSE CASE act = "mode" -> 3 [] act = "badMode" -> 5 [] act = "touch" -> 2 [] OTHER -> 1

\* What an input says of a client that acts, or does not.
Label(act, on) ==
    IF ~on THEN IF act = "gui" THEN "walk" ELSE "idle"
    ELSE CASE act = "tap" -> "spin" [] act = "creative" -> IF cl.creative THEN "break" ELSE "idle"
           [] act \in {"attackFirst", "blind"} -> "attack" [] act = "gui" -> "idle"
           [] act \in {"click", "autoclick"} -> "missed" [] OTHER -> act

Pk(k, does) ==
    [k |-> k, does |-> does, tick |-> 0, pos |-> 0, edge |-> FALSE, mode |-> 1, kb |-> FALSE, id |-> 0]
Input(act, on) ==
    [Pk("input", Label(act, on)) EXCEPT
        !.tick = IF on /\ act = "zeroTick" THEN 0 ELSE cl.frame,
        !.pos = IF on /\ act = "nan" THEN -1 ELSE cl.pos,
        !.edge = on /\ (act = "jumpSpam" \/ (act = "jump" /\ ~cl.on)),
        !.mode = ModeOf(act, on), !.kb = cl.kb]

\* The packets of a frame, the input last.
Sent(act, on) ==
    LET in == Input(act, on)
    IN  IF ~on THEN <<in>>
        ELSE CASE act = "gui" /\ cl.on -> <<Pk("request", "gui"), in>>
               [] act = "walkInGui" -> <<Pk("request", act), in>>
               [] act = "creative" /\ cl.creative -> <<Pk("request", "craft"), in>>
               [] act = "craft" -> <<Pk("request", act), in>>
               [] act \in {"attack", "reach"} -> <<Pk("swing", ""), Pk("attack", act), in>>
               [] act = "attackFirst" -> <<Pk("attack", act), Pk("swing", ""), in>>
               [] act = "blind" -> <<Pk("attack", act), in>>
               [] act = "self" -> <<Pk("swing", ""), Pk("attack", act), in>>
               [] act = "autoclick" -> <<Pk("swing", ""), Pk("sound", ""), Pk("attack", act), in>>
               [] act = "autouse" -> <<Pk("use", act), Pk("use", act), Pk("use", act), in>>
               [] act \in {"click", "slot", "scaffold"} -> <<Pk("use", act), in>>
               [] act = "action" -> <<Pk("action", act), in>>
               [] act = "hitbox" -> <<Pk("interact", act), in>>
               [] act = "ping" -> <<[Pk("echo", act) EXCEPT !.id = -cl.frame], in>>
               [] act = "flood" -> <<in, in, in>>
               [] OTHER -> <<in>>

\* What an unmodified client cannot do: land or tap too often in a row.
CanDo(act, on) == on => /\ act = "land" => ~cl.on
                        /\ act = "tap" => cl.row < 2

\* A tick of the client's clock: it sends the packets of a frame.
Frame(on) ==
    /\ ~closed /\ now < MaxTime
    /\ now - lastTick <= cl.lag /\ Cardinality({i \in DOMAIN up : IsInput(up[i])}) <= cl.lag
    /\ CanDo(cl.act, on)
    /\ now' = now + 1
    /\ fired' = TRUE
    /\ up' = up \o Sent(cl.act, on)
    /\ cl' = [cl EXCEPT !.frame = @ + 1, !.on = on, !.row = IF on THEN AtMost(@ + 1, 2) ELSE 0, !.kb = FALSE]
    /\ UNCHANGED <<woken, lastTick, serverTick, rateVars, ackVars, playerVars>>

\* The client receives a batch: the changes take effect, and it answers.
Received(c, us) ==
    [c EXCEPT !.pos = IF us \cap {"teleport", "smoothed"} # {} THEN @ + 1 ELSE @,
              !.kb = @ \/ "knockback" \in us,
              !.creative = IF "creative" \in us THEN TRUE ELSE IF "survival" \in us THEN FALSE ELSE @]
Receive ==
    /\ ~closed /\ received < Len(pending)
    /\ received' = received + 1
    /\ cl' = Received(cl, pending[received + 1].changes)
    /\ up' = Append(up, [Pk("echo", "") EXCEPT !.id = pending[received + 1].id])
    /\ UNCHANGED <<now, tickVars, rateVars, batch, pending, changes, playerVars>>

-----------------------------------------------------------------------------
(* the backend and the tick loop *)

\* HandleServerPacket: what the packet does at once, and the acknowledgement it adds.
HandleServerPacket(u) ==
    /\ ~closed /\ changes < MaxChanges /\ batch = {}
    /\ batch' = {u}
    /\ changes' = changes + 1
    /\ mv' = IF u \in {"teleport", "smoothed"} THEN [mv EXCEPT !.pendingTp = @ + 1] ELSE mv
    /\ pendingMode' = (pendingMode \/ u \in {"creative", "survival"})
    /\ UNCHANGED <<now, tickVars, rateVars, pending, received, up, cl, creative, clicks, det, closed, streak>>

\* StartTicking: the loop takes the tick and waits for procMu; the ticker drops what does not fit.
Wake ==
    /\ ~closed /\ fired /\ ~woken
    /\ woken' = TRUE /\ fired' = FALSE
    /\ UNCHANGED <<now, lastTick, serverTick, rateVars, ackVars, up, cl, playerVars>>

\* Defect: the allowance is the greater of the two, not the smaller.
Refilled_Greater(n, lag, e) == IF lag + e > n + e THEN lag + e ELSE n + e

\* Tick of the movement component: the lag or the balance, whichever is less, and at least one.
Refilled(n, lag, e) ==
    LET latency == AtLeast0(lag) + e
        balance == AtLeast0(n) + e
        least == IF latency < balance THEN latency ELSE balance
    IN  IF least < 1 THEN 1 ELSE least

\* Defect: a stall of the loop counts as one tick.
ElapsedTicks_One(delta) == 1

\* What a tick adds to the server's: a stall of a tick or more is made up for.
ElapsedTicks(delta) == IF delta >= 2 THEN delta ELSE 1

Limit(e) ==
    IF ~hasFirst THEN allowed' = Cap /\ quota' = NoQuota
    ELSE /\ allowed' = Refilled(allowed, serverTick + e - clientTick, e)
         /\ quota' = IF quota = NoQuota THEN AtLeast0(serverTick + e - clientTick) + e ELSE quota + e

\* Tick: the clocks, the allowance, and the flush of the acknowledgements.
ServerTick(e) ==
    /\ ~closed /\ woken
    /\ woken' = FALSE
    /\ lastTick' = now
    /\ serverTick' = serverTick + e
    /\ Limit(e)
    /\ pending' = IF batch = {} THEN pending
                  ELSE Append(pending, [id |-> changes, changes |-> batch, at |-> serverTick + e])
    /\ batch' = {}
    /\ UNCHANGED <<now, fired, clientTick, hasFirst, received, changes, up, cl, playerVars>>

-----------------------------------------------------------------------------
(* the packets of the client *)

\* Run of the acknowledgements of a batch.
Teleported(m, us) ==
    IF us \cap {"teleport", "smoothed"} = {} THEN m
    ELSE [m EXCEPT !.pendingTp = @ - 1, !.sinceTp = 0, !.completion = IF "smoothed" \in us THEN 2 ELSE 0]
Acked(m, us) ==
    [Teleported(m, us) EXCEPT !.sinceKb = IF "knockback" \in us THEN 0 ELSE @,
                              !.immobile = @ \/ "immobile" \in us, !.ready = @ \/ "chunk" \in us]
LatencyRun(at) == IF ~mv.ready \/ clientTick < at \/ clientTick >= serverTick THEN at ELSE clientTick

Expected(pk) == pk.k = "echo" /\ pending # <<>> /\ pk.id = Head(pending).id

\* NetworkStackLatency: an answer that is expected runs its batch, and no detection sees it.
Execute(pk) ==
    /\ Expected(pk)
    /\ \E b \in {Head(pending)} :
        /\ mv' = Acked(mv, b.changes)
        /\ creative' = IF "creative" \in b.changes THEN TRUE
                       ELSE IF "survival" \in b.changes THEN FALSE ELSE creative
        /\ pendingMode' = (pendingMode /\ b.changes \cap {"creative", "survival"} = {})
        /\ clientTick' = IF "latency" \in b.changes THEN LatencyRun(b.at) ELSE clientTick
    /\ pending' = Tail(pending) /\ received' = received - 1
    /\ UNCHANGED <<allowed, hasFirst, quota, batch, changes, clicks, det, closed, streak>>

\* The verdict of each detection on a packet.
Verdict(d, pk, m, v) ==
    CASE d = "AimA" -> AimA(pk, v) [] d = "BadPacketA" -> BadPacketA(pk, v)
      [] d = "BadPacketB" -> BadPacketB(pk, v) [] d = "BadPacketC" -> BadPacketC(pk, creative, v)
      [] d = "BadPacketD" -> BadPacketD(pk, creative, pendingMode, v)
      [] d = "BadPacketE" -> BadPacketE(pk, v) [] d = "BadPacketF" -> BadPacketF(pk, v)
      [] d = "BadPacketG" -> BadPacketG(pk, v) [] d = "BadPacketH" -> BadPacketH(pk, pending # <<>>, v)
      [] d = "BadPacketI" -> BadPacketI(pk, m, v) [] d = "BadPacketJ" -> BadPacketJ(pk, v)
      [] d = "BadPacketK" -> BadPacketK(pk, v) [] d = "BadPacketL" -> BadPacketL(pk, m, v)
      [] d = "BadPacketM" -> BadPacketM(pk, v) [] d = "BadPacketN" -> BadPacketN(pk, m, v)
      [] d = "BadPacketO" -> BadPacketO(pk, v) [] d = "BadPacketP" -> BadPacketP(pk, v)
      [] d = "BadPacketQ" -> BadPacketQ(pk, m, v) [] d = "HitboxA" -> HitboxA(pk, det[d])
      [] d = "EditionFakerA" -> EditionFakerA(pk, Login(cl.act), v)
      [] d = "EditionFakerB" -> EditionFakerB(pk, Login(cl.act), v)
      [] d = "EditionFakerC" -> EditionFakerC(pk, Login(cl.act), v)
      [] d = "InvMoveA" -> InvMoveA(pk, m, v) [] d = "NukerA" -> NukerA(pk, creative, v)
      [] d = "KillauraA" -> KillauraA(pk, m, v) [] d = "ReachA" -> ReachA(pk, m, v)
      [] d = "ReachB" -> ReachB(pk, m, v) [] d = "PhaseA" -> PhaseA(pk, m, v)
      [] d = "ScaffoldA" -> ScaffoldA(pk, v) [] d = "SpeedA" -> SpeedA(pk, m, v)
      [] d = "TimerA" -> TimerA(pk, now, serverTick, v)
      [] d = "AutoclickerA" -> AutoclickerA(pk, clicks, creative, m.mode)

\* Who is flagged without the handler's cancelling and has reached the limit is punished.
Punished(old, new) ==
    \E d \in Detectors : new[d].kept > old[d].kept /\ new[d].violations >= MaxViolations(d)

\* RunDetections, with the movement m: the handler may cancel flags and punishments.
RunDetections(pk, m, cancelled, spared) ==
    /\ det' = [d \in Detectors |-> Judge(d, det[d], Verdict(d, pk, m, det[d].m), serverTick, cancelled)]
    /\ closed' = \/ Expelled(pk, Login(cl.act), det["EditionFakerA"].m)
                 \/ Punished(det, det') /\ ~spared

\* Update: the frame is simulated, and what the server sent is a frame older.
Simulated(pk) ==
    [mv EXCEPT !.simulationFrame = pk.tick, !.mode = pk.mode, !.pos = pk.pos, !.impulse = Moves(pk),
               !.yCollision = pk.does = "land", !.penetrated = pk.does = "phase",
               !.sinceTp = Bounded(@ + 1), !.sinceKb = Bounded(@ + 1)]

\* What excuses what an input does: the server moves the player, or nothing was simulated.
Excusing(m) == Teleporting(m) \/ m.sinceTp <= Settle \/ m.sinceKb <= 1 \/ m.immobile \/ creative \/ pendingMode
Streak(pk, m, accepted) ==
    IF Excusing(m) \/ (pk.does \in {"idle", "walk"} /\ pk.mode = 1) THEN 0
    ELSE IF accepted THEN streak + 1 ELSE streak

\* PlayerAuthInput: within the allowance it is simulated; in any case a missed swing is
\* counted, the clicks are ticked and the detections run.
InputAcceptable == allowed > 0
PlayerAuthInput(pk, cancelled, spared) ==
    /\ IsInput(pk)
    /\ hasFirst' = TRUE
    /\ allowed' = IF InputAcceptable THEN allowed - 1 ELSE allowed
    /\ quota' = IF InputAcceptable /\ quota # NoQuota THEN quota - 1 ELSE quota
    /\ clientTick' = IF InputAcceptable THEN clientTick + 1 ELSE clientTick
    /\ \E m \in {IF InputAcceptable THEN Simulated(pk) ELSE mv} :
        /\ mv' = m
        /\ RunDetections(pk, m, cancelled, spared)
        /\ streak' = Streak(pk, m, InputAcceptable)
    /\ clicks' = ClicksTick(Clicked(clicks, pk, creative))
    /\ UNCHANGED <<ackVars, creative, pendingMode>>

\* Every other packet: clicks and swings are noted, and the detections run.
OtherPacket(pk, cancelled, spared) ==
    /\ ~IsInput(pk)
    /\ ~Expected(pk)
    /\ clicks' = Clicked(clicks, pk, creative)
    /\ mv' = IF pk.k = "swing" THEN [mv EXCEPT !.swing = mv.simulationFrame] ELSE mv
    /\ RunDetections(pk, mv, cancelled, spared)
    /\ UNCHANGED <<rateVars, ackVars, creative, pendingMode, streak>>

HandleClientPacket(cancelled, spared) ==
    /\ ~closed /\ up # <<>>
    /\ up' = Tail(up)
    /\ \E pk \in {Head(up)} :
        \/ Execute(pk)
        \/ PlayerAuthInput(pk, cancelled, spared)
        \/ OtherPacket(pk, cancelled, spared)
    /\ UNCHANGED <<now, tickVars, cl>>

-----------------------------------------------------------------------------

FirstMemory(d) ==
    CASE d = "BadPacketH" -> [last |-> 0, count |-> 0]
      [] d = "TimerA" -> [inputs |-> 0, tick |-> 0, time |-> 0]
      [] d = "BadPacketM" -> -1
      [] d \in {"BadPacketO", "InvMoveA", "KillauraA"} -> FALSE
      [] d \in {"EditionFakerA", "EditionFakerB"} -> TRUE
      [] OTHER -> 0

FirstFrame == 100

Init ==
    /\ now = 0 /\ fired = FALSE /\ woken = FALSE /\ lastTick = 0 /\ serverTick = 0 /\ clientTick = 0
    /\ allowed = Cap /\ hasFirst = FALSE /\ quota = NoQuota
    /\ batch = {} /\ pending = <<>> /\ received = 0 /\ changes = 0
    /\ up = <<>>
    /\ \E s \in Scenarios :
        /\ cl = [act |-> s.act, change |-> s.change, lag |-> s.lag, frame |-> FirstFrame, on |-> FALSE, row |-> 0,
                 kb |-> FALSE, pos |-> 1, creative |-> FALSE]
        /\ mv = [simulationFrame |-> 0, mode |-> 0, pos |-> 0, impulse |-> FALSE, yCollision |-> FALSE,
                 penetrated |-> FALSE, sinceTp |-> 1, completion |-> 0, pendingTp |-> 0, sinceKb |-> 1,
                 immobile |-> FALSE, swing |-> 0, ready |-> s.ready]
    /\ creative = FALSE /\ pendingMode = FALSE
    /\ clicks = NoClicks
    /\ det = [d \in Detectors |-> [buffer |-> 0, violations |-> 0, lastFlagged |-> 0, flagged |-> FALSE, kept |-> 0,
                                   m |-> FirstMemory(d)]]
    /\ closed = FALSE /\ streak = 0

Next ==
    \/ \E on \in BOOLEAN : Frame(on)
    \/ Receive
    \/ HandleServerPacket(cl.change)
    \/ Wake
    \/ ServerTick(ElapsedTicks(now - lastTick))
    \/ \E cancelled, spared \in BOOLEAN : HandleClientPacket(cancelled, spared)

Spec == Init /\ [][Next]_vars

-----------------------------------------------------------------------------
(* properties *)

\* The buffers, counters and clocks are in their ranges, and the clicks per second are
\* those of the ticks in the queue (ClicksComponent).
TypeOK ==
    /\ allowed \in 0..Cap /\ quota \in Int /\ clientTick \in Nat /\ serverTick \in Nat
    /\ mv.pendingTp \in 0..MaxChanges /\ received \in 0..Len(pending)
    /\ \A d \in Detectors : det[d].buffer \in 0..Metadata[d].most /\ det[d].kept \in Nat
    /\ \A b \in Buttons : clicks[b].cps = FoldFunction(LAMBDA n, k : n + k, 0, clicks[b].ring)

\* InputAcceptable, Tick: the allowance implements the budget, whatever the acknowledgements
\* of the latency do to the client's tick and however the loop stalls.
Budget == INSTANCE InputBudget WITH
    open <- quota = NoQuota, credit <- IF quota = NoQuota THEN 0 ELSE allowed,
    quota <- IF quota = NoQuota THEN 0 ELSE quota
BudgetKept == Budget!Spec

\* FailDetection: a player is removed only for as many flags of one detection as its configured
\* limit asks for, none of which the handler cancelled, or for a device that is not let in.
RemovedForCause ==
    closed /\ cl.act \notin {"unknown", "touch"} =>
        \E d \in Detectors : det[d].kept * Violation >= MaxViolations(d)

\* BadPacketN: a position the server sent the client to is not an injected one.
AuthorisedTeleportNotFlagged == cl.act \in Legitimate => ~det["BadPacketN"].flagged

\* InputAcceptable: who sends an input for every tick of time is over the limit only while
\* a tick of the loop is due, however late the packets are and however long it stalled.
InTimeAccepted ==
    cl.act # "flood" /\ up # <<>> /\ IsInput(Head(up)) /\ ~fired /\ ~woken => allowed > 0

\* Which detection is there for what a modified client does, and how many inputs in a row are
\* enough for it.
By(d, n) == [by |-> d, in |-> n]
Caught ==
    [vector |-> By("BadPacketE", 1), glideUp |-> By("BadPacketP", 1), nan |-> By("BadPacketI", 1),
     speed |-> By("SpeedA", 1), nuke |-> By("NukerA", 1), break |-> By("BadPacketC", 1),
     action |-> By("BadPacketC", 1), craft |-> By("BadPacketD", 1), face |-> By("BadPacketG", 1),
     slot |-> By("BadPacketF", 1), scaffold |-> By("ScaffoldA", 1), self |-> By("BadPacketB", 1),
     title |-> By("EditionFakerA", 1), defaultMode |-> By("EditionFakerB", 1), badMode |-> By("EditionFakerC", 1),
     jumpSpam |-> By("BadPacketO", 2), walkInGui |-> By("InvMoveA", 2), reach |-> By("ReachA", 2),
     fastFall |-> By("BadPacketQ", 2), spoofFall |-> By("BadPacketL", 2), autoclick |-> By("AutoclickerA", 2),
     autouse |-> By("AutoclickerA", 2), spin |-> By("BadPacketK", 3), phase |-> By("PhaseA", 3),
     blind |-> By("KillauraA", 4)]

\* The checks that wait for a second packet, for a row of inputs or for a buffer to fill do
\* flag a client that does not stop while the server leaves it alone.
PersistentFlagged ==
    cl.act \in DOMAIN Caught /\ streak >= Caught[cl.act].in => det[Caught[cl.act].by].flagged

\* A flag has a cause, and a cause a flag.  No detection but BadPacketN flags an unmodified
\* client: neither teleports, knockbacks and game modes on their way, nor inputs that were late
\* or over the limit, nor stalls of the loop make one look modified.  And who persists in what
\* a detection is there for is flagged by it.
FlaggedForCause ==
    /\ TypeOK
    /\ cl.act \in Legitimate => \A d \in Detectors \ {"BadPacketN"} : ~det[d].flagged
    /\ PersistentFlagged
=============================================================================
