---------------------------- MODULE DetectionRules ----------------------------
(***************************************************************************)
(* The registered detections (player/detection) and the bookkeeping of     *)
(* their results (player/detection.go), as operators on a packet, what the *)
(* detection remembers and the state of the player it looks at.            *)
(*                                                                         *)
(* A packet is a record: its kind k, what it does (one label stands for    *)
(* the flags, vectors and slots a detection reads), and for an input its   *)
(* tick, the client's position, the edge of the jump key, the input mode   *)
(* and whether the client just took a knockback.  The game's version is    *)
(* above 1.21.20 and flags are not sent as legacy events.  The correction  *)
(* cooldown, which exempts BadPacketL and the reach checks for longer, is  *)
(* that of AckPipeline and left out here.                                  *)
(***************************************************************************)
EXTENDS Integers, Sequences, FiniteSets

CONSTANTS
    Settle,         \* ticks after a teleport in which nothing is expected of a client (20)
    SwingTicks,     \* ticks a swing covers the attacks after it (10)
    Window,         \* ticks in a window of TimerA (20)
    Tolerance,      \* inputs TimerA lets pass beyond the expected ones (5)
    Ring,           \* ticks in which clicks are counted (20)
    LeftCPSLimit, RightCPSLimit, LeftCPSLimitMobile, RightCPSLimitMobile,
                    \* clicks of a button the configuration allows in them
    Configured,     \* the MaxVl of each detection the configuration names, in parts
    AllowNonMobileTouch

ASSUME RulesAssumption ==
    /\ Settle \in Nat /\ SwingTicks \in Nat /\ Window \in Nat \ {0} /\ Tolerance \in Nat
    /\ Ring \in Nat \ {0} /\ AllowNonMobileTouch \in BOOLEAN
    /\ {LeftCPSLimit, RightCPSLimit, LeftCPSLimitMobile, RightCPSLimitMobile} \subseteq Nat
    /\ \A d \in DOMAIN Configured : Configured[d] \in Int

\* One unit of a buffer, and one violation, in the parts they are counted in.
Whole == 10000
Violation == 1200

-----------------------------------------------------------------------------
(* DetectionMetadata, PassDetection, FailDetection *)

\* FailBuffer, MaxBuffer and TrustDuration of the constructors.
Limits(fail, most, trust) == [fail |-> fail, most |-> most, trust |-> trust]
Once == Limits(Whole, Whole, 0)
Patient == Limits(2 * Whole, 3 * Whole, 0)

Metadata ==
    [AutoclickerA |-> Limits(4 * Whole, 4 * Whole, -1), AimA |-> Limits(5 * Whole, 5 * Whole, 0),
     BadPacketA |-> Once, BadPacketB |-> Once, BadPacketC |-> Once, BadPacketD |-> Once,
     BadPacketE |-> Once, BadPacketF |-> Once, BadPacketG |-> Once, BadPacketH |-> Once,
     BadPacketI |-> Once, BadPacketJ |-> Patient, BadPacketK |-> Once, BadPacketL |-> Patient,
     BadPacketM |-> Limits(Whole, 2 * Whole, 0), BadPacketN |-> Patient, BadPacketO |-> Once,
     BadPacketP |-> Once, BadPacketQ |-> Patient,
     EditionFakerA |-> Once, EditionFakerB |-> Once, EditionFakerC |-> Once,
     InvMoveA |-> Once, NukerA |-> Once, KillauraA |-> Once,
     ReachA |-> Limits(10100, 15000, 1200), ReachB |-> Limits(10100, 30000, 400),
     HitboxA |-> Limits(6 * Whole, 6 * Whole, 0), PhaseA |-> Once, ScaffoldA |-> Once, SpeedA |-> Once,
     TimerA |-> Patient]
Detectors == DOMAIN Metadata

\* The detections of the default configuration, those that are registered.
DefaultDetections ==
    [AutoclickerA |-> 25 * Violation, AimA |-> 5 * Violation, BadPacketA |-> Violation, BadPacketB |-> Violation,
     BadPacketC |-> Violation, BadPacketD |-> Violation, BadPacketE |-> Violation, BadPacketF |-> Violation,
     EditionFakerA |-> Violation, EditionFakerB |-> Violation, EditionFakerC |-> Violation,
     HitboxA |-> 20 * Violation, InvMoveA |-> Violation, KillauraA |-> 5 * Violation, NukerA |-> Violation,
     ReachA |-> 10 * Violation, ReachB |-> 30 * Violation, ScaffoldA |-> Violation]

\* The MaxViolations that RegisterDetection gives a detection: the configured MaxVl, or that of
\* DefaultDtcOpts.
MaxViolations(d) == IF d \in DOMAIN Configured THEN Configured[d] ELSE 10 * Violation

AtLeast0(n) == IF n < 0 THEN 0 ELSE n
AtMost(n, most) == IF n > most THEN most ELSE n

\* Defect: a pass takes a buffer below zero.
PassDetection_Below(d, r, sub) == [r EXCEPT !.buffer = @ - sub]

PassDetection(d, r, sub) == [r EXCEPT !.buffer = AtLeast0(@ - sub)]

\* What a flag adds: a violation, or the part of one that is left of the trust duration.
Weight(d, r, serverTick) ==
    IF Metadata[d].trust > 0
    THEN AtLeast0(Metadata[d].trust - (serverTick - r.lastFlagged)) * (Violation \div Metadata[d].trust)
    ELSE Violation

\* Defect: a flag the handler cancels keeps its violation.
Flag_Kept(d, r, serverTick, cancelled) ==
    [r EXCEPT !.flagged = TRUE, !.violations = @ + Weight(d, r, serverTick),
              !.kept = IF cancelled THEN @ ELSE @ + 1]

\* HandleFlag may cancel: then the violations are what they were.  The tick of the last flag
\* is only read with a trust duration.
Flag(d, r, serverTick, cancelled) ==
    IF cancelled THEN [r EXCEPT !.flagged = TRUE]
    ELSE [r EXCEPT !.flagged = TRUE, !.kept = @ + 1, !.violations = @ + Weight(d, r, serverTick),
                   !.lastFlagged = IF Metadata[d].trust > 0 THEN serverTick ELSE @]

Filled(d, r) == [r EXCEPT !.buffer = AtMost(@ + Whole, Metadata[d].most)]
FailFilled(d, r, serverTick, cancelled) ==
    IF r.buffer < Metadata[d].fail THEN r ELSE Flag(d, r, serverTick, cancelled)
FailDetection(d, r, serverTick, cancelled) == FailFilled(d, Filled(d, r), serverTick, cancelled)

\* The verdict of a detection: how often it failed, what it passed, what it remembers.
Silent(m) == [fails |-> 0, pass |-> 0, m |-> m]
Passed(sub, m) == [fails |-> 0, pass |-> sub, m |-> m]
Failed(m) == [fails |-> 1, pass |-> 0, m |-> m]
FailsIf(c, m) == IF c THEN Failed(m) ELSE Silent(m)

FailTimes(d, r, n, serverTick, cancelled) ==
    IF n = 1 THEN FailDetection(d, r, serverTick, cancelled)
    ELSE FailDetection(d, FailDetection(d, r, serverTick, cancelled), serverTick, cancelled)
Judge(d, r, v, serverTick, cancelled) ==
    [(IF v.fails = 0 THEN PassDetection(d, r, v.pass) ELSE FailTimes(d, r, v.fails, serverTick, cancelled))
        EXCEPT !.m = v.m]

-----------------------------------------------------------------------------
(* ClicksComponent *)

Buttons == {"left", "right"}
NoClicks == [b \in Buttons |-> [ring |-> [i \in 1..Ring |-> 0], cps |-> 0]]

\* HandleAttack, HandleSwing, HandleRight: the button a packet clicks.  An attack of a player in
\* creative mode does not count, and a swing that missed is a flag of the input.
Clicks(pk, creative, b) ==
    CASE b = "left" -> \/ pk.k = "attack" /\ ~creative
                       \/ pk.k = "sound"
                       \/ pk.k = "input" /\ pk.does = "missed"
      [] b = "right" -> pk.k = "use"

\* Defect: a click of either button is counted for both.
Clicked_Merged(c, pk, creative) ==
    [b \in Buttons |->
        IF \E k \in Buttons : Clicks(pk, creative, k)
        THEN [ring |-> [c[b].ring EXCEPT ![Ring] = @ + 1], cps |-> c[b].cps + 1] ELSE c[b]]

\* clickLeft, clickRight: the newest tick of the button has one click more.
Clicked(c, pk, creative) ==
    [b \in Buttons |->
        IF Clicks(pk, creative, b)
        THEN [ring |-> [c[b].ring EXCEPT ![Ring] = @ + 1], cps |-> c[b].cps + 1] ELSE c[b]]

\* Defect: the ticks that leave the queue stay in the count.
ClicksTick_Forgetful(c) == [b \in Buttons |-> [ring |-> Append(Tail(c[b].ring), 0), cps |-> c[b].cps]]

\* Tick: the oldest tick of each button leaves the queue and the count.
ClicksTick(c) == [b \in Buttons |-> [ring |-> Append(Tail(c[b].ring), 0), cps |-> c[b].cps - c[b].ring[1]]]

\* hookLeft, hookRight: the hook of a button runs with the click counted, against the limit of
\* the player's input mode.
CPSLimit(b, mode) ==
    CASE b = "left" -> IF mode = 2 THEN LeftCPSLimitMobile ELSE LeftCPSLimit
      [] b = "right" -> IF mode = 2 THEN RightCPSLimitMobile ELSE RightCPSLimit
AutoclickerA(pk, c, creative, mode) ==
    FailsIf(\E b \in Buttons : Clicks(pk, creative, b) /\ Clicked(c, pk, creative)[b].cps > CPSLimit(b, mode), 0)

-----------------------------------------------------------------------------
(* the packets *)

IsInput(pk) == pk.k = "input"
\* The vehicle, the vertical collision with the velocity of a fall, the jump keys, the impulse.
Rides(pk) == pk.does = "ride"
Collides(pk) == pk.does \in {"land", "spoofFall", "ride"}
HoldsJump(pk) == pk.does \in {"jump", "jumpSpam"}
Moves(pk) == pk.does \in {"walk", "walkInGui"}
\* Below the terminal velocity; above what the ground allows.
FallsTooFast(pk) == pk.kb \/ pk.does = "fastFall"
RunsTooFast(pk) == pk.kb \/ pk.does \in {"speed", "ride"}

\* HasTeleport and HasKnockback of the movement component, when the detections look at them.
HasTeleport(mv) == mv.sinceTp <= mv.completion
HasKnockback(mv) == mv.sinceKb = 0
Teleporting(mv) == HasTeleport(mv) \/ mv.pendingTp > 0

-----------------------------------------------------------------------------
(* the detections of an input that only look at the packet or the one before *)

AimA(pk, m) ==
    IF ~IsInput(pk) \/ pk.mode # 1 \/ pk.does \notin {"walk", "aim"} THEN Silent(m)
    ELSE IF pk.does = "aim" THEN Failed(m) ELSE Passed(1000, m)

BadPacketA(pk, m) ==
    IF ~IsInput(pk) THEN Silent(m)
    ELSE IF m # 0 /\ pk.tick = 0 THEN Failed(pk.tick) ELSE Silent(pk.tick)

\* Both axes of the move vector are looked at.
BadPacketE(pk, m) ==
    IF IsInput(pk) /\ pk.does = "vector" THEN [Failed(m) EXCEPT !.fails = 2] ELSE Silent(m)

BadPacketI(pk, mv, m) ==
    IF ~IsInput(pk) THEN Silent(m) ELSE IF mv.pos = -1 THEN Failed(m) ELSE Passed(5000, m)

BadPacketJ(pk, m) ==
    IF ~IsInput(pk) THEN Silent(m)
    ELSE IF m # 0 /\ m - pk.tick > 60 THEN Failed(m) ELSE Passed(1000, pk.tick)

BadPacketK(pk, m) ==
    IF ~IsInput(pk) THEN Silent(m)
    ELSE IF pk.does # "spin" THEN Passed(5000, 0)
    ELSE IF m + 1 >= 3 THEN Failed(3) ELSE Passed(5000, m + 1)

BadPacketM(pk, m) ==
    IF ~IsInput(pk) THEN Silent(m)
    ELSE IF m = -1 THEN Silent(pk.mode)
    ELSE IF pk.mode # m THEN Failed(pk.mode) ELSE Passed(5000, m)

BadPacketO(pk, m) ==
    IF ~IsInput(pk) THEN Silent(m)
    ELSE IF pk.edge /\ m THEN Failed(m) ELSE Passed(5000, HoldsJump(pk))

BadPacketP(pk, m) ==
    IF ~IsInput(pk) THEN Silent(m) ELSE IF pk.does = "glideUp" THEN Failed(m) ELSE Passed(5000, m)

-----------------------------------------------------------------------------
(* the detections that look at the movement, after the input was simulated *)

BadPacketL(pk, mv, m) ==
    IF ~IsInput(pk) THEN Silent(m)
    ELSE IF Rides(pk) THEN Passed(5000, m)
    ELSE IF ~Collides(pk) \/ mv.sinceTp <= Settle \/ mv.pendingTp > 0 \/ mv.yCollision THEN Passed(2000, m)
    ELSE Failed(m)

\* The position of a failed input does not become the one to compare with.
BadPacketN(pk, mv, m) ==
    IF ~IsInput(pk) \/ mv.pos = 0 THEN Silent(m)
    ELSE IF m = 0 \/ Teleporting(mv) \/ HasKnockback(mv) \/ mv.immobile \/ Rides(pk) THEN Silent(mv.pos)
    ELSE IF mv.pos # m THEN Failed(m) ELSE Passed(5000, mv.pos)

BadPacketQ(pk, mv, m) ==
    IF ~IsInput(pk) THEN Silent(m)
    ELSE IF Teleporting(mv) \/ mv.sinceKb <= 1 \/ mv.immobile THEN Passed(2000, m)
    ELSE IF FallsTooFast(pk) THEN Failed(m) ELSE Passed(2000, m)

\* An exempt frame neither counts nor ends a row of penetrations.
PhaseA(pk, mv, m) ==
    IF ~IsInput(pk) THEN Silent(m)
    ELSE IF pk.tick # mv.simulationFrame \/ mv.immobile \/ Teleporting(mv) THEN Passed(5000, m)
    ELSE IF ~mv.penetrated THEN Passed(5000, 0)
    ELSE IF m + 1 >= 3 THEN Failed(3) ELSE Passed(5000, m + 1)

\* Defect: the knockback itself is looked for, which the simulation has consumed.
SpeedA_Consumed(pk, mv, m) ==
    IF ~IsInput(pk) THEN Silent(m)
    ELSE IF \/ pk.tick # mv.simulationFrame \/ mv.immobile \/ Teleporting(mv)
            \/ mv.sinceTp <= 1 \/ HasKnockback(mv) \/ mv.penetrated \/ Rides(pk)
    THEN Passed(5000, m)
    ELSE IF RunsTooFast(pk) THEN Failed(m) ELSE Passed(5000, m)

SpeedA(pk, mv, m) ==
    IF ~IsInput(pk) THEN Silent(m)
    ELSE IF \/ pk.tick # mv.simulationFrame \/ mv.immobile \/ Teleporting(mv)
            \/ mv.sinceTp <= 1 \/ mv.sinceKb <= 1 \/ mv.penetrated \/ Rides(pk)
    THEN Passed(5000, m)
    ELSE IF RunsTooFast(pk) THEN Failed(m) ELSE Passed(5000, m)

\* A window ends by the server's ticks or by the clock; n counts its inputs.
TimerWindow(m, n, ticks, elapsed, now, serverTick) ==
    IF ticks < Window /\ elapsed < Window THEN Silent([m EXCEPT !.inputs = n])
    ELSE LET expected == IF elapsed < Window THEN Window ELSE elapsed + 1
             fresh == [inputs |-> 0, tick |-> serverTick, time |-> now]
         IN  IF n > expected + Tolerance THEN Failed(fresh) ELSE Passed(2000, fresh)

TimerA(pk, now, serverTick, m) ==
    IF IsInput(pk)
    THEN TimerWindow(m, m.inputs + 1, serverTick - m.tick, now - m.time, now, serverTick) ELSE Silent(m)

-----------------------------------------------------------------------------
(* the detections of attacks, clicks and requests *)

BadPacketB(pk, m) == FailsIf(pk.k = "attack" /\ pk.does = "self", m)

\* A block broken the creative way, by a transaction, an input or a player action.
BadPacketC(pk, creative, m) ==
    FailsIf(\/ pk.k \in {"input", "use"} /\ pk.does = "break" /\ ~creative
            \/ pk.k = "action", m)

BadPacketD(pk, creative, pending, m) ==
    FailsIf(pk.k \in {"input", "request"} /\ pk.does = "craft" /\ ~pending /\ ~creative, m)

BadPacketF(pk, m) == FailsIf(pk.k \in {"use", "attack", "equip"} /\ pk.does = "slot", m)
BadPacketG(pk, m) == FailsIf(pk.k \in {"use", "input"} /\ pk.does = "face", m)

\* An answer that matched no batch: the same one is not counted twice.
BadPacketH(pk, pendingAcks, m) ==
    IF pk.k # "echo" THEN Silent(m)
    ELSE IF ~pendingAcks THEN Passed(5000, [last |-> 0, count |-> 0])
    ELSE IF pk.id = m.last THEN Silent(m)
    ELSE FailsIf(m.count + 1 >= 3, [last |-> pk.id, count |-> AtMost(m.count + 1, 3)])

\* Mouse-over of a player that was not teleported for a while.
HitboxA(pk, r) ==
    IF pk.k # "interact" THEN Silent(r.m)
    ELSE IF pk.does = "hitbox" THEN Failed(r.m) ELSE Passed(r.buffer, r.m)

\* requestTouchesInventoryGUI: whether a request needs an open screen.
NeedsGUI(pk) == pk.does \in {"gui", "walkInGui", "craft"}

\* Defect: an input forgets the request before it looks at it.
InvMoveA_Cleared(pk, mv, m) == Silent(pk.k = "request" /\ NeedsGUI(pk) /\ mv.impulse)

\* The request is remembered, the next input decides.
InvMoveA(pk, mv, m) ==
    IF pk.k = "request" THEN Silent(NeedsGUI(pk) /\ mv.impulse)
    ELSE IF IsInput(pk) THEN FailsIf(m /\ mv.impulse, FALSE) ELSE Silent(m)

\* The attack is remembered, the next input looks for the swing again.
KillauraA(pk, mv, m) ==
    LET late == mv.simulationFrame - mv.swing > SwingTicks
    IN  IF pk.k = "attack" THEN Silent(m \/ late)
        ELSE IF IsInput(pk) THEN FailsIf(m /\ late, FALSE) ELSE Silent(m)

NukerA(pk, creative, m) ==
    FailsIf((IsInput(pk) /\ pk.does = "nuke") \/ (pk.k = "use" /\ pk.does = "break" /\ ~creative), m)

\* The combat hook: the nearest of the distances of an attack is out of reach.
ReachRun(pk, mv, sub, m) ==
    IF pk.does \notin {"attack", "reach"} \/ mv.sinceTp <= Settle THEN Silent(m)
    ELSE IF pk.does = "reach" THEN Failed(m) ELSE Passed(sub, m)
ReachA(pk, mv, m) == IF ~IsInput(pk) \/ pk.mode = 2 THEN Silent(m) ELSE ReachRun(pk, mv, 15, m)
ReachB(pk, mv, m) == IF ~IsInput(pk) THEN Silent(m) ELSE ReachRun(pk, mv, 10, m)

ScaffoldA(pk, m) ==
    IF pk.k # "use" THEN Silent(m) ELSE IF pk.does = "scaffold" THEN Failed(m) ELSE Passed(5000, m)

-----------------------------------------------------------------------------
(* the detections of the client's login *)

\* knownTitleIDs, previewEditionClients, defaultInputModes.
TitleOf == [android |-> "android", ios |-> "ios", win10 |-> "windows", win32 |-> "windows",
            orbis |-> "orbis", xbox |-> "xbox"]
PreviewClients == {"win10", "ios", "xbox"}
DefaultModeOf == [android |-> 2, ios |-> 2, win10 |-> 1, win32 |-> 1, orbis |-> 3, xbox |-> 3]
Mobile == {"android", "ios", "fireos"}

\* Titles that console players arrive with through another device, and old versions without one.
Excused(login) ==
    \/ login.title \in {"orbis", "xbox"}
    \/ login.title = "android" /\ login.os \in {"orbis", "xbox"}
    \/ login.title = "" /\ login.version = 80

\* Whether the title does not go with the device, and whether the device has none.
TitleFaked(login) ==
    /\ ~(login.title = "" /\ login.version >= 90)
    /\ IF login.title = "preview" THEN login.os \notin PreviewClients
       ELSE \/ login.os = "win32" /\ login.version < 120
            \/ /\ login.os \in DOMAIN TitleOf
               /\ TitleOf[login.os] # login.title
               /\ ~Excused(login)
TitleUnknown(login) ==
    /\ login.title # "preview" /\ ~(login.title = "" /\ login.version >= 90)
    /\ login.os \notin DOMAIN TitleOf

\* Only the first input is looked at: m is whether it is still to come.
EditionFakerA(pk, login, m) == IF IsInput(pk) THEN FailsIf(m /\ TitleFaked(login), FALSE) ELSE Silent(m)
EditionFakerB(pk, login, m) ==
    IF ~IsInput(pk) THEN Silent(m)
    ELSE FailsIf(m /\ login.os \in DOMAIN DefaultModeOf /\ DefaultModeOf[login.os] # login.mode, FALSE)

\* There is no mode below the mouse's and none above the gamepad's.
ModeInvalid(pk, login) == pk.mode < 1 \/ pk.mode > (IF login.version < 120 THEN 4 ELSE 3)
EditionFakerC(pk, login, m) ==
    IF ~IsInput(pk) THEN Silent(m) ELSE IF ModeInvalid(pk, login) THEN Failed(m) ELSE Silent(pk.mode)

\* The two detections that disconnect a client without a flag.
Expelled(pk, login, first) ==
    /\ IsInput(pk)
    /\ \/ first /\ TitleUnknown(login)
       \/ ~AllowNonMobileTouch /\ ~ModeInvalid(pk, login) /\ pk.mode = 2 /\ login.os \notin Mobile
=============================================================================
