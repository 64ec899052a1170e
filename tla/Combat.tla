------------------------------- MODULE Combat -------------------------------
(***************************************************************************)
(* From an attack of the client to the attack the server sees: the two     *)
(* AuthoritativeCombatComponents (player/component/combat.go), the packet  *)
(* handlers that feed them (player/packet.go, player/combat.go) and the    *)
(* entities they look their targets up in.                                 *)
(*                                                                         *)
(* In survival an attack is not forwarded: the server-state component      *)
(* keeps the first one and sends it with the next input, if it judges the  *)
(* hit valid.  A swing in the air is checked for an entity the client may  *)
(* have missed by misprediction, and then an attack is made up for it.     *)
(* The geometry of the judgement is a nondeterministic choice.             *)
(*                                                                         *)
(* Of the entity trackers only what EntityTracker shows of them is kept:   *)
(* which entities are tracked, the same in both, and whether an entity has *)
(* been ticked since it was added, which is when Rewind finds a position.  *)
(***************************************************************************)
EXTENDS Integers, Sequences

CONSTANTS
    RuntimeIDs,     \* runtime ids of entities, not 0
    MaxAttacks,     \* bound on the attacks of the client
    MaxInputs,      \* bound on swings, inputs, game mode and entity changes
    MaxTransfers    \* bound on the changes of the backend

ASSUME CombatAssumption ==
    /\ RuntimeIDs \subseteq Int /\ 0 \notin RuntimeIDs
    /\ MaxAttacks \in Nat /\ MaxInputs \in Nat /\ MaxTransfers \in Nat

VARIABLES
    tracked,        \* the entities of both trackers
    ticked,         \* those of them that have a past position
    opts,           \* CombatOpts that matter here
    survival,       \* GameMode is survival or adventure
    combat,         \* the component on the server-state tracker
    clientCombat,   \* the component on the client's view
    backend,        \* number of the backend connection
    attacks,        \* attacks of the client so far
    inputs,         \* swings, inputs, game mode and entity changes so far
    received        \* what the server has been sent: one record per attack

trackerVars == <<tracked, ticked>>
vars == <<tracked, ticked, opts, survival, combat, clientCombat, backend, attacks,
          inputs, received>>

NoAttack == [kind |-> "none", id |-> 0, rid |-> 0, backend |-> 0]
Idle == [attackInput |-> NoAttack, checkMisprediction |-> FALSE, attacked |-> FALSE,
         targeted |-> FALSE, unique |-> {}]

\* An attack of the client, and one made up for a swing in the air.
ClientAttack(id, rid) == [kind |-> "client", id |-> id, rid |-> rid, backend |-> backend]
MadeUp(rid) == [kind |-> "madeUp", id |-> 0, rid |-> rid, backend |-> backend]

-----------------------------------------------------------------------------
(* AuthoritativeCombatComponent *)

\* Attack(nil): a swing in the air counts when no attack is held; the client-side
\* component ignores it.
AttackAir(c, useClientTracker) ==
    IF c.attackInput # NoAttack \/ useClientTracker THEN c
    ELSE [c EXCEPT !.checkMisprediction = TRUE, !.attacked = TRUE]

\* Defect: an attack leaves a swing of the same tick to be checked as well.
AttackEntity_KeepCheck(c, a, useClientTracker, found) ==
    IF a.rid \notin tracked THEN c
    ELSE LET seen == [c EXCEPT !.unique = @ \cup {a.rid}]
         IN  IF c.attackInput # NoAttack THEN seen
             ELSE IF ~useClientTracker /\ ~found
                  THEN [seen EXCEPT !.attacked = TRUE, !.targeted = TRUE]
                  ELSE [seen EXCEPT !.attacked = TRUE, !.targeted = TRUE, !.attackInput = a]

\* Attack(pk): ignored for an entity that is not tracked; the first attack is
\* kept, unless the entity has no past position to be rewound to.
AttackEntity(c, a, useClientTracker, found) ==
    IF a.rid \notin tracked THEN c
    ELSE LET seen == [c EXCEPT !.unique = @ \cup {a.rid}, !.checkMisprediction = FALSE]
         IN  IF c.attackInput # NoAttack THEN seen
             ELSE IF ~useClientTracker /\ ~found
                  THEN [seen EXCEPT !.attacked = TRUE, !.targeted = TRUE]
                  ELSE [seen EXCEPT !.attacked = TRUE, !.targeted = TRUE, !.attackInput = a]

Reset(c) == Idle

\* The tracked entities checkForMispredictedEntity can choose: those with a past
\* position within reach (which of them is the nearest is left open).
mispredicted(near) == near \cap ticked

\* Defect: without full authority every attack is forwarded, also a made-up one.
calculated_ForwardAll(c, hitValid, target) ==
    IF ~c.attacked \/ (~c.checkMisprediction /\ c.attackInput = NoAttack) THEN NoAttack
    ELSE IF c.checkMisprediction /\ target = 0 THEN NoAttack
    ELSE IF hitValid \/ ~opts.fullAuthoritative \/ ~survival
         THEN IF c.checkMisprediction THEN MadeUp(target) ELSE c.attackInput
         ELSE NoAttack

\* Calculate: what the component sends, given the outcome of the geometry and
\* the entity the search for a misprediction finds (0 for none).
calculated(c, hitValid, target) ==
    IF ~c.attacked \/ (~c.checkMisprediction /\ c.attackInput = NoAttack) THEN NoAttack
    ELSE IF c.checkMisprediction /\ target = 0 THEN NoAttack
    ELSE LET input == IF c.checkMisprediction THEN MadeUp(target) ELSE c.attackInput
             forwardHit == \/ hitValid
                           \/ ~opts.fullAuthoritative /\ ~c.checkMisprediction
                           \/ ~survival
         IN  IF forwardHit THEN input ELSE NoAttack

\* Calculate resets the component unless there was nothing to judge.
afterCalculate(c) == IF c.attacked THEN Reset(c) ELSE c

\* SendPacketToServer, for an attack if there is one.  `trusted': the hit was
\* judged valid, or the player's game mode is one whose hits are not judged.
SendAttack(a, trusted) ==
    received' = IF a = NoAttack THEN received
                ELSE Append(received, [attack |-> a, to |-> backend, trusted |-> trusted])

-----------------------------------------------------------------------------
(* Handlers *)

\* Whether the handler of an attack cancels the packet.
\* Defect: it never does.
cancelsAttack_Never == FALSE

cancelsAttack == survival

\* InventoryTransaction with an attack on an entity.  Outside of survival the
\* packet itself goes on to the server.
HandleAttack(rid) ==
    LET a == ClientAttack(attacks + 1, rid)
        found == rid \in ticked
    IN  /\ attacks < MaxAttacks
        /\ attacks' = attacks + 1
        /\ combat' = IF survival THEN AttackEntity(combat, a, FALSE, found) ELSE combat
        /\ clientCombat' = IF opts.clientTracking
                           THEN AttackEntity(clientCombat, a, TRUE, found) ELSE clientCombat
        /\ SendAttack(IF cancelsAttack THEN NoAttack ELSE a, TRUE)
        /\ UNCHANGED <<trackerVars, opts, survival, backend, inputs>>

\* LevelSoundEvent of a swing without damage.
HandleSwing ==
    /\ inputs < MaxInputs
    /\ inputs' = inputs + 1
    /\ combat' = AttackAir(combat, FALSE)
    /\ UNCHANGED <<trackerVars, opts, survival, clientCombat, backend, attacks, received>>

\* tryRunningClientCombat: the client-side component never sends anything.
tryRunningClientCombat ==
    clientCombat' = IF opts.clientTracking THEN afterCalculate(clientCombat) ELSE clientCombat

\* PlayerAuthInput beyond the input allowance: only the client side runs.
InputRateLimited ==
    /\ inputs < MaxInputs
    /\ inputs' = inputs + 1
    /\ tryRunningClientCombat
    /\ UNCHANGED <<trackerVars, opts, survival, combat, backend, attacks, received>>

\* PlayerAuthInput: a missed swing, then the client side, then the server-state
\* component, which a player who is breaking a block does not get to use.
HandleInput(missedSwing, breaking, hitValid, near) ==
    LET c == IF missedSwing THEN AttackAir(combat, FALSE) ELSE combat
    IN  /\ inputs < MaxInputs
        /\ inputs' = inputs + 1
        /\ tryRunningClientCombat
        /\ IF breaking
           THEN combat' = Reset(c) /\ UNCHANGED received
           ELSE /\ combat' = afterCalculate(c)
                /\ \E target \in IF mispredicted(near) = {} THEN {0} ELSE mispredicted(near) :
                      SendAttack(calculated(c, hitValid, target), hitValid \/ ~survival)
        /\ UNCHANGED <<trackerVars, opts, survival, backend, attacks>>

\* The game mode changes when its acknowledgement arrives.
ChangeGameMode ==
    /\ inputs < MaxInputs
    /\ inputs' = inputs + 1
    /\ survival' = ~survival
    /\ UNCHANGED <<trackerVars, opts, combat, clientCombat, backend, attacks, received>>

\* Defect: the attack held for the old backend survives the transfer.
resetCombat_Keep(c) == c

\* TransferServerConn: both components are reset ...
resetCombat(c) == Reset(c)

\* ... and the trackers emptied; the backend decides on the game mode.
TransferServerConn(mode) ==
    /\ backend < MaxTransfers
    /\ backend' = backend + 1
    /\ survival' = mode
    /\ tracked' = {} /\ ticked' = {}
    /\ combat' = resetCombat(combat)
    /\ clientCombat' = resetCombat(clientCombat)
    /\ UNCHANGED <<opts, attacks, inputs, received>>

\* AddActor, AddPlayer: the entity is new to the trackers, or starts again.
AddEntity(rid) ==
    /\ inputs < MaxInputs
    /\ inputs' = inputs + 1
    /\ tracked' = tracked \cup {rid} /\ ticked' = ticked \ {rid}
    /\ UNCHANGED <<opts, survival, combat, clientCombat, backend, attacks, received>>

\* RemoveActor: an attack on the entity may still be held.
RemoveEntity(rid) ==
    /\ inputs < MaxInputs
    /\ inputs' = inputs + 1
    /\ tracked' = tracked \ {rid} /\ ticked' = ticked \ {rid}
    /\ UNCHANGED <<opts, survival, combat, clientCombat, backend, attacks, received>>

\* Player.Tick records a position of every entity.
TickEntities ==
    /\ ticked' = tracked
    /\ UNCHANGED <<tracked, opts, survival, combat, clientCombat, backend, attacks,
                   inputs, received>>

-----------------------------------------------------------------------------

Init ==
    /\ tracked = {} /\ ticked = {}
    /\ opts \in [fullAuthoritative : BOOLEAN, clientTracking : BOOLEAN]
    /\ survival \in BOOLEAN
    /\ combat = Idle /\ clientCombat = Idle
    /\ backend = 0 /\ attacks = 0 /\ inputs = 0 /\ received = <<>>

Next ==
    \/ \E rid \in RuntimeIDs : AddEntity(rid) \/ RemoveEntity(rid) \/ HandleAttack(rid)
    \/ TickEntities
    \/ HandleSwing
    \/ InputRateLimited
    \/ \E missedSwing, breaking, hitValid \in BOOLEAN, near \in SUBSET RuntimeIDs :
          HandleInput(missedSwing, breaking, hitValid, near)
    \/ ChangeGameMode
    \/ \E mode \in BOOLEAN : TransferServerConn(mode)

Spec == Init /\ [][Next]_vars

-----------------------------------------------------------------------------
(* Properties *)

Attacks == [kind : {"none", "client", "madeUp"}, id : 0..MaxAttacks,
            rid : RuntimeIDs \cup {0}, backend : 0..MaxTransfers]
Components == [attackInput : Attacks, checkMisprediction : BOOLEAN, attacked : BOOLEAN,
               targeted : BOOLEAN, unique : SUBSET RuntimeIDs]
Packets == [attack : {a \in Attacks : a.rid # 0}, to : 0..MaxTransfers, trusted : BOOLEAN]

\* Every variable keeps its type: the client-side component never looks for
\* mispredictions, and what is sent names an entity.
TypeOK ==
    /\ tracked \subseteq RuntimeIDs /\ ticked \subseteq tracked
    /\ opts \in [fullAuthoritative : BOOLEAN, clientTracking : BOOLEAN]
    /\ survival \in BOOLEAN /\ backend \in 0..MaxTransfers
    /\ attacks \in 0..MaxAttacks /\ inputs \in 0..MaxInputs
    /\ combat \in Components
    /\ clientCombat \in Components /\ ~clientCombat.checkMisprediction
    /\ received \in Seq(Packets)

\* Whatever the component holds, it is marked as attacked, so the next input it
\* is given clears it: no attack, no swing and no record of an attacked entity
\* can stay behind and make the component ignore all later attacks.
NoStuckAttack ==
    \A c \in {combat, clientCombat} :
        (c.attackInput # NoAttack \/ c.checkMisprediction \/ c.unique # {}) => c.attacked

\* An attack of the client reaches the server at most once, whether it is
\* forwarded as it is or kept and sent with the next input, and however the game
\* mode changes in between.
AttackSentOnce ==
    \A i, j \in DOMAIN received :
        LET a == received[i].attack  b == received[j].attack
        IN  (a.kind = "client" /\ b.kind = "client" /\ a.id = b.id) => i = j

\* An attack reaches the backend whose entity the client attacked, also when a
\* transfer comes between the attack and the input that releases it.
AttackStaysWithBackend ==
    \A i \in DOMAIN received : received[i].attack.backend = received[i].to

\* README: "If the client did not send an InventoryTransaction, a check is done to
\* see if the client potentially mispredicted a missed swing".  An attack is only
\* made up when the component holds none of the client's.
MadeUpOnlyWithoutAttack ==
    \A c \in {combat, clientCombat} : ~(c.checkMisprediction /\ c.attackInput # NoAttack)

\* Calculate: "Misprediction stays gated on hitValid as the anti-cheat floor."  An
\* attack the client never sent is only made up when the hit is valid, also when
\* rejected hits are forwarded; only creative and spectator players are trusted.
MispredictionGated ==
    \A i \in DOMAIN received : received[i].attack.kind = "madeUp" => received[i].trusted

\* An attack is made up only in the place of one of the client's, and only when it
\* would have hit.
MadeUpInTurn == MadeUpOnlyWithoutAttack /\ MispredictionGated
=============================================================================
