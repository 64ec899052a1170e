------------------------- MODULE InteractionProofs -------------------------
(***************************************************************************)
(* Proofs about what the client does to the world: about Combat, for any   *)
(* set of entities and any number of attacks, inputs and transfers; about  *)
(* InventoryRequests, for any slots, requests of any length, updates and   *)
(* batches of responses; and about BlockInteraction, for a slice of any    *)
(* size, any hands and any number of clicks and block actions.             *)
(***************************************************************************)
EXTENDS Combat, InventoryRequests, BlockInteraction, SequenceTheorems, FiniteSetTheorems,
        WellFoundedInduction, TLAPS

-----------------------------------------------------------------------------
(* COMBAT *)

\* What a component may hold when n attacks were received and b is the backend:
\* nothing that it would not clear, and only an attack of the client on b.
Sound(c, n, b) ==
    /\ c \in Components
    /\ (c.attackInput # NoAttack \/ c.checkMisprediction \/ c.unique # {}) => c.attacked
    /\ ~(c.checkMisprediction /\ c.attackInput # NoAttack)
    /\ c.attackInput # NoAttack =>
          /\ c.attackInput.kind = "client" /\ c.attackInput.id \in 1..n
          /\ c.attackInput.rid \in RuntimeIDs /\ c.attackInput.backend = b

\* The attacks the server has been sent were received before, and the one that
\* is held is not among them.
HeldNotSent ==
    \A i \in DOMAIN received : received[i].attack.kind = "client" =>
        /\ received[i].attack.id \in 1..attacks
        /\ combat.attackInput # NoAttack => received[i].attack.id # combat.attackInput.id

\* The inductive invariant.
IInv ==
    /\ TypeOK
    /\ Sound(combat, attacks, backend) /\ Sound(clientCombat, attacks, backend)
    /\ HeldNotSent /\ AttackSentOnce /\ AttackStaysWithBackend /\ MispredictionGated

-----------------------------------------------------------------------------

\* A component that was reset holds nothing.
LEMMA IdleSound ==
    ASSUME NEW n \in Nat, NEW b
    PROVE  Sound(Idle, n, b) /\ Idle.attackInput = NoAttack /\ ~Idle.checkMisprediction
<1>1. NoAttack \in Attacks
  BY CombatAssumption DEF NoAttack, Attacks
<1> QED BY <1>1 DEF Sound, Idle, Components

\* A swing in the air keeps what is held.
LEMMA AirSound ==
    ASSUME NEW n \in Nat, NEW b, NEW c, Sound(c, n, b)
    PROVE  /\ Sound(AttackAir(c, FALSE), n, b)
           /\ AttackAir(c, FALSE).attackInput = c.attackInput
<1>1. CASE c.attackInput # NoAttack
  BY <1>1 DEF AttackAir
<1>2. CASE c.attackInput = NoAttack
  <2> DEFINE d == [c EXCEPT !.checkMisprediction = TRUE, !.attacked = TRUE]
  <2>1. AttackAir(c, FALSE) = d
    BY <1>2 DEF AttackAir
  <2>2. d \in Components /\ d.attacked /\ d.attackInput = NoAttack
    BY <1>2 DEF Sound, Components
  <2> QED BY <1>2, <2>1, <2>2 DEF Sound
<1> QED BY <1>1, <1>2

\* An attack of the client, the (n+1)st, is held only when none was.
LEMMA EntitySound ==
    ASSUME NEW n \in Nat, n + 1 <= MaxAttacks, NEW b \in 0..MaxTransfers,
           NEW c, Sound(c, n, b), NEW rid \in RuntimeIDs, tracked \subseteq RuntimeIDs,
           NEW a, a = [kind |-> "client", id |-> n + 1, rid |-> rid, backend |-> b],
           NEW u \in BOOLEAN, NEW f \in BOOLEAN
    PROVE  /\ Sound(AttackEntity(c, a, u, f), n + 1, b)
           /\ AttackEntity(c, a, u, f).attackInput \in {c.attackInput, a}
           /\ ~c.checkMisprediction => ~AttackEntity(c, a, u, f).checkMisprediction
<1> DEFINE d == AttackEntity(c, a, u, f)
<1>1. a \in Attacks /\ a # NoAttack /\ a.kind = "client" /\ a.id = n + 1
      /\ a.rid = rid /\ a.backend = b
  BY CombatAssumption DEF Attacks, NoAttack
<1>2. c \in Components /\ 1..n \subseteq 1..(n + 1) /\ n + 1 \in 1..(n + 1)
  BY DEF Sound
<1>3. CASE rid \notin tracked
  BY <1>1, <1>2, <1>3 DEF AttackEntity, Sound
<1>4. CASE rid \in tracked /\ c.attackInput # NoAttack
  <2> DEFINE s == [c EXCEPT !.unique = @ \cup {rid}, !.checkMisprediction = FALSE]
  <2>1. d = s
    BY <1>1, <1>4 DEF AttackEntity
  <2>2. s \in Components /\ s.attackInput = c.attackInput /\ ~s.checkMisprediction
        /\ s.attacked = c.attacked
    BY <1>2 DEF Components
  <2> QED BY <1>2, <1>4, <2>1, <2>2 DEF Sound
<1>5. CASE rid \in tracked /\ c.attackInput = NoAttack
  <2> DEFINE s == [c EXCEPT !.unique = @ \cup {rid}, !.checkMisprediction = FALSE]
             t == [s EXCEPT !.attacked = TRUE, !.targeted = TRUE]
             v == [s EXCEPT !.attacked = TRUE, !.targeted = TRUE, !.attackInput = a]
  <2>1. d = t \/ d = v
    BY <1>1, <1>5 DEF AttackEntity
  <2>2. t \in Components /\ t.attacked /\ ~t.checkMisprediction /\ t.attackInput = NoAttack
    BY <1>2, <1>5 DEF Components
  <2>3. v \in Components /\ v.attacked /\ ~v.checkMisprediction /\ v.attackInput = a
    BY <1>1, <1>2, <1>5 DEF Components
  <2> HIDE DEF d, t, v
  <2>4. Sound(t, n + 1, b)
    BY <2>2 DEF Sound
  <2>5. Sound(v, n + 1, b)
    BY <1>1, <1>2, <2>3 DEF Sound
  <2>6. Sound(d, n + 1, b) /\ d.attackInput \in {c.attackInput, a} /\ ~d.checkMisprediction
    BY <1>5, <2>1, <2>2, <2>3, <2>4, <2>5
  <2> QED BY <2>6 DEF d
<1> QED BY <1>3, <1>4, <1>5

\* Sending an attack that is new to the server.
LEMMA SendStep ==
    ASSUME TypeOK, AttackSentOnce, AttackStaysWithBackend, MispredictionGated,
           NEW a, NEW valid \in BOOLEAN, SendAttack(a, valid),
           a # NoAttack /\ a.kind = "madeUp" => valid,
           a # NoAttack => /\ a \in Attacks /\ a.rid # 0 /\ a.backend = backend
                           /\ a.kind = "client" =>
                                \A i \in DOMAIN received :
                                    received[i].attack.kind = "client" => received[i].attack.id # a.id
    PROVE  /\ received' \in Seq(Packets) /\ AttackSentOnce' /\ AttackStaysWithBackend'
           /\ MispredictionGated'
           /\ \A i \in DOMAIN received' :
                 \/ i \in DOMAIN received /\ received'[i] = received[i]
                 \/ a # NoAttack /\ received'[i].attack = a
<1>1. received \in Seq(Packets)
  BY DEF TypeOK
<1>2. CASE a = NoAttack
  BY <1>1, <1>2 DEF SendAttack, AttackSentOnce, AttackStaysWithBackend, MispredictionGated
<1>3. CASE a # NoAttack
  <2> DEFINE p == [attack |-> a, to |-> backend, trusted |-> valid]
  <2>1. p \in Packets /\ p.attack = a /\ p.to = backend /\ p.trusted = valid
    BY <1>3 DEF Packets, TypeOK
  <2>2. received' = Append(received, p)
    BY <1>3 DEF SendAttack
  <2> HIDE DEF p
  <2>3. /\ received' \in Seq(Packets) /\ Len(received') = Len(received) + 1
        /\ \A i \in 1..Len(received) : received'[i] = received[i]
        /\ received'[Len(received) + 1] = p
    BY <1>1, <2>1, <2>2
  <2>4. DOMAIN received = 1..Len(received) /\ DOMAIN received' = 1..(Len(received) + 1)
        /\ Len(received) \in Nat
    BY <1>1, <2>3
  <2>5. \A i \in DOMAIN received' : i \in DOMAIN received \/ i = Len(received) + 1
    BY <2>4
  <2>6. \A i \in DOMAIN received' :
           \/ i \in DOMAIN received /\ received'[i] = received[i]
           \/ i = Len(received) + 1 /\ received'[i].attack = a /\ received'[i].to = backend
    BY <2>1, <2>3, <2>4, <2>5
  <2>7. AttackStaysWithBackend'
    BY <1>3, <2>6 DEF AttackStaysWithBackend
  <2>8. AttackSentOnce'
    <3> SUFFICES ASSUME NEW i \in DOMAIN received', NEW j \in DOMAIN received',
                        received'[i].attack.kind = "client", received'[j].attack.kind = "client",
                        received'[i].attack.id = received'[j].attack.id
                 PROVE  i = j
      BY DEF AttackSentOnce
    <3>1. CASE i \in DOMAIN received /\ j \in DOMAIN received
      BY <2>3, <2>4, <3>1 DEF AttackSentOnce
    <3>2. CASE i \in DOMAIN received /\ j = Len(received) + 1
      BY <1>3, <2>1, <2>3, <2>4, <3>2
    <3>3. CASE j \in DOMAIN received /\ i = Len(received) + 1
      BY <1>3, <2>1, <2>3, <2>4, <3>3
    <3> QED BY <2>5, <3>1, <3>2, <3>3
  <2>9. MispredictionGated'
    <3> SUFFICES ASSUME NEW i \in DOMAIN received', received'[i].attack.kind = "madeUp"
                 PROVE  received'[i].trusted
      BY DEF MispredictionGated
    <3>1. CASE i \in DOMAIN received
      BY <2>3, <2>4, <3>1 DEF MispredictionGated
    <3>2. CASE i = Len(received) + 1
      BY <1>3, <2>1, <2>3, <3>2
    <3> QED BY <2>5, <3>1, <3>2
  <2> QED BY <1>3, <2>3, <2>6, <2>7, <2>8, <2>9
<1> QED BY <1>2, <1>3

-----------------------------------------------------------------------------

\* The history part of the invariant does not change when nothing is sent, no
\* attack is received and the component holds what it held, or nothing.
LEMMA QuietStep ==
    ASSUME IInv, UNCHANGED <<attacks, received>>,
           combat'.attackInput \in {combat.attackInput, NoAttack}
    PROVE  HeldNotSent' /\ AttackSentOnce' /\ AttackStaysWithBackend' /\ MispredictionGated'
BY DEF IInv, HeldNotSent, AttackSentOnce, AttackStaysWithBackend, MispredictionGated

\* Attacks of the client.
LEMMA AttackStep ==
    ASSUME IInv, NEW rid \in RuntimeIDs, HandleAttack(rid)
    PROVE  IInv'
<1> DEFINE a == [kind |-> "client", id |-> attacks + 1, rid |-> rid, backend |-> backend]
           f == rid \in ticked
<1>1. /\ attacks \in Nat /\ attacks + 1 <= MaxAttacks /\ attacks + 1 \in 0..MaxAttacks
      /\ attacks' = attacks + 1
      /\ backend \in 0..MaxTransfers /\ tracked \subseteq RuntimeIDs
  BY CombatAssumption DEF IInv, TypeOK, HandleAttack
<1>2. /\ a \in Attacks /\ a # NoAttack /\ a.rid # 0 /\ a.backend = backend
      /\ a.kind = "client" /\ a.id = attacks + 1
  BY <1>1, CombatAssumption DEF Attacks, NoAttack
<1>3. /\ combat' = IF survival THEN AttackEntity(combat, a, FALSE, f) ELSE combat
      /\ clientCombat' = IF opts.clientTracking
                         THEN AttackEntity(clientCombat, a, TRUE, f) ELSE clientCombat
      /\ SendAttack(IF survival THEN NoAttack ELSE a, TRUE)
      /\ UNCHANGED <<tracked, ticked, opts, survival, backend, inputs>>
  BY DEF HandleAttack, ClientAttack, trackerVars, cancelsAttack
<1>4. \A c : Sound(c, attacks, backend) => Sound(c, attacks + 1, backend)
  BY <1>1 DEF Sound
<1>a. f \in BOOLEAN /\ FALSE \in BOOLEAN /\ TRUE \in BOOLEAN
  OBVIOUS
<1>b. a = [kind |-> "client", id |-> attacks + 1, rid |-> rid, backend |-> backend]
  OBVIOUS
<1>c. /\ Sound(combat, attacks, backend) /\ Sound(clientCombat, attacks, backend)
      /\ ~clientCombat.checkMisprediction
  BY DEF IInv, TypeOK
<1> HIDE DEF a, f
<1>5. /\ Sound(AttackEntity(combat, a, FALSE, f), attacks + 1, backend)
      /\ AttackEntity(combat, a, FALSE, f).attackInput \in {combat.attackInput, a}
  BY <1>1, <1>a, <1>b, <1>c, EntitySound
<1>6. /\ Sound(AttackEntity(clientCombat, a, TRUE, f), attacks + 1, backend)
      /\ ~AttackEntity(clientCombat, a, TRUE, f).checkMisprediction
  BY <1>1, <1>a, <1>b, <1>c, EntitySound
<1>7. /\ Sound(combat', attacks', backend') /\ Sound(clientCombat', attacks', backend')
      /\ ~clientCombat'.checkMisprediction
      /\ combat'.attackInput \in {combat.attackInput, a}
      /\ ~survival => combat' = combat
  BY <1>1, <1>3, <1>4, <1>5, <1>6 DEF IInv, TypeOK
<1>8. \A i \in DOMAIN received : received[i].attack.kind = "client" =>
         received[i].attack.id \in 1..attacks /\ received[i].attack.id # a.id
  BY <1>1, <1>2 DEF IInv, HeldNotSent
<1>9. /\ received' \in Seq(Packets) /\ AttackSentOnce' /\ AttackStaysWithBackend'
      /\ MispredictionGated'
      /\ \A i \in DOMAIN received' :
            \/ i \in DOMAIN received /\ received'[i] = received[i]
            \/ ~survival /\ received'[i].attack = a
  BY <1>2, <1>3, <1>8, SendStep DEF IInv
<1>10. combat.attackInput # NoAttack => combat.attackInput.id \in 1..attacks
  BY DEF IInv, Sound
<1>11. HeldNotSent'
  <2> SUFFICES ASSUME NEW i \in DOMAIN received', received'[i].attack.kind = "client"
               PROVE  /\ received'[i].attack.id \in 1..attacks'
                      /\ combat'.attackInput # NoAttack =>
                            received'[i].attack.id # combat'.attackInput.id
    BY DEF HeldNotSent
  <2>1. CASE i \in DOMAIN received /\ received'[i] = received[i]
    BY <1>1, <1>2, <1>7, <1>8, <2>1 DEF IInv, HeldNotSent
  <2>2. CASE ~survival /\ received'[i].attack = a
    BY <1>1, <1>2, <1>7, <1>10, <2>2
  <2> QED BY <1>9, <2>1, <2>2
<1>12. TypeOK'
  BY <1>1, <1>3, <1>7, <1>9 DEF IInv, TypeOK, Sound
<1> QED BY <1>7, <1>9, <1>11, <1>12 DEF IInv

\* Inputs: what is sent is the attack that was held, or one that was made up.
LEMMA InputStep ==
    ASSUME IInv, NEW missedSwing \in BOOLEAN, NEW breaking \in BOOLEAN,
           NEW hitValid \in BOOLEAN, NEW near \in SUBSET RuntimeIDs,
           HandleInput(missedSwing, breaking, hitValid, near)
    PROVE  IInv'
<1> DEFINE c == IF missedSwing THEN AttackAir(combat, FALSE) ELSE combat
           v == hitValid \/ ~survival
<1>1. /\ attacks \in Nat /\ backend \in 0..MaxTransfers
      /\ inputs + 1 \in 0..MaxInputs /\ inputs' = inputs + 1
      /\ UNCHANGED <<tracked, ticked, opts, survival, backend, attacks>>
  BY CombatAssumption DEF IInv, TypeOK, HandleInput, trackerVars
<1>2. Sound(c, attacks, backend) /\ c.attackInput = combat.attackInput
  BY <1>1, AirSound DEF IInv
<1>3. Sound(Idle, attacks, backend) /\ Idle.attackInput = NoAttack /\ ~Idle.checkMisprediction
  BY <1>1, IdleSound
<1>4. clientCombat' \in {clientCombat, Idle}
  BY DEF HandleInput, tryRunningClientCombat, afterCalculate, Reset
<1>5. /\ combat' = Idle \/ (combat' = c /\ ~c.attacked /\ ~breaking)
      /\ breaking => UNCHANGED received
      /\ ~breaking => \E target \in {0} \cup (near \cap ticked) :
                         SendAttack(calculated(c, hitValid, target), hitValid \/ ~survival)
  BY DEF HandleInput, afterCalculate, Reset, mispredicted
<1> HIDE DEF c
<1>6. /\ Sound(combat', attacks', backend') /\ Sound(clientCombat', attacks', backend')
      /\ ~clientCombat'.checkMisprediction
      /\ combat'.attackInput = NoAttack
  BY <1>1, <1>2, <1>3, <1>4, <1>5 DEF IInv, TypeOK, Sound
<1>7. /\ received' \in Seq(Packets) /\ AttackSentOnce' /\ AttackStaysWithBackend'
      /\ MispredictionGated'
      /\ HeldNotSent'
  <2>1. CASE breaking
    BY <1>1, <1>5, <1>6, <2>1, QuietStep DEF IInv, TypeOK
  <2>2. CASE ~breaking
    <3>1. PICK target \in {0} \cup (near \cap ticked) :
             SendAttack(calculated(c, hitValid, target), v)
      BY <1>5, <2>2
    <3> DEFINE s == calculated(c, hitValid, target)
    <3>a. v \in BOOLEAN
      OBVIOUS
    <3>b. s # NoAttack /\ s.kind = "madeUp" => v
      <4>1. c.attackInput # NoAttack => c.attackInput.kind = "client"
        BY <1>2 DEF Sound
      <4> QED BY <4>1 DEF calculated
    <3>2. s # NoAttack => s = c.attackInput \/ (target # 0 /\ s = MadeUp(target))
      BY DEF calculated
    <3>3. target # 0 => MadeUp(target) \in Attacks /\ MadeUp(target).rid # 0
                        /\ MadeUp(target).backend = backend /\ MadeUp(target).kind = "madeUp"
      BY <1>1, CombatAssumption DEF MadeUp, Attacks
    <3>4. c.attackInput # NoAttack =>
             /\ c.attackInput \in Attacks /\ c.attackInput.rid # 0
             /\ c.attackInput.backend = backend /\ c.attackInput.id \in 1..attacks
             /\ \A i \in DOMAIN received : received[i].attack.kind = "client" =>
                   received[i].attack.id # c.attackInput.id
      BY <1>2, CombatAssumption DEF Sound, Components, IInv, HeldNotSent
    <3> HIDE DEF s, v
    <3>5. /\ s # NoAttack => /\ s \in Attacks /\ s.rid # 0 /\ s.backend = backend
                             /\ s.kind = "client" =>
                                   /\ s.id \in 1..attacks
                                   /\ \A i \in DOMAIN received :
                                        received[i].attack.kind = "client" => received[i].attack.id # s.id
      BY <3>2, <3>3, <3>4
    <3>6. SendAttack(s, v)
      BY <3>1 DEF s, v
    <3>7. /\ received' \in Seq(Packets) /\ AttackSentOnce' /\ AttackStaysWithBackend'
          /\ MispredictionGated'
          /\ \A i \in DOMAIN received' :
                \/ i \in DOMAIN received /\ received'[i] = received[i]
                \/ s # NoAttack /\ received'[i].attack = s
      BY <3>a, <3>b, <3>5, <3>6, SendStep DEF IInv
    <3>8. HeldNotSent'
      BY <1>1, <1>6, <3>5, <3>7 DEF IInv, HeldNotSent
    <3> QED BY <3>7, <3>8
  <2> QED BY <2>1, <2>2
<1>8. TypeOK'
  BY <1>1, <1>6, <1>7 DEF IInv, TypeOK, Sound
<1> QED BY <1>6, <1>7, <1>8 DEF IInv

\* Every other step leaves what was sent alone.
LEMMA OtherStep ==
    ASSUME IInv,
           \/ \E rid \in RuntimeIDs : AddEntity(rid) \/ RemoveEntity(rid)
           \/ TickEntities \/ HandleSwing \/ InputRateLimited \/ ChangeGameMode
           \/ \E mode \in BOOLEAN : TransferServerConn(mode)
           \/ UNCHANGED vars
    PROVE  IInv'
<1>0. attacks \in Nat /\ backend \in 0..MaxTransfers /\ MaxInputs \in Nat /\ MaxTransfers \in Nat
  BY CombatAssumption DEF IInv, TypeOK
<1>1. \A n \in Nat : \A b : Sound(Idle, n, b) /\ Idle.attackInput = NoAttack /\ ~Idle.checkMisprediction
  BY IdleSound
<1>2. /\ Sound(combat, attacks, backend) /\ Sound(clientCombat, attacks, backend)
      /\ ~clientCombat.checkMisprediction /\ TypeOK
  BY DEF IInv, TypeOK
<1>3. ASSUME NEW rid \in RuntimeIDs, AddEntity(rid) \/ RemoveEntity(rid)  PROVE IInv'
  <2>1. /\ UNCHANGED <<opts, survival, combat, clientCombat, backend, attacks, received>>
        /\ inputs' = inputs + 1 /\ inputs < MaxInputs
        /\ tracked' \subseteq RuntimeIDs /\ ticked' \subseteq tracked'
    BY <1>2, <1>3 DEF AddEntity, RemoveEntity, TypeOK
  <2>2. TypeOK'
    BY <1>0, <1>2, <2>1 DEF TypeOK
  <2> QED BY <1>2, <2>1, <2>2, QuietStep DEF IInv
<1>4. CASE TickEntities
  <2>1. TypeOK'
    BY <1>2, <1>4 DEF TickEntities, TypeOK
  <2> QED BY <1>2, <1>4, <2>1, QuietStep DEF IInv, TickEntities
<1>5. CASE HandleSwing
  <2>1. /\ UNCHANGED <<tracked, ticked, opts, survival, clientCombat, backend, attacks, received>>
        /\ combat' = AttackAir(combat, FALSE) /\ inputs' = inputs + 1 /\ inputs < MaxInputs
    BY <1>5 DEF HandleSwing, trackerVars
  <2>2. Sound(combat', attacks, backend) /\ combat'.attackInput = combat.attackInput
    BY <1>0, <1>2, <2>1, AirSound
  <2>3. combat' \in Components
    BY <2>2 DEF Sound
  <2>4. inputs' \in 0..MaxInputs
    BY <1>0, <1>2, <2>1 DEF TypeOK
  <2>5. TypeOK'
    BY <1>2, <2>1, <2>3, <2>4 DEF TypeOK
  <2> QED BY <1>2, <2>1, <2>2, <2>5, QuietStep DEF IInv
<1>6. CASE InputRateLimited
  <2>1. /\ UNCHANGED <<tracked, ticked, opts, survival, combat, backend, attacks, received>>
        /\ clientCombat' \in {clientCombat, Idle} /\ inputs' = inputs + 1 /\ inputs < MaxInputs
    BY <1>6 DEF InputRateLimited, trackerVars, tryRunningClientCombat, afterCalculate, Reset
  <2>2. Sound(clientCombat', attacks, backend) /\ ~clientCombat'.checkMisprediction
    BY <1>0, <1>1, <1>2, <2>1
  <2>3. TypeOK'
    BY <1>0, <1>2, <2>1, <2>2 DEF TypeOK, Sound
  <2> QED BY <1>2, <2>1, <2>2, <2>3, QuietStep DEF IInv
<1>7. CASE ChangeGameMode
  <2>1. TypeOK'
    BY <1>0, <1>2, <1>7 DEF ChangeGameMode, trackerVars, TypeOK
  <2> QED BY <1>2, <1>7, <2>1, QuietStep DEF IInv, ChangeGameMode
<1>8. ASSUME NEW mode \in BOOLEAN, TransferServerConn(mode)  PROVE IInv'
  <2>1. /\ UNCHANGED <<opts, attacks, inputs, received>>
        /\ tracked' = {} /\ ticked' = {} /\ survival' = mode
        /\ backend' = backend + 1 /\ backend < MaxTransfers
        /\ combat' = Idle /\ clientCombat' = Idle
    BY <1>8 DEF TransferServerConn, resetCombat, Reset
  <2>2. Idle \in Components
    BY <1>0, <1>1 DEF Sound
  <2>3. TypeOK'
    BY <1>0, <1>1, <1>2, <2>1, <2>2 DEF TypeOK
  <2> QED BY <1>0, <1>1, <2>1, <2>3, QuietStep DEF IInv
<1>9. CASE UNCHANGED vars
  BY <1>2, <1>9, QuietStep DEF IInv, TypeOK, vars
<1> QED BY <1>3, <1>4, <1>5, <1>6, <1>7, <1>8, <1>9

\* The inductive invariant holds in every behaviour of the two combat components.
THEOREM Invariance == Spec => []IInv
<1>1. Init => IInv
  <2> SUFFICES ASSUME Init PROVE IInv
    OBVIOUS
  <2>1. \A n \in Nat : \A b : Sound(Idle, n, b) /\ Idle.attackInput = NoAttack /\ ~Idle.checkMisprediction
    BY IdleSound
  <2>2. received = <<>> /\ DOMAIN received = {} /\ received \in Seq(Packets)
    BY DEF Init
  <2>3. TypeOK
    BY <2>1, <2>2, CombatAssumption DEF Init, TypeOK, Sound
  <2> QED BY <2>1, <2>2, <2>3 DEF Init, IInv, HeldNotSent, AttackSentOnce, AttackStaysWithBackend,
           MispredictionGated
<1>2. IInv /\ [Next]_vars => IInv'
  <2> SUFFICES ASSUME IInv, [Next]_vars PROVE IInv'
    OBVIOUS
  <2>1. ASSUME NEW rid \in RuntimeIDs, HandleAttack(rid) PROVE IInv'
    BY <2>1, AttackStep
  <2>2. ASSUME NEW missedSwing \in BOOLEAN, NEW breaking \in BOOLEAN, NEW hitValid \in BOOLEAN,
               NEW near \in SUBSET RuntimeIDs,
               HandleInput(missedSwing, breaking, hitValid, near)
        PROVE  IInv'
    BY <2>2, InputStep
  <2> QED BY <2>1, <2>2, OtherStep DEF Next
<1> QED BY <1>1, <1>2, PTL DEF Spec

\* Every variable of the combat components keeps its type.
THEOREM TypeCorrect == Spec => []TypeOK
BY Invariance, PTL DEF IInv

\* An attack of the client reaches the server at most once, through every
\* interleaving of attacks, inputs, game mode changes and transfers.
THEOREM AttacksNotRepeated == Spec => []AttackSentOnce
BY Invariance, PTL DEF IInv

\* An attack is only ever sent to the backend on which it was made.
THEOREM AttacksNotMisdirected == Spec => []AttackStaysWithBackend
BY Invariance, PTL DEF IInv

\* No attack is made up that was not judged valid, unless hits are not judged, and none
\* while the component holds one of the client's.
THEOREM NoAttackInvented == Spec => []MadeUpInTurn
<1>1. IInv => MadeUpInTurn
  BY DEF IInv, Sound, MadeUpInTurn, MadeUpOnlyWithoutAttack
<1> QED BY <1>1, Invariance, PTL

\* What a component holds is always cleared by its next calculation.
THEOREM ComponentsRecover == Spec => []NoStuckAttack
<1>1. IInv => NoStuckAttack
  BY DEF IInv, Sound, NoStuckAttack
<1> QED BY <1>1, Invariance, PTL

-----------------------------------------------------------------------------
(* INVENTORY *)

-----------------------------------------------------------------------------
(* loops *)

\* What proofs by induction over the naturals come down to: a set of them has a least one.
LEMMA LeastNatural ==
  ASSUME NEW T \in SUBSET Nat, T # {}
  PROVE  \E n \in T : \A m \in T : n <= m
<1> DEFINE R == OpToRel(<, Nat)
<1>1. IsWellFoundedOn(R, Nat)
  BY NatLessThanWellFounded
<1>2. \A x, y \in Nat : <<x, y>> \in R <=> x < y
  BY DEF OpToRel
<1> HIDE DEF R
<1>3. PICK n \in T : \A m \in T : ~(<<m, n>> \in R)
  BY <1>1, WFMin
<1>4. \A m \in T : n <= m
  <2> TAKE m \in T
  <2>1. m \in Nat /\ n \in Nat /\ ~(m < n)
    BY <1>2, <1>3
  <2> QED BY <2>1
<1> QED BY <1>4

\* A loop over n turns has a value after each, if a turn leads from S to S.
LEMMA Turns ==
  ASSUME NEW S, NEW s0 \in S, NEW n \in Nat, NEW turn \in [1..n -> [S -> S]]
  PROVE  \E g \in [0..n -> S] : g[0] = s0 /\ \A k \in 1..n : g[k] = turn[k][g[k - 1]]
<1> DEFINE Upto(m) == \E g \in [0..m -> S] : g[0] = s0 /\ \A k \in 1..m : g[k] = turn[k][g[k - 1]]
           T == {m \in 0..n : ~Upto(m)}
<1> SUFFICES ASSUME ~Upto(n) PROVE FALSE
  OBVIOUS
<1>1. T \in SUBSET Nat /\ n \in T
  OBVIOUS
<1>2. PICK m \in T : \A k \in T : m <= k
  BY <1>1, LeastNatural
<1>3. m # 0
  <2>1. Upto(0)
    <3> DEFINE g == [k \in 0..0 |-> s0]
    <3>1. g \in [0..0 -> S] /\ g[0] = s0 /\ \A k \in 1..0 : g[k] = turn[k][g[k - 1]]
      OBVIOUS
    <3> QED BY <3>1
  <2> QED BY <2>1, <1>2
<1>4. m - 1 \in 0..n /\ m \in 1..n /\ ~(m <= m - 1)
  BY <1>2, <1>3
<1>5. Upto(m - 1)
  <2>1. m - 1 \notin T
    BY <1>2, <1>4
  <2> QED BY <2>1, <1>4
<1>6. PICK g \in [0..(m - 1) -> S] : g[0] = s0 /\ \A k \in 1..(m - 1) : g[k] = turn[k][g[k - 1]]
  BY <1>5
<1> HIDE DEF Upto, T
<1>7. turn[m] \in [S -> S] /\ g[m - 1] \in S
  BY <1>4
<1> DEFINE h == [k \in 0..m |-> IF k = m THEN turn[m][g[m - 1]] ELSE g[k]]
<1>8. h \in [0..m -> S]
  <2> SUFFICES ASSUME NEW k \in 0..m PROVE h[k] \in S
    OBVIOUS
  <2>1. CASE k = m
    BY <1>7, <2>1
  <2>2. CASE k # m
    BY <1>4, <2>2
  <2> QED BY <2>1, <2>2
<1>9. h[0] = s0
  BY <1>4, <1>6
<1>10. \A k \in 1..m : h[k] = turn[k][h[k - 1]]
  <2> TAKE k \in 1..m
  <2>0. k - 1 \in 0..m /\ k - 1 # m /\ k \in 0..m
    BY <1>4
  <2>1. h[k - 1] = g[k - 1]
    BY <2>0
  <2>2. CASE k = m
    BY <2>1, <2>2, <2>0
  <2>3. CASE k # m
    <3>1. k \in 1..(m - 1)
      BY <1>4, <2>3
    <3> QED BY <1>6, <2>0, <2>1, <2>3, <3>1
  <2> QED BY <2>2, <2>3
<1>11. Upto(m)
  BY <1>8, <1>9, <1>10 DEF Upto
<1> QED BY <1>2, <1>11 DEF T

\* The same, with a name for the run.
LoopRun(g, turn, s0, n, S) ==
    g \in [0..n -> S] /\ g[0] = s0 /\ \A k \in 1..n : g[k] = turn[k][g[k - 1]]

\* There is a run of every loop.
LEMMA Loops ==
  ASSUME NEW S, NEW s0 \in S, NEW n \in Nat, NEW turn \in [1..n -> [S -> S]]
  PROVE  \E g : LoopRun(g, turn, s0, n, S)
<1>1. PICK g \in [0..n -> S] : g[0] = s0 /\ \A k \in 1..n : g[k] = turn[k][g[k - 1]]
  BY Turns
<1>2. LoopRun(g, turn, s0, n, S)
  BY <1>1 DEF LoopRun
<1> QED BY <1>2

\* What holds before a loop and is kept by every turn holds after it.
LEMMA KeptByTurns ==
  ASSUME NEW S, NEW n \in Nat, NEW g, g[0] \in S, \A k \in 1..n : g[k - 1] \in S => g[k] \in S
  PROVE  \A k \in 0..n : g[k] \in S
<1> DEFINE T == {k \in 0..n : g[k] \notin S}
<1> SUFFICES ASSUME T # {} PROVE FALSE
  OBVIOUS
<1>1. T \in SUBSET Nat
  OBVIOUS
<1>2. PICK m \in T : \A k \in T : m <= k
  BY <1>1, LeastNatural
<1>3. m # 0 /\ m \in 0..n
  BY <1>2
<1>4. m - 1 \in 0..n /\ m \in 1..n /\ ~(m <= m - 1)
  BY <1>3
<1>5. m - 1 \notin T
  BY <1>2, <1>4
<1>6. g[m - 1] \in S
  BY <1>4, <1>5
<1> QED BY <1>2, <1>4, <1>6

\* Two loops whose turns lead from the same to the same.
LEMMA SameTurns ==
  ASSUME NEW n \in Nat, NEW g, NEW h, g[0] = h[0],
         \A k \in 1..n : g[k - 1] = h[k - 1] => g[k] = h[k]
  PROVE  \A k \in 0..n : g[k] = h[k]
<1> DEFINE d == [k \in 0..n |-> IF g[k] = h[k] THEN 0 ELSE 1]
<1>1. 0 \in 0..n /\ \A k \in 1..n : k \in 0..n /\ k - 1 \in 0..n
  OBVIOUS
<1>2. d[0] \in {0}
  BY <1>1
<1>3. \A k \in 1..n : d[k - 1] \in {0} => d[k] \in {0}
  BY <1>1
<1>4. \A k \in 0..n : d[k] \in {0}
  <2> DEFINE zero == {0}
  <2>1. d[0] \in zero /\ \A k \in 1..n : d[k - 1] \in zero => d[k] \in zero
    BY <1>2, <1>3
  <2> HIDE DEF d, zero
  <2>2. \A k \in 0..n : d[k] \in zero
    BY <2>1, KeptByTurns
  <2> QED BY <2>2 DEF zero
<1>5. \A k \in 0..n : d[k] = 0 <=> g[k] = h[k]
  OBVIOUS
<1> QED BY <1>4, <1>5

-----------------------------------------------------------------------------
(* InventoryRequests: executing and undoing actions *)

Writes == {"transfer", "swap", "destroy", "create"}
ItemActions == [op : Ops, src : Slots, dst : Slots, count : Nat, stack : ItemStacks,
                oldSrc : ItemStacks, oldDst : ItemStacks]

\* No stack is a stack, and a stack that grows or shrinks stays one.
LEMMA NoItemType == NoItem \in ItemStacks
  BY DEF NoItem, ItemStacks

\* A stack that grows or shrinks stays a stack: its count stops at zero.
LEMMA GrowType ==
  ASSUME NEW st \in ItemStacks, NEW n \in Int
  PROVE  Grow(st, n) \in ItemStacks
<1>1. st.count \in Nat /\ st.kind \in Kinds \cup {"air"} /\ st = [kind |-> st.kind, count |-> st.count]
  BY DEF ItemStacks
<1> DEFINE c == IF st.count + n < 0 THEN 0 ELSE st.count + n
<1>2. c \in Nat
  BY <1>1
<1>3. Grow(st, n) = [st EXCEPT !.count = c]
  BY DEF Grow
<1> HIDE DEF c
<1> QED BY <1>1, <1>2, <1>3 DEF ItemStacks

\* What an action does stays within the two slots it names.
LEMMA EffectType ==
  ASSUME NEW a \in ItemActions, a.op \in Writes, NEW it \in Inventories
  PROVE  /\ Effect(a, it) \in Inventories
         /\ \A s \in Slots : s # a.src /\ s # a.dst => Effect(a, it)[s] = it[s]
<1>1. /\ a.src \in Slots /\ a.dst \in Slots /\ a.count \in Nat /\ -a.count \in Int /\ a.count \in Int
      /\ a.stack \in ItemStacks
  BY DEF ItemActions
<1>2. it \in [Slots -> ItemStacks] /\ it[a.src] \in ItemStacks /\ it[a.dst] \in ItemStacks
  BY <1>1 DEF Inventories
<1>3. CASE a.op = "transfer"
  <2> DEFINE dst == IF Empty(it[a.dst]) THEN [it[a.src] EXCEPT !.count = 0] ELSE it[a.dst]
  <2>1. dst \in ItemStacks
    BY <1>2 DEF ItemStacks
  <2>2. Grow(it[a.src], -a.count) \in ItemStacks
    BY <1>1, <1>2, GrowType
  <2>3. Grow(dst, a.count) \in ItemStacks
    BY <1>1, <2>1, GrowType
  <2>4. \/ Effect(a, it) = it
        \/ Effect(a, it) = [it EXCEPT ![a.src] = Grow(it[a.src], -a.count), ![a.dst] = Grow(dst, a.count)]
    BY <1>3 DEF Effect, transferEffect
  <2> HIDE DEF dst
  <2> QED BY <1>1, <1>2, <2>2, <2>3, <2>4 DEF Inventories
<1>4. CASE a.op = "swap"
  <2>1. Effect(a, it) = [it EXCEPT ![a.src] = it[a.dst], ![a.dst] = it[a.src]]
    BY <1>4 DEF Effect, swapEffect
  <2> QED BY <1>1, <1>2, <2>1 DEF Inventories
<1>5. CASE a.op = "destroy"
  <2>1. Grow(it[a.src], -a.count) \in ItemStacks
    BY <1>1, <1>2, GrowType
  <2>2. Effect(a, it) = it \/ Effect(a, it) = [it EXCEPT ![a.src] = Grow(it[a.src], -a.count)]
    BY <1>5 DEF Effect, destroyEffect
  <2> QED BY <1>1, <1>2, <2>1, <2>2 DEF Inventories
<1>6. CASE a.op = "create"
  <2>1. Effect(a, it) = [it EXCEPT ![a.src] = a.stack]
    BY <1>6 DEF Effect, createEffect
  <2> QED BY <1>1, <1>2, <2>1 DEF Inventories
<1> QED BY <1>3, <1>4, <1>5, <1>6 DEF Writes

\* Only the four kinds of actions that write ever apply.
LEMMA AppliesWrites ==
  ASSUME NEW a, NEW alt
  PROVE  Applies(a, alt) => a.op \in Writes
BY DEF Applies, Writes

\* One action executed and remembered.
LEMMA PerformType ==
  ASSUME NEW a \in ItemActions, NEW it \in Inventories, NEW alt
  PROVE  /\ perform(a, it, alt) \in Inventories
         /\ remember(a, it, alt) \in ItemActions
         /\ remember(a, it, alt).op = a.op /\ remember(a, it, alt).src = a.src
         /\ remember(a, it, alt).dst = a.dst
<1>1. perform(a, it, alt) \in Inventories
  BY EffectType, AppliesWrites DEF perform
<1>2. it[a.src] \in ItemStacks /\ it[a.dst] \in ItemStacks
  BY DEF Inventories, ItemActions
<1> QED BY <1>1, <1>2 DEF remember, ItemActions

\* What an action remembers changes nothing about what it does, and remembering the
\* same again changes nothing.
LEMMA RememberOnce ==
  ASSUME NEW a \in ItemActions, NEW it \in Inventories, NEW x \in Inventories, NEW alt
  PROVE  /\ perform(remember(a, it, alt), x, alt) = perform(a, x, alt)
         /\ remember(remember(a, it, alt), it, alt) = remember(a, it, alt)
<1> DEFINE b == remember(a, it, alt)
<1>1. it[a.src] \in ItemStacks /\ it[a.dst] \in ItemStacks
  BY DEF Inventories, ItemActions
<1>2. b.op = a.op /\ b.src = a.src /\ b.dst = a.dst /\ b.count = a.count /\ b.stack = a.stack
  BY <1>1 DEF remember, ItemActions
<1>3. Applies(b, alt) = Applies(a, alt)
  BY <1>2 DEF Applies
<1>4. Effect(b, x) = Effect(a, x)
  BY <1>2 DEF Effect, transferEffect, swapEffect, destroyEffect, createEffect
<1>5. perform(b, x, alt) = perform(a, x, alt)
  BY <1>3, <1>4 DEF perform
<1>6. remember(b, it, alt) = b
  <2>1. CASE ~Applies(a, alt)
    BY <1>3, <2>1 DEF remember
  <2>2. CASE Applies(a, alt)
    <3>1. b = [a EXCEPT !.oldSrc = it[a.src], !.oldDst = it[a.dst]]
      BY <2>2 DEF remember
    <3>2. remember(b, it, alt) = [b EXCEPT !.oldSrc = it[b.src], !.oldDst = it[b.dst]]
      BY <1>3, <2>2 DEF remember
    <3> QED BY <1>1, <1>2, <3>1, <3>2 DEF ItemActions
  <2> QED BY <2>1, <2>2
<1> QED BY <1>5, <1>6

\* Undoing an action that remembered what it found.
LEMMA RevertOne ==
  ASSUME NEW a \in ItemActions, NEW it \in Inventories, NEW alt, a = remember(a, it, alt)
  PROVE  revertAction(a, perform(a, it, alt), alt) = it
<1>1. CASE ~Applies(a, alt)
  BY <1>1 DEF revertAction, perform
<1>2. CASE Applies(a, alt)
  <2>1. a.src \in Slots /\ a.dst \in Slots /\ it \in [Slots -> ItemStacks]
    BY DEF ItemActions, Inventories
  <2>2. a.oldSrc = it[a.src] /\ a.oldDst = it[a.dst]
    <3>1. a = [a EXCEPT !.oldSrc = it[a.src], !.oldDst = it[a.dst]]
      BY <1>2 DEF remember
    <3>2. [a EXCEPT !.oldSrc = it[a.src], !.oldDst = it[a.dst]].oldSrc = it[a.src]
      BY DEF ItemActions
    <3>3. [a EXCEPT !.oldSrc = it[a.src], !.oldDst = it[a.dst]].oldDst = it[a.dst]
      BY DEF ItemActions
    <3> QED BY <3>1, <3>2, <3>3
  <2>3. /\ Effect(a, it) \in [Slots -> ItemStacks]
        /\ \A s \in Slots : s # a.src /\ s # a.dst => Effect(a, it)[s] = it[s]
    BY <1>2, AppliesWrites, EffectType DEF Inventories
  <2>4. revertAction(a, perform(a, it, alt), alt)
          = [Effect(a, it) EXCEPT ![a.src] = it[a.src], ![a.dst] = it[a.dst]]
    BY <1>2, <2>2 DEF revertAction, perform
  <2> QED BY <2>1, <2>3, <2>4
<1> QED BY <1>1, <1>2

\* Undoing leaves an inventory.
LEMMA RevertActionType ==
  ASSUME NEW a \in ItemActions, NEW it \in Inventories, NEW alt
  PROVE  revertAction(a, it, alt) \in Inventories
BY DEF revertAction, ItemActions, Inventories

\* Steps is what its recursion says.
LEMMA StepsAre ==
  ASSUME NEW acts \in Seq(ItemActions), NEW it \in Inventories, NEW alt
  PROVE  /\ Steps(acts, it, alt) \in [0..Len(acts) -> Inventories]
         /\ Steps(acts, it, alt)[0] = it
         /\ \A k \in 1..Len(acts) : Steps(acts, it, alt)[k] = perform(acts[k], Steps(acts, it, alt)[k - 1], alt)
<1> DEFINE n == Len(acts)
           turn == [k \in 1..n |-> [x \in Inventories |-> perform(acts[k], x, alt)]]
           Is(h) == h = [i \in 0..n |-> IF i = 0 THEN it ELSE perform(acts[i], h[i - 1], alt)]
<1>1. n \in Nat /\ \A k \in 1..n : acts[k] \in ItemActions
  OBVIOUS
<1>2. turn \in [1..n -> [Inventories -> Inventories]]
  BY <1>1, PerformType
<1>3. Steps(acts, it, alt) = CHOOSE h : Is(h)
  BY DEF Steps
<1> HIDE DEF n
<1>3a. \E g \in [0..n -> Inventories] : g[0] = it /\ \A k \in 1..n : g[k] = turn[k][g[k - 1]]
  <2> HIDE DEF turn
  <2>1. n \in Nat
    BY <1>1
  <2>2. PICK g : LoopRun(g, turn, it, n, Inventories)
    BY <2>1, <1>2, Loops
  <2> QED BY <2>2 DEF LoopRun
<1>4. PICK g \in [0..n -> Inventories] : g[0] = it /\ \A k \in 1..n : g[k] = turn[k][g[k - 1]]
  BY <1>3a
<1>5. \A k \in 1..n : g[k] = perform(acts[k], g[k - 1], alt)
  <2> TAKE k \in 1..n
  <2>1. k - 1 \in 0..n
    BY <1>1
  <2>2. g[k - 1] \in Inventories
    BY <2>1, <1>4
  <2> QED BY <1>4, <2>2
<1>6. Is(g)
  <2> DEFINE h == [i \in 0..n |-> IF i = 0 THEN it ELSE perform(acts[i], g[i - 1], alt)]
  <2>1. \A i \in 0..n : g[i] = h[i]
    <3> TAKE i \in 0..n
    <3>1. CASE i = 0
      BY <3>1, <1>4
    <3>2. CASE i # 0
      <4>1. i \in 1..n
        BY <3>2, <1>1
      <4> QED BY <4>1, <3>2, <1>5
    <3> QED BY <3>1, <3>2
  <2> QED BY <2>1, <1>4
<1> DEFINE s == Steps(acts, it, alt)
<1>7. s = [i \in 0..n |-> IF i = 0 THEN it ELSE perform(acts[i], s[i - 1], alt)]
  <2>1. Is(CHOOSE h : Is(h))
    BY <1>6
  <2> QED BY <2>1, <1>3
<1> HIDE DEF s, Is, turn
<1>8. s[0] = it /\ \A k \in 1..n : s[k] = perform(acts[k], s[k - 1], alt)
  <2>1. 0 \in 0..n /\ \A k \in 1..n : k \in 0..n /\ k # 0
    BY <1>1
  <2> QED BY <1>7, <2>1
<1>9. \A k \in 0..n : s[k] \in Inventories
  <2>1. \A k \in 1..n : s[k - 1] \in Inventories => s[k] \in Inventories
    BY <1>8, <1>1, PerformType
  <2> QED BY <2>1, <1>8, <1>1, KeptByTurns
<1>10. s \in [0..n -> Inventories]
  BY <1>7, <1>9
<1> QED BY <1>8, <1>10 DEF s, n

\* There is one such run.
LEMMA StepsOnly ==
  ASSUME NEW acts \in Seq(ItemActions), NEW it \in Inventories, NEW alt, NEW h, h[0] = it,
         \A k \in 1..Len(acts) : h[k] = perform(acts[k], h[k - 1], alt)
  PROVE  \A k \in 0..Len(acts) : h[k] = Steps(acts, it, alt)[k]
<1> DEFINE n == Len(acts)
           s == Steps(acts, it, alt)
           Same == {<<x, x>> : x \in Inventories}
           g == [k \in 0..n |-> <<h[k], s[k]>>]
<1>1. n \in Nat
  OBVIOUS
<1>2. s \in [0..n -> Inventories] /\ s[0] = it /\ \A k \in 1..n : s[k] = perform(acts[k], s[k - 1], alt)
  BY StepsAre
<1> HIDE DEF s
<1>3. \A k \in 1..n : h[k] = perform(acts[k], h[k - 1], alt)
  OBVIOUS
<1> HIDE DEF n
<1>4. g[0] \in Same
  BY <1>1, <1>2
<1>5. \A k \in 1..n : g[k - 1] \in Same => g[k] \in Same
  <2> TAKE k \in 1..n
  <2>1. k - 1 \in 0..n /\ k \in 0..n
    BY <1>1
  <2>2. g[k - 1] = <<h[k - 1], s[k - 1]>> /\ g[k] = <<h[k], s[k]>> /\ s[k] \in Inventories
    BY <2>1, <1>2
  <2> HAVE g[k - 1] \in Same
  <2>3. h[k - 1] = s[k - 1]
    BY <2>2
  <2>4. h[k] = s[k]
    BY <1>2, <1>3, <2>3
  <2> QED BY <2>2, <2>4
<1> HIDE DEF g
<1>6. \A k \in 0..n : g[k] \in Same
  BY <1>1, <1>4, <1>5, KeptByTurns
<1>7. \A k \in 0..n : h[k] = s[k]
  <2> TAKE k \in 0..n
  <2>1. g[k] = <<h[k], s[k]>>
    BY DEF g
  <2> QED BY <1>6, <2>1
<1> QED BY <1>7 DEF s, n

\* invReq.execute leaves an inventory, and the actions it had, which remember stacks.
LEMMA ExecuteType ==
  ASSUME NEW acts \in Seq(ItemActions), NEW it \in Inventories, NEW alt
  PROVE  /\ execute(acts, it, alt).items \in Inventories
         /\ execute(acts, it, alt).actions \in Seq(ItemActions)
         /\ Len(execute(acts, it, alt).actions) = Len(acts)
         /\ \A k \in 1..Len(acts) :
               execute(acts, it, alt).actions[k] = remember(acts[k], Steps(acts, it, alt)[k - 1], alt)
<1> DEFINE n == Len(acts)
           s == Steps(acts, it, alt)
           b == [i \in 1..n |-> remember(acts[i], s[i - 1], alt)]
<1>1. n \in Nat /\ \A k \in 1..n : acts[k] \in ItemActions
  OBVIOUS
<1>2. s \in [0..n -> Inventories]
  BY StepsAre
<1>3. execute(acts, it, alt).items = s[n] /\ execute(acts, it, alt).actions = b
  BY DEF execute
<1> HIDE DEF n, s
<1>4. \A k \in 1..n : b[k] \in ItemActions
  <2> TAKE k \in 1..n
  <2>1. k - 1 \in 0..n
    BY <1>1
  <2> QED BY <2>1, <1>1, <1>2, PerformType
<1>5. b \in Seq(ItemActions) /\ Len(b) = n
  BY <1>1, <1>4
<1>6. s[n] \in Inventories
  BY <1>1, <1>2
<1> QED BY <1>3, <1>5, <1>6 DEF s, n

\* Executing the executed actions on what they were executed on leads to the same.
LEMMA ExecuteAgain ==
  ASSUME NEW acts \in Seq(ItemActions), NEW it \in Inventories, NEW alt
  PROVE  LET done == execute(acts, it, alt) IN execute(done.actions, it, alt) = done
<1> DEFINE n == Len(acts)
           s == Steps(acts, it, alt)
           b == execute(acts, it, alt).actions
           t == Steps(b, it, alt)
<1>1. n \in Nat /\ \A k \in 1..n : acts[k] \in ItemActions
  OBVIOUS
<1>2. s \in [0..n -> Inventories] /\ s[0] = it /\ \A k \in 1..n : s[k] = perform(acts[k], s[k - 1], alt)
  BY StepsAre
<1>3. b \in Seq(ItemActions) /\ Len(b) = n /\ \A k \in 1..n : b[k] = remember(acts[k], s[k - 1], alt)
  BY ExecuteType
<1>4. \A k \in 1..n : s[k - 1] \in Inventories
  BY <1>1, <1>2
<1>5. execute(acts, it, alt) = [items |-> s[n], actions |-> [i \in 1..n |-> remember(acts[i], s[i - 1], alt)]]
  BY DEF execute
<1>6. execute(b, it, alt) = [items |-> t[n], actions |-> [i \in 1..n |-> remember(b[i], t[i - 1], alt)]]
  BY <1>3 DEF execute
<1> HIDE DEF n, s, b
<1>7. \A k \in 1..n : s[k] = perform(b[k], s[k - 1], alt)
  BY <1>1, <1>2, <1>3, <1>4, RememberOnce
<1>8. \A k \in 0..n : s[k] = t[k]
  <2>1. \A k \in 1..Len(b) : s[k] = perform(b[k], s[k - 1], alt)
    BY <1>3, <1>7
  <2> HIDE DEF t
  <2>3. b \in Seq(ItemActions)
    BY <1>3
  <2>4. s[0] = it
    BY <1>2
  <2>2. \A k \in 0..Len(b) : s[k] = Steps(b, it, alt)[k]
    BY <2>3, <2>4, <2>1, StepsOnly
  <2> QED BY <1>3, <2>2 DEF t
<1> HIDE DEF t
<1>9. \A k \in 1..n : remember(b[k], t[k - 1], alt) = b[k]
  <2> TAKE k \in 1..n
  <2>1. k - 1 \in 0..n
    BY <1>1
  <2>2. t[k - 1] = s[k - 1]
    BY <2>1, <1>8
  <2> QED BY <2>2, <1>1, <1>3, <1>4, RememberOnce
<1>10. [i \in 1..n |-> remember(b[i], t[i - 1], alt)] = [i \in 1..n |-> remember(acts[i], s[i - 1], alt)]
  BY <1>3, <1>9
<1>11. t[n] = s[n]
  BY <1>1, <1>8
<1> QED BY <1>5, <1>6, <1>10, <1>11 DEF b

\* What it leads to is a matter of which actions find their windows.
LEMMA ExecuteElsewhere ==
  ASSUME NEW acts \in Seq(ItemActions), NEW it \in Inventories, NEW alt, NEW alt2,
         \A k \in 1..Len(acts) : Applies(acts[k], alt) = Applies(acts[k], alt2)
  PROVE  execute(acts, it, alt) = execute(acts, it, alt2)
<1> DEFINE n == Len(acts)
           s == Steps(acts, it, alt)
           t == Steps(acts, it, alt2)
<1>1. n \in Nat
  OBVIOUS
<1>2. \A k \in 1..n : \A x : /\ perform(acts[k], x, alt) = perform(acts[k], x, alt2)
                              /\ remember(acts[k], x, alt) = remember(acts[k], x, alt2)
  BY DEF perform, remember
<1>3. t \in [0..n -> Inventories] /\ t[0] = it /\ \A k \in 1..n : t[k] = perform(acts[k], t[k - 1], alt2)
  BY StepsAre
<1> HIDE DEF t
<1>4. \A k \in 1..n : t[k] = perform(acts[k], t[k - 1], alt)
  BY <1>2, <1>3
<1>5. \A k \in 0..n : t[k] = s[k]
  BY <1>3, <1>4, StepsOnly
<1>6. execute(acts, it, alt) = [items |-> s[n], actions |-> [i \in 1..n |-> remember(acts[i], s[i - 1], alt)]]
  BY DEF execute
<1>7. execute(acts, it, alt2) = [items |-> t[n], actions |-> [i \in 1..n |-> remember(acts[i], t[i - 1], alt2)]]
  BY DEF execute, t
<1> HIDE DEF n, s
<1>8. \A k \in 1..n : t[k - 1] = s[k - 1]
  <2> TAKE k \in 1..n
  <2>1. k - 1 \in 0..n
    BY <1>1
  <2> QED BY <2>1, <1>5
<1>9. t[n] = s[n]
  BY <1>1, <1>5
<1>10. \A k \in 1..n : remember(acts[k], s[k - 1], alt) = remember(acts[k], t[k - 1], alt2)
  BY <1>2, <1>8
<1>11. [i \in 1..n |-> remember(acts[i], s[i - 1], alt)] = [i \in 1..n |-> remember(acts[i], t[i - 1], alt2)]
  BY <1>10
<1> QED BY <1>6, <1>7, <1>9, <1>11

\* revert is what its recursion says.
Undone(acts, it, alt, h) ==
    /\ h \in [0..Len(acts) -> Inventories] /\ h[0] = it
    /\ \A k \in 1..Len(acts) : h[k] = revertAction(acts[Len(acts) + 1 - k], h[k - 1], alt)

\* revert is what its recursion says: there is such a run, and it ends with the result.
LEMMA RevertIs ==
  ASSUME NEW acts \in Seq(ItemActions), NEW it \in Inventories, NEW alt
  PROVE  \E h : Undone(acts, it, alt, h) /\ revert(acts, it, alt) = h[Len(acts)]
<1> DEFINE n == Len(acts)
           turn == [k \in 1..n |-> [x \in Inventories |-> revertAction(acts[n + 1 - k], x, alt)]]
           Is(h) == h = [k \in 0..n |-> IF k = 0 THEN it ELSE revertAction(acts[n + 1 - k], h[k - 1], alt)]
           s == CHOOSE h : Is(h)
<1>1. n \in Nat /\ \A k \in 1..n : acts[k] \in ItemActions
  OBVIOUS
<1>2. \A k \in 1..n : n + 1 - k \in 1..n
  BY <1>1
<1>3. turn \in [1..n -> [Inventories -> Inventories]]
  BY <1>1, <1>2, RevertActionType
<1>4. revert(acts, it, alt) = s[n]
  BY DEF revert
<1> HIDE DEF n
<1>4a. \E g \in [0..n -> Inventories] : g[0] = it /\ \A k \in 1..n : g[k] = turn[k][g[k - 1]]
  <2> HIDE DEF turn
  <2>1. n \in Nat
    BY <1>1
  <2>2. PICK g : LoopRun(g, turn, it, n, Inventories)
    BY <2>1, <1>3, Loops
  <2> QED BY <2>2 DEF LoopRun
<1>5. PICK g \in [0..n -> Inventories] : g[0] = it /\ \A k \in 1..n : g[k] = turn[k][g[k - 1]]
  BY <1>4a
<1>6. \A k \in 1..n : g[k] = revertAction(acts[n + 1 - k], g[k - 1], alt)
  <2> TAKE k \in 1..n
  <2>1. k - 1 \in 0..n
    BY <1>1
  <2>2. g[k - 1] \in Inventories
    BY <2>1, <1>5
  <2> QED BY <1>5, <2>2
<1>7. Is(g)
  <2> DEFINE h == [k \in 0..n |-> IF k = 0 THEN it ELSE revertAction(acts[n + 1 - k], g[k - 1], alt)]
  <2>1. \A i \in 0..n : g[i] = h[i]
    <3> TAKE i \in 0..n
    <3>1. CASE i = 0
      BY <3>1, <1>5
    <3>2. CASE i # 0
      <4>1. i \in 1..n
        BY <3>2, <1>1
      <4> QED BY <4>1, <3>2, <1>6
    <3> QED BY <3>1, <3>2
  <2> QED BY <2>1, <1>5
<1>8. s = [k \in 0..n |-> IF k = 0 THEN it ELSE revertAction(acts[n + 1 - k], s[k - 1], alt)]
  <2>1. Is(s)
    BY <1>7
  <2> QED BY <2>1
<1> HIDE DEF s, Is, turn
<1>9. s[0] = it /\ \A k \in 1..n : s[k] = revertAction(acts[n + 1 - k], s[k - 1], alt)
  <2>1. 0 \in 0..n /\ \A k \in 1..n : k \in 0..n /\ k # 0
    BY <1>1
  <2> QED BY <1>8, <2>1
<1>10. \A k \in 0..n : s[k] \in Inventories
  <2>1. \A k \in 1..n : s[k - 1] \in Inventories => s[k] \in Inventories
    <3> SUFFICES ASSUME NEW k \in 1..n, s[k - 1] \in Inventories PROVE s[k] \in Inventories
      OBVIOUS
    <3>1. acts[n + 1 - k] \in ItemActions
      BY <1>1, <1>2
    <3>2. s[k] = revertAction(acts[n + 1 - k], s[k - 1], alt)
      BY <1>9
    <3> QED BY <3>1, <3>2, RevertActionType
  <2>2. s[0] \in Inventories /\ n \in Nat
    BY <1>1, <1>9
  <2> QED BY <2>1, <2>2, KeptByTurns
<1>11. s \in [0..n -> Inventories]
  BY <1>8, <1>10
<1>12. Undone(acts, it, alt, s)
  BY <1>9, <1>11 DEF Undone, n
<1> QED BY <1>4, <1>12 DEF n

\* revert leaves an inventory.
LEMMA RevertType ==
  ASSUME NEW acts \in Seq(ItemActions), NEW it \in Inventories, NEW alt
  PROVE  revert(acts, it, alt) \in Inventories
<1>1. PICK h : Undone(acts, it, alt, h) /\ revert(acts, it, alt) = h[Len(acts)]
  BY RevertIs
<1>2. Len(acts) \in 0..Len(acts)
  OBVIOUS
<1> QED BY <1>1, <1>2 DEF Undone

\* Undoing the last action first cancels what was executed.
LEMMA RevertExecuted ==
  ASSUME NEW acts \in Seq(ItemActions), NEW it \in Inventories, NEW alt,
         execute(acts, it, alt).actions = acts
  PROVE  revert(acts, execute(acts, it, alt).items, alt) = it
<1> DEFINE n == Len(acts)
           s == Steps(acts, it, alt)
           x == execute(acts, it, alt).items
           Same == {<<y, y>> : y \in Inventories}
<1>1. n \in Nat /\ \A k \in 1..n : acts[k] \in ItemActions
  OBVIOUS
<1>2. s \in [0..n -> Inventories] /\ s[0] = it /\ \A k \in 1..n : s[k] = perform(acts[k], s[k - 1], alt)
  BY StepsAre
<1>3. \A k \in 1..n : acts[k] = remember(acts[k], s[k - 1], alt)
  BY ExecuteType
<1>4. x = s[n] /\ x \in Inventories
  BY ExecuteType DEF execute
<1>5. PICK h : Undone(acts, x, alt, h) /\ revert(acts, x, alt) = h[Len(acts)]
  BY <1>4, RevertIs
<1>6. /\ h \in [0..n -> Inventories] /\ h[0] = x
      /\ \A k \in 1..n : h[k] = revertAction(acts[n + 1 - k], h[k - 1], alt)
  BY <1>5 DEF Undone
<1>7. revert(acts, x, alt) = h[n]
  BY <1>5
<1> HIDE DEF n, s, x
<1>8. \A k \in 1..n : revertAction(acts[k], s[k], alt) = s[k - 1]
  <2> TAKE k \in 1..n
  <2>1. k - 1 \in 0..n
    BY <1>1
  <2>2. s[k - 1] \in Inventories
    BY <2>1, <1>2
  <2> QED BY <2>2, <1>1, <1>2, <1>3, RevertOne
<1> DEFINE g == [k \in 0..n |-> <<h[k], s[n - k]>>]
<1>9. g[0] \in Same
  BY <1>1, <1>4, <1>6
<1>10. \A k \in 1..n : g[k - 1] \in Same => g[k] \in Same
  <2> TAKE k \in 1..n
  <2>1. /\ k - 1 \in 0..n /\ k \in 0..n /\ n + 1 - k \in 1..n /\ n - k \in 0..n
        /\ n - (k - 1) = n + 1 - k /\ (n + 1 - k) - 1 = n - k
    BY <1>1
  <2>2. g[k - 1] = <<h[k - 1], s[n + 1 - k]>> /\ g[k] = <<h[k], s[n - k]>>
    BY <2>1
  <2> HAVE g[k - 1] \in Same
  <2>3. h[k - 1] = s[n + 1 - k]
    BY <2>2
  <2>4. h[k] = s[n - k]
    BY <1>6, <1>8, <2>1, <2>3
  <2>5. s[n - k] \in Inventories
    BY <2>1, <1>2
  <2> QED BY <2>2, <2>4, <2>5
<1> HIDE DEF g
<1>11. g[n] \in Same
  <2>1. n \in Nat /\ n \in 0..n
    BY <1>1
  <2> HIDE DEF Same
  <2>2. \A k \in 0..n : g[k] \in Same
    BY <2>1, <1>9, <1>10, KeptByTurns
  <2> QED BY <2>1, <2>2
<1>12. g[n] = <<h[n], s[0]>>
  BY <1>1 DEF g
<1>13. h[n] = s[0]
  BY <1>11, <1>12
<1> QED BY <1>2, <1>7, <1>13 DEF x

-----------------------------------------------------------------------------
(* InventoryRequests: the actions of a request *)

\* The actions that write find both their windows.
Tracked(alt) == {a \in ItemActions : a.op \in Writes => /\ WindowFromContainerID(a.src, alt)
                                                        /\ WindowFromContainerID(a.dst, alt)}

\* A sequence over a set is one over a larger set.
LEMMA SeqMono ==
  ASSUME NEW S, NEW T, S \subseteq T, NEW q \in Seq(S)
  PROVE  q \in Seq(T)
<1>1. q \in [1..Len(q) -> T] /\ Len(q) \in Nat
  OBVIOUS
<1> QED BY <1>1

\* What is left of a sequence is one over the same set.
LEMMA SubSeqType ==
  ASSUME NEW S, NEW q \in Seq(S), NEW k \in Nat \ {0}
  PROVE  SubSeq(q, k, Len(q)) \in Seq(S)
OBVIOUS

\* An action as it is made.
LEMMA ActionType ==
  ASSUME NEW op \in Ops, NEW src \in Slots, NEW dst \in Slots, NEW n \in Nat, NEW st \in ItemStacks, NEW alt,
         op \in Writes => WindowFromContainerID(src, alt) /\ WindowFromContainerID(dst, alt)
  PROVE  <<Action(op, src, dst, n, st)>> \in Seq(Tracked(alt))
<1>1. Action(op, src, dst, n, st) \in ItemActions
  BY NoItemType DEF Action, ItemActions
<1>2. Action(op, src, dst, n, st) \in Tracked(alt)
  BY <1>1 DEF Action, Tracked
<1> QED BY <1>2

CraftStates == [used : SUBSET Nat, allowed : BOOLEAN, actions : Seq(Tracked(altOpen))]

\* One ingredient found, or not.
LEMMA CraftStepType ==
  ASSUME NEW acc \in CraftStates, NEW want \in ItemStacks
  PROVE  craftStep(acc, want) \in CraftStates
<1> DEFINE grid == IF altOpen THEN BigGrid ELSE SmallGrid
           fits == {i \in 1..Len(grid) : /\ i \notin acc.used
                                         /\ items[grid[i]].kind = want.kind
                                         /\ items[grid[i]].count >= want.count}
           i == CHOOSE k \in fits : \A j \in fits : k <= j
           new == Action("destroy", grid[i], grid[i], want.count, NoItem)
<1>0. grid \in Seq(UISlots) /\ want.count \in Nat
  BY SlotAssumption DEF ItemStacks
<1>1. acc.used \in SUBSET Nat /\ acc.allowed \in BOOLEAN /\ acc.actions \in Seq(Tracked(altOpen))
  BY DEF CraftStates
<1>2. craftStep(acc, want) =
        IF fits = {} THEN [acc EXCEPT !.allowed = FALSE]
        ELSE [used |-> acc.used \cup {i}, allowed |-> acc.allowed, actions |-> Append(acc.actions, new)]
  BY DEF craftStep
<1>3. CASE fits = {}
  BY <1>2, <1>3 DEF CraftStates
<1>4. CASE fits # {}
  <2>1. fits \in SUBSET Nat /\ fits \subseteq 1..Len(grid)
    BY <1>0
  <2> HIDE DEF fits
  <2>2. \E k \in fits : \A j \in fits : k <= j
    BY <1>4, <2>1, LeastNatural
  <2>3. i \in fits
    BY <2>2
  <2> HIDE DEF i, grid
  <2>4. i \in Nat /\ grid[i] \in UISlots
    BY <1>0, <2>1, <2>3
  <2>5. <<new>> \in Seq(Tracked(altOpen))
    <3>1. "destroy" \in Ops /\ grid[i] \in Slots /\ WindowFromContainerID(grid[i], altOpen)
      BY <2>4 DEF Ops, Slots, WindowFromContainerID
    <3> QED BY <1>0, <3>1, NoItemType, ActionType
  <2> HIDE DEF new
  <2>6. new \in Tracked(altOpen)
    <3>1. <<new>>[1] \in Tracked(altOpen)
      BY <2>5
    <3> QED BY <3>1
  <2>7. Append(acc.actions, new) \in Seq(Tracked(altOpen)) /\ acc.used \cup {i} \in SUBSET Nat
    BY <1>1, <2>4, <2>6
  <2> QED BY <1>1, <1>2, <1>4, <2>7 DEF CraftStates
<1> QED BY <1>3, <1>4

\* A craft destroys slots of the grid and creates at the output.
LEMMA CraftType ==
  ASSUME NEW w \in WireActions
  PROVE  craftActions(w) \in Seq(Tracked(altOpen))
<1> DEFINE n == Len(w.input)
           nothing == [used |-> {}, allowed |-> TRUE, actions |-> <<>>]
           Is(h) == h = [i \in 0..n |-> IF i = 0 THEN nothing ELSE craftStep(h[i - 1], w.input[i])]
           f == CHOOSE h : Is(h)
           turn == [k \in 1..n |-> [x \in CraftStates |-> craftStep(x, w.input[k])]]
<1>1. n \in Nat /\ (\A k \in 1..n : w.input[k] \in ItemStacks) /\ w.stack \in ItemStacks
  BY DEF WireActions
<1>2. craftActions(w) =
        f[n].actions \o (IF f[n].allowed THEN <<Action("create", OutputSlot, OutputSlot, 0, w.stack)>> ELSE <<>>)
  BY DEF craftActions
<1>3. nothing \in CraftStates
  BY DEF CraftStates
<1>4. turn \in [1..n -> [CraftStates -> CraftStates]]
  BY <1>1, CraftStepType
<1> HIDE DEF n, nothing
<1>5a. \E g \in [0..n -> CraftStates] : g[0] = nothing /\ \A k \in 1..n : g[k] = turn[k][g[k - 1]]
  <2> HIDE DEF turn
  <2>1. n \in Nat
    BY <1>1
  <2>2. PICK g : LoopRun(g, turn, nothing, n, CraftStates)
    BY <2>1, <1>3, <1>4, Loops
  <2> QED BY <2>2 DEF LoopRun
<1>5. PICK g \in [0..n -> CraftStates] : g[0] = nothing /\ \A k \in 1..n : g[k] = turn[k][g[k - 1]]
  BY <1>5a
<1>6. \A k \in 1..n : g[k] = craftStep(g[k - 1], w.input[k])
  <2> TAKE k \in 1..n
  <2>1. k - 1 \in 0..n
    BY <1>1
  <2>2. g[k - 1] \in CraftStates
    BY <2>1, <1>5
  <2> QED BY <1>5, <2>2
<1>7. Is(g)
  <2> DEFINE h == [i \in 0..n |-> IF i = 0 THEN nothing ELSE craftStep(g[i - 1], w.input[i])]
  <2>1. \A i \in 0..n : g[i] = h[i]
    <3> TAKE i \in 0..n
    <3>1. CASE i = 0
      BY <3>1, <1>5
    <3>2. CASE i # 0
      <4>1. i \in 1..n
        BY <3>2, <1>1
      <4> QED BY <4>1, <3>2, <1>6
    <3> QED BY <3>1, <3>2
  <2> QED BY <2>1, <1>5
<1>8. f = [i \in 0..n |-> IF i = 0 THEN nothing ELSE craftStep(f[i - 1], w.input[i])]
  <2>1. Is(f)
    BY <1>7
  <2> QED BY <2>1
<1> HIDE DEF f, Is, turn
<1>9. f[0] = nothing /\ \A k \in 1..n : f[k] = craftStep(f[k - 1], w.input[k])
  <2>1. 0 \in 0..n /\ \A k \in 1..n : k \in 0..n /\ k # 0
    BY <1>1
  <2> QED BY <1>8, <2>1
<1>10. f[n] \in CraftStates
  <2>1. \A k \in 1..n : f[k - 1] \in CraftStates => f[k] \in CraftStates
    BY <1>9, <1>1, CraftStepType
  <2>2. f[0] \in CraftStates
    BY <1>9, <1>3
  <2>3. n \in Nat /\ n \in 0..n
    BY <1>1
  <2>4. \A k \in 0..n : f[k] \in CraftStates
    BY <2>1, <2>2, <2>3, KeptByTurns
  <2> QED BY <2>3, <2>4
<1>11. <<Action("create", OutputSlot, OutputSlot, 0, w.stack)>> \in Seq(Tracked(altOpen))
  <2>1. "create" \in Ops /\ OutputSlot \in Slots /\ WindowFromContainerID(OutputSlot, altOpen)
    BY SlotAssumption DEF Ops, Slots, WindowFromContainerID
  <2> QED BY <1>1, <2>1, ActionType
<1>12. f[n].actions \in Seq(Tracked(altOpen))
  BY <1>10 DEF CraftStates
<1>13. <<>> \in Seq(Tracked(altOpen))
  OBVIOUS
<1>14. \A q \in Seq(Tracked(altOpen)) : f[n].actions \o q \in Seq(Tracked(altOpen))
  BY <1>12, ConcatProperties
<1> QED BY <1>2, <1>11, <1>13, <1>14

\* Each wire action becomes actions that find their windows when they are made.
LEMMA WireType ==
  ASSUME NEW w \in WireActions, NEW creative
  PROVE  wireActions(w, creative) \in Seq(Tracked(altOpen))
<1>1. /\ w.src \in Slots /\ w.dst \in Slots /\ w.count \in Nat /\ w.stack \in ItemStacks
      /\ w.op \in {"transfer", "swap", "destroy", "craft", "creative", "nop", "unknown"}
  BY DEF WireActions
<1>2. OutputSlot \in Slots /\ WindowFromContainerID(OutputSlot, altOpen)
  BY SlotAssumption DEF Slots, WindowFromContainerID
<1>3. <<>> \in Seq(Tracked(altOpen))
  OBVIOUS
<1>4. CASE w.op \in {"transfer", "swap"}
  <2>1. wireActions(w, creative) = transferActions(w)
    BY <1>4 DEF wireActions
  <2>2. w.op \in Ops
    BY <1>4 DEF Ops
  <2>3. CASE WindowFromContainerID(w.src, altOpen) /\ WindowFromContainerID(w.dst, altOpen)
    <3>1. <<Action(w.op, w.src, w.dst, w.count, NoItem)>> \in Seq(Tracked(altOpen))
      BY <1>1, <2>2, <2>3, NoItemType, ActionType
    <3> QED BY <2>1, <2>3, <3>1 DEF transferActions
  <2> QED BY <1>3, <2>1, <2>3 DEF transferActions
<1>5. CASE w.op = "destroy"
  <2>1. wireActions(w, creative) = destroyActions(w)
    BY <1>5 DEF wireActions
  <2>2. CASE WindowFromContainerID(w.src, altOpen)
    <3>1. "destroy" \in Ops
      BY DEF Ops
    <3>2. <<Action("destroy", w.src, w.src, w.count, NoItem)>> \in Seq(Tracked(altOpen))
      BY <1>1, <2>2, <3>1, NoItemType, ActionType
    <3> QED BY <2>1, <2>2, <3>2 DEF destroyActions
  <2> QED BY <1>3, <2>1, <2>2 DEF destroyActions
<1>6. CASE w.op = "craft"
  BY <1>6, CraftType DEF wireActions
<1>7. CASE w.op = "creative"
  <2>1. "create" \in Ops
    BY DEF Ops
  <2>2. <<Action("create", OutputSlot, OutputSlot, 0, w.stack)>> \in Seq(Tracked(altOpen))
    BY <1>1, <1>2, <2>1, ActionType
  <2> QED BY <1>3, <1>7, <2>2 DEF wireActions, creativeActions
<1>8. CASE w.op \in {"nop", "unknown"}
  <2>1. w.op \in Ops /\ w.op \notin Writes
    BY <1>8 DEF Ops, Writes
  <2>2. <<Action(w.op, OutputSlot, OutputSlot, 0, NoItem)>> \in Seq(Tracked(altOpen))
    BY <1>2, <2>1, NoItemType, ActionType
  <2> QED BY <1>8, <2>2 DEF wireActions
<1> QED BY <1>1, <1>4, <1>5, <1>6, <1>7, <1>8

TrackedSeqs == Seq(Tracked(altOpen))

\* All the actions of a request find their windows when it is made.
LEMMA BuildType ==
  ASSUME NEW request \in Requests, NEW creative
  PROVE  buildActions(request, creative) \in Seq(Tracked(altOpen))
<1> DEFINE n == Len(request)
           nothing == <<>>
           Is(h) == h = [i \in 0..n |-> IF i = 0 THEN nothing ELSE h[i - 1] \o wireActions(request[i], creative)]
           f == CHOOSE h : Is(h)
           turn == [k \in 1..n |-> [x \in TrackedSeqs |-> x \o wireActions(request[k], creative)]]
<1>1. n \in Nat /\ \A k \in 1..n : request[k] \in WireActions
  BY RequestAssumption
<1>2. buildActions(request, creative) = f[n]
  BY DEF buildActions
<1>3. nothing \in TrackedSeqs
  BY DEF TrackedSeqs
<1> HIDE DEF n, nothing
<1>4. \A k \in 1..n : \A x \in TrackedSeqs : x \o wireActions(request[k], creative) \in TrackedSeqs
  BY <1>1, WireType, ConcatProperties DEF TrackedSeqs
<1>5. turn \in [1..n -> [TrackedSeqs -> TrackedSeqs]]
  BY <1>4
<1>6a. \E g \in [0..n -> TrackedSeqs] : g[0] = nothing /\ \A k \in 1..n : g[k] = turn[k][g[k - 1]]
  <2> HIDE DEF turn
  <2>1. n \in Nat
    BY <1>1
  <2>2. nothing \in TrackedSeqs
    BY <1>3
  <2>3. turn \in [1..n -> [TrackedSeqs -> TrackedSeqs]]
    BY <1>5
  <2>4. PICK g : LoopRun(g, turn, nothing, n, TrackedSeqs)
    BY <2>1, <2>2, <2>3, Loops
  <2> QED BY <2>4 DEF LoopRun
<1>6. PICK g \in [0..n -> TrackedSeqs] : g[0] = nothing /\ \A k \in 1..n : g[k] = turn[k][g[k - 1]]
  BY <1>6a
<1>7. \A k \in 1..n : g[k] = g[k - 1] \o wireActions(request[k], creative)
  <2> TAKE k \in 1..n
  <2>1. k - 1 \in 0..n
    BY <1>1
  <2>2. g[k - 1] \in TrackedSeqs
    BY <2>1, <1>6
  <2> QED BY <1>6, <2>2
<1>8. Is(g)
  <2> DEFINE h == [i \in 0..n |-> IF i = 0 THEN nothing ELSE g[i - 1] \o wireActions(request[i], creative)]
  <2>1. \A i \in 0..n : g[i] = h[i]
    <3> TAKE i \in 0..n
    <3>1. CASE i = 0
      BY <3>1, <1>6
    <3>2. CASE i # 0
      <4>1. i \in 1..n
        BY <3>2, <1>1
      <4>2. h[i] = g[i - 1] \o wireActions(request[i], creative)
        BY <3>2
      <4>3. g[i] = g[i - 1] \o wireActions(request[i], creative)
        BY <4>1, <1>7
      <4> QED BY <4>2, <4>3
    <3> QED BY <3>1, <3>2
  <2> QED BY <2>1, <1>6
<1>9. f = [i \in 0..n |-> IF i = 0 THEN nothing ELSE f[i - 1] \o wireActions(request[i], creative)]
  <2>1. Is(f)
    BY <1>8
  <2> QED BY <2>1
<1> HIDE DEF f, Is, turn
<1>10. f[0] = nothing /\ \A k \in 1..n : f[k] = f[k - 1] \o wireActions(request[k], creative)
  <2>1. 0 \in 0..n /\ \A k \in 1..n : k \in 0..n /\ k # 0
    BY <1>1
  <2> QED BY <1>9, <2>1
<1>11. \A k \in 1..n : f[k - 1] \in TrackedSeqs => f[k] \in TrackedSeqs
  BY <1>4, <1>10
<1>12. f[0] \in TrackedSeqs
  BY <1>3, <1>10
<1>13. n \in Nat /\ n \in 0..n
  BY <1>1
<1>14. \A k \in 0..n : f[k] \in TrackedSeqs
  BY <1>11, <1>12, <1>13, KeptByTurns
<1> QED BY <1>2, <1>13, <1>14 DEF TrackedSeqs

-----------------------------------------------------------------------------
(* InventoryRequests: the chain and the state the responses work on *)

\* Request objects when n were made and m ids used.
RequestObjects(n, m) == [id : 0..m, prev : 0..n, next : 0..n, actions : Seq(ItemActions)]

StateTypes(n, m) ==
    [items : Inventories, reqs : [1..n -> RequestObjects(n, m)], first : 0..n, current : 0..n,
     syncPending : BOOLEAN, mismatches : Nat, panicked : BOOLEAN, confirmed : Inventories,
     mixed : BOOLEAN, skipped : BOOLEAN, returned : BOOLEAN]

\* The pending requests are those from f to the last one made, linked both ways, with
\* increasing ids.
Linked(rs, f, c, n) ==
    \/ f = 0 /\ c = 0
    \/ /\ f \in 1..n /\ c = n
       /\ \A i \in f..n : /\ rs[i].prev = IF i = f THEN 0 ELSE i - 1
                          /\ rs[i].next = IF i = n THEN 0 ELSE i + 1
                          /\ i < n => rs[i].id < rs[i + 1].id

\* g is the inventory after each of the pending requests: from what is confirmed to
\* what is predicted, each request remembering what it found.
Runs(g, it, rs, f, n, cf, alt) ==
    /\ g \in [Nat -> Inventories] /\ g[f - 1] = cf /\ g[n] = it
    /\ \A i \in f..n : /\ g[i] = execute(rs[i].actions, g[i - 1], alt).items
                       /\ rs[i].actions = execute(rs[i].actions, g[i - 1], alt).actions

Predicted(it, rs, f, n, cf, alt) ==
    IF f = 0 THEN it = cf
    ELSE /\ \A i \in f..n : rs[i].actions \in Seq(Tracked(alt))
         /\ \E g : Runs(g, it, rs, f, n, cf, alt)

\* What holds before and after each response.
InOrder(s, n) ==
    /\ Linked(s.reqs, s.first, s.current, n)
    /\ ~s.panicked
    /\ s.mismatches = IF s.syncPending THEN 1 ELSE 0
    /\ ~s.mixed /\ ~s.skipped => Predicted(s.items, s.reqs, s.first, n, s.confirmed, altOpen)
SoundStates(n, m) == {s \in StateTypes(n, m) : InOrder(s, n)}

\* The fields of the record the responses work on.
LEMMA StateFields ==
  ASSUME NEW n \in Nat, NEW m \in Nat, NEW s \in StateTypes(n, m)
  PROVE  /\ s.items \in Inventories /\ s.reqs \in [1..n -> RequestObjects(n, m)]
         /\ s.first \in 0..n /\ s.current \in 0..n /\ s.syncPending \in BOOLEAN /\ s.mismatches \in Nat
         /\ s.panicked \in BOOLEAN /\ s.confirmed \in Inventories /\ s.mixed \in BOOLEAN
         /\ s.skipped \in BOOLEAN /\ s.returned \in BOOLEAN
BY DEF StateTypes

\* ForceSync touches two fields and keeps them in step.
LEMMA ForceSyncKeeps ==
  ASSUME NEW n \in Nat, NEW m \in Nat, NEW s \in StateTypes(n, m),
         s.mismatches = IF s.syncPending THEN 1 ELSE 0
  PROVE  LET t == ForceSync(s)
         IN  /\ t \in StateTypes(n, m)
             /\ t.mismatches = IF t.syncPending THEN 1 ELSE 0
             /\ t.items = s.items /\ t.reqs = s.reqs /\ t.first = s.first /\ t.current = s.current
             /\ t.panicked = s.panicked /\ t.confirmed = s.confirmed /\ t.mixed = s.mixed
             /\ t.skipped = s.skipped /\ t.returned = s.returned
<1>1. CASE s.syncPending
  BY <1>1 DEF ForceSync
<1>2. CASE ~s.syncPending
  <2> DEFINE t == [s EXCEPT !.syncPending = TRUE, !.mismatches = @ + 1]
  <2>1. ForceSync(s) = t
    BY <1>2 DEF ForceSync
  <2>2. s.mismatches + 1 = 1 /\ s.mismatches + 1 \in Nat
    BY <1>2
  <2>3. /\ t.syncPending = TRUE /\ t.mismatches = s.mismatches + 1
        /\ t.items = s.items /\ t.reqs = s.reqs /\ t.first = s.first /\ t.current = s.current
        /\ t.panicked = s.panicked /\ t.confirmed = s.confirmed /\ t.mixed = s.mixed
        /\ t.skipped = s.skipped /\ t.returned = s.returned
    BY DEF StateTypes
  <2>4. t \in StateTypes(n, m)
    BY <2>2 DEF StateTypes
  <2> QED BY <2>1, <2>2, <2>3, <2>4
<1> QED BY <1>1, <1>2

\* The head leaves: the rest stays linked, and keeps its actions.
LEMMA PopFirstKeeps ==
  ASSUME NEW n \in Nat, NEW m \in Nat, NEW s \in StateTypes(n, m), s.first # 0,
         Linked(s.reqs, s.first, s.current, n)
  PROVE  LET t == popFirst(s)
         IN  /\ t \in StateTypes(n, m)
             /\ Linked(t.reqs, t.first, t.current, n)
             /\ t.first = IF s.first = n THEN 0 ELSE s.first + 1
             /\ \A i \in (s.first + 1)..n : t.reqs[i].actions = s.reqs[i].actions
             /\ t.mismatches = s.mismatches /\ t.syncPending = s.syncPending
             /\ t.items = s.items
             /\ t.panicked = s.panicked /\ t.confirmed = s.confirmed /\ t.mixed = s.mixed
             /\ t.skipped = s.skipped /\ t.returned = s.returned
<1> DEFINE f == s.first
           t == popFirst(s)
<1>1. f \in 1..n /\ s.current = n /\ f \in Nat /\ f <= n
  BY DEF Linked
<1>2. \A i \in f..n : /\ s.reqs[i].prev = IF i = f THEN 0 ELSE i - 1
                      /\ s.reqs[i].next = IF i = n THEN 0 ELSE i + 1
                      /\ i < n => s.reqs[i].id < s.reqs[i + 1].id
  BY <1>1 DEF Linked
<1>3. s.reqs \in [1..n -> RequestObjects(n, m)]
  BY StateFields
<1>4. Closed \in RequestObjects(n, m)
  BY DEF Closed, RequestObjects
<1>5. CASE f = n
  <2> DEFINE rs == [s.reqs EXCEPT ![f] = Closed]
             u == [s EXCEPT !.reqs = rs, !.first = 0, !.current = 0]
  <2>1. t = u
    BY <1>1, <1>5 DEF popFirst
  <2>2. rs \in [1..n -> RequestObjects(n, m)] /\ 0 \in 0..n
    BY <1>1, <1>3, <1>4
  <2> HIDE DEF rs
  <2>3. u \in StateTypes(n, m)
    BY <2>2 DEF StateTypes
  <2>4. /\ u.first = 0 /\ u.current = 0
        /\ u.mismatches = s.mismatches /\ u.syncPending = s.syncPending
        /\ u.items = s.items
        /\ u.panicked = s.panicked /\ u.confirmed = s.confirmed /\ u.mixed = s.mixed
        /\ u.skipped = s.skipped /\ u.returned = s.returned
    BY DEF StateTypes
  <2>5. Linked(u.reqs, u.first, u.current, n)
    BY <2>4 DEF Linked
  <2>6. \A i \in (f + 1)..n : FALSE
    BY <1>1, <1>5
  <2> QED BY <1>5, <2>1, <2>3, <2>4, <2>5, <2>6
<1>6. CASE f # n
  <2> DEFINE next == s.reqs[f].next
             rs == [s.reqs EXCEPT ![f + 1].prev = 0, ![f] = Closed]
             u == [s EXCEPT !.reqs = rs, !.first = f + 1]
  <2>1. next = f + 1 /\ f + 1 \in 1..n /\ f + 1 \in 0..n /\ f # f + 1
    BY <1>1, <1>2, <1>6
  <2>2. t = [s EXCEPT !.reqs[next].prev = 0, !.reqs[f] = Closed, !.first = next]
    BY <1>1, <1>6 DEF popFirst
  <2>3. t = u
    BY <2>1, <2>2
  <2>4. [s.reqs[f + 1] EXCEPT !.prev = 0] \in RequestObjects(n, m)
    <3>1. s.reqs[f + 1] \in RequestObjects(n, m) /\ 0 \in 0..n
      BY <2>1, <1>3
    <3> QED BY <3>1 DEF RequestObjects
  <2>5. /\ rs \in [1..n -> RequestObjects(n, m)]
        /\ rs[f + 1] = [s.reqs[f + 1] EXCEPT !.prev = 0]
        /\ \A i \in 1..n : i # f /\ i # f + 1 => rs[i] = s.reqs[i]
    BY <1>1, <1>3, <1>4, <2>1, <2>4
  <2> HIDE DEF rs
  <2>6. /\ rs[f + 1].prev = 0 /\ rs[f + 1].next = s.reqs[f + 1].next
        /\ rs[f + 1].id = s.reqs[f + 1].id /\ rs[f + 1].actions = s.reqs[f + 1].actions
    <3>1. s.reqs[f + 1] \in RequestObjects(n, m)
      BY <2>1, <1>3
    <3> DEFINE o == s.reqs[f + 1]
    <3>2. /\ [o EXCEPT !.prev = 0].prev = 0 /\ [o EXCEPT !.prev = 0].next = o.next
          /\ [o EXCEPT !.prev = 0].id = o.id /\ [o EXCEPT !.prev = 0].actions = o.actions
      BY <3>1 DEF RequestObjects
    <3> QED BY <3>2, <2>5
  <2>7. u \in StateTypes(n, m)
    BY <2>1, <2>5 DEF StateTypes
  <2>8. /\ u.reqs = rs /\ u.first = f + 1 /\ u.current = s.current
        /\ u.mismatches = s.mismatches /\ u.syncPending = s.syncPending
        /\ u.items = s.items
        /\ u.panicked = s.panicked /\ u.confirmed = s.confirmed /\ u.mixed = s.mixed
        /\ u.skipped = s.skipped /\ u.returned = s.returned
    BY DEF StateTypes
  <2> HIDE DEF u, f
  <2>9. \A i \in (f + 1)..n : /\ rs[i].next = s.reqs[i].next /\ rs[i].id = s.reqs[i].id
                              /\ rs[i].actions = s.reqs[i].actions
                              /\ rs[i].prev = IF i = f + 1 THEN 0 ELSE s.reqs[i].prev
    <3> TAKE i \in (f + 1)..n
    <3>1. i \in 1..n /\ i # f
      BY <1>1
    <3> QED BY <2>5, <2>6, <3>1
  <2>10. \A i \in (f + 1)..n : /\ rs[i].prev = IF i = f + 1 THEN 0 ELSE i - 1
                               /\ rs[i].next = IF i = n THEN 0 ELSE i + 1
                               /\ i < n => rs[i].id < rs[i + 1].id
    <3> TAKE i \in (f + 1)..n
    <3>1. i \in f..n /\ i # f /\ (i < n => i + 1 \in (f + 1)..n)
      BY <1>1
    <3> QED BY <1>2, <2>9, <3>1
  <2>11. Linked(u.reqs, u.first, u.current, n)
    BY <1>1, <2>1, <2>8, <2>10 DEF Linked
  <2> QED BY <1>6, <2>3, <2>7, <2>8, <2>9, <2>11 DEF f
<1> QED BY <1>5, <1>6

\* An accepted head: what it did is confirmed.
LEMMA AcceptKeeps ==
  ASSUME NEW n \in Nat, NEW m \in Nat, NEW s \in SoundStates(n, m), s.first # 0
  PROVE  popFirst(accept(s)) \in SoundStates(n, m) /\ ~accept(s).panicked
<1> DEFINE f == s.first
           r == s.reqs[f]
           cf == execute(r.actions, s.confirmed, altOpen).items
           u == [s EXCEPT !.panicked = r.prev # 0, !.confirmed = cf]
           t == popFirst(u)
<1>1. s \in StateTypes(n, m) /\ InOrder(s, n)
  BY DEF SoundStates
<1>2. accept(s) = u
  BY DEF accept
<1>3. f \in 1..n /\ s.current = n /\ r.prev = 0
  BY <1>1 DEF InOrder, Linked
<1>4. r \in RequestObjects(n, m) /\ s.confirmed \in Inventories
  BY <1>1, <1>3, StateFields
<1>5. r.actions \in Seq(ItemActions)
  BY <1>4 DEF RequestObjects
<1>6. cf \in Inventories
  BY <1>4, <1>5, ExecuteType
<1> HIDE DEF cf, r
<1>7. u \in StateTypes(n, m)
  BY <1>1, <1>6 DEF StateTypes
<1>8. /\ u.panicked = FALSE /\ u.confirmed = cf
      /\ u.items = s.items /\ u.reqs = s.reqs /\ u.first = s.first /\ u.current = s.current
      /\ u.mismatches = s.mismatches /\ u.syncPending = s.syncPending
      /\ u.mixed = s.mixed /\ u.skipped = s.skipped /\ u.returned = s.returned
  BY <1>1, <1>3 DEF StateTypes
<1> HIDE DEF u
<1>9. Linked(u.reqs, u.first, u.current, n) /\ u.first # 0
  BY <1>1, <1>8 DEF InOrder
<1>10. /\ t \in StateTypes(n, m)
       /\ Linked(t.reqs, t.first, t.current, n)
       /\ t.first = IF f = n THEN 0 ELSE f + 1
       /\ \A i \in (f + 1)..n : t.reqs[i].actions = s.reqs[i].actions
       /\ t.mismatches = s.mismatches /\ t.syncPending = s.syncPending
       /\ t.items = s.items
       /\ t.panicked = FALSE /\ t.confirmed = cf /\ t.mixed = s.mixed
       /\ t.skipped = s.skipped
  BY <1>7, <1>8, <1>9, PopFirstKeeps
<1> HIDE DEF t, f
<1>11. ASSUME ~s.mixed, ~s.skipped
       PROVE  Predicted(t.items, t.reqs, t.first, n, t.confirmed, altOpen)
  <2>1. Predicted(s.items, s.reqs, f, n, s.confirmed, altOpen) /\ f # 0
    BY <1>1, <1>3, <1>11 DEF InOrder, f
  <2>2. PICK g : Runs(g, s.items, s.reqs, f, n, s.confirmed, altOpen)
    BY <2>1 DEF Predicted
  <2>3. /\ g \in [Nat -> Inventories] /\ g[f - 1] = s.confirmed /\ g[n] = s.items
        /\ \A i \in f..n : /\ g[i] = execute(s.reqs[i].actions, g[i - 1], altOpen).items
                           /\ s.reqs[i].actions = execute(s.reqs[i].actions, g[i - 1], altOpen).actions
    BY <2>2 DEF Runs
  <2>4. g[f] = cf
    <3>1. f \in f..n
      BY <1>3
    <3> QED BY <2>3, <3>1 DEF cf, r
  <2>5. CASE f = n
    BY <1>10, <2>3, <2>4, <2>5 DEF Predicted
  <2>6. CASE f # n
    <3>1. t.first = f + 1 /\ f + 1 # 0 /\ (f + 1) - 1 = f /\ \A i \in (f + 1)..n : i \in f..n
      BY <1>3, <1>10, <2>6
    <3>2. Runs(g, t.items, t.reqs, t.first, n, t.confirmed, altOpen)
      BY <1>10, <2>3, <2>4, <3>1 DEF Runs
    <3>3. \A i \in (f + 1)..n : t.reqs[i].actions \in Seq(Tracked(altOpen))
      <4>1. \A i \in f..n : s.reqs[i].actions \in Seq(Tracked(altOpen))
        BY <2>1 DEF Predicted
      <4> QED BY <1>10, <3>1, <4>1
    <3> QED BY <3>1, <3>2, <3>3 DEF Predicted
  <2> QED BY <2>5, <2>6
<1>12. InOrder(t, n)
  BY <1>1, <1>10, <1>11 DEF InOrder
<1>13. t \in SoundStates(n, m)
  BY <1>10, <1>12 DEF SoundStates
<1> QED BY <1>2, <1>8, <1>13 DEF t

\* A rejected head: what it did is undone; the history says when others followed it.
LEMMA RejectKeeps ==
  ASSUME NEW n \in Nat, NEW m \in Nat, NEW s \in SoundStates(n, m), s.first # 0
  PROVE  popFirst(reject(s)) \in SoundStates(n, m) /\ ~reject(s).panicked
<1> DEFINE f == s.first
           r == s.reqs[f]
           undone == revert(r.actions, s.items, altOpen)
           again == execute(s.reqs[r.next].actions, undone, altOpen)
           closed == [s EXCEPT !.items = undone]
           synced == IF \E i \in DOMAIN r.actions : r.actions[i].op = "unknown"
                     THEN ForceSync(closed) ELSE closed
           u == reject(s)
           t == popFirst(u)
<1>1. s \in StateTypes(n, m) /\ InOrder(s, n)
  BY DEF SoundStates
<1>2. u = IF r.next = 0 THEN synced
          ELSE [synced EXCEPT !.items = again.items, !.skipped = TRUE,
                              !.reqs[r.next].actions = again.actions]
  BY DEF reject
<1>3. f \in 1..n /\ s.current = n /\ r.next = (IF f = n THEN 0 ELSE f + 1)
  BY <1>1 DEF InOrder, Linked
<1>4. r \in RequestObjects(n, m) /\ s.items \in Inventories /\ s.reqs \in [1..n -> RequestObjects(n, m)]
  BY <1>1, <1>3, StateFields
<1>5. r.actions \in Seq(ItemActions)
  BY <1>4 DEF RequestObjects
<1>6. undone \in Inventories
  BY <1>4, <1>5, RevertType
<1> HIDE DEF undone
<1>7. closed \in StateTypes(n, m)
  BY <1>1, <1>6 DEF StateTypes
<1>8. /\ closed.items = undone
      /\ closed.panicked = s.panicked /\ closed.confirmed = s.confirmed
      /\ closed.reqs = s.reqs /\ closed.first = s.first /\ closed.current = s.current
      /\ closed.mismatches = s.mismatches /\ closed.syncPending = s.syncPending
      /\ closed.mixed = s.mixed /\ closed.skipped = s.skipped /\ closed.returned = s.returned
  BY <1>1 DEF StateTypes
<1> HIDE DEF closed
<1>8a. s.mismatches = IF s.syncPending THEN 1 ELSE 0
  BY <1>1 DEF InOrder
<1>9. closed.mismatches = IF closed.syncPending THEN 1 ELSE 0
  BY <1>8, <1>8a, Zenon
<1>10. /\ synced \in StateTypes(n, m)
       /\ synced.mismatches = IF synced.syncPending THEN 1 ELSE 0
       /\ synced.items = undone /\ synced.reqs = s.reqs /\ synced.first = f /\ synced.current = n
       /\ synced.panicked = FALSE /\ synced.confirmed = s.confirmed /\ synced.mixed = s.mixed
       /\ synced.skipped = s.skipped
  <2>1. s.panicked = FALSE
    BY <1>1, StateFields DEF InOrder
  <2>2. CASE synced = closed
    BY <1>3, <1>7, <1>8, <1>9, <2>1, <2>2
  <2>3. CASE synced = ForceSync(closed)
    <3>1. /\ ForceSync(closed) \in StateTypes(n, m)
          /\ ForceSync(closed).mismatches = IF ForceSync(closed).syncPending THEN 1 ELSE 0
          /\ ForceSync(closed).items = closed.items /\ ForceSync(closed).reqs = closed.reqs
          /\ ForceSync(closed).first = closed.first /\ ForceSync(closed).current = closed.current
          /\ ForceSync(closed).panicked = closed.panicked /\ ForceSync(closed).confirmed = closed.confirmed
          /\ ForceSync(closed).mixed = closed.mixed /\ ForceSync(closed).skipped = closed.skipped
      BY <1>7, <1>9, ForceSyncKeeps
    <3> HIDE DEF synced
    <3> QED BY <1>3, <1>8, <2>1, <2>3, <3>1
  <2> QED BY <2>2, <2>3
<1> HIDE DEF synced
<1>11. CASE f = n
  <2>1. u = synced
    BY <1>2, <1>3, <1>11
  <2>2. Linked(u.reqs, u.first, u.current, n) /\ u.first # 0
    BY <1>1, <1>3, <1>10, <2>1 DEF InOrder
  <2> HIDE DEF u
  <2>3. /\ t \in StateTypes(n, m)
        /\ Linked(t.reqs, t.first, t.current, n)
        /\ t.first = IF u.first = n THEN 0 ELSE u.first + 1
        /\ t.mismatches = u.mismatches /\ t.syncPending = u.syncPending
        /\ t.items = u.items
        /\ t.panicked = u.panicked /\ t.confirmed = u.confirmed /\ t.mixed = u.mixed
        /\ t.skipped = u.skipped
    BY <1>10, <2>1, <2>2, PopFirstKeeps
  <2> HIDE DEF t
  <2>4. ASSUME ~s.mixed, ~s.skipped
        PROVE  undone = s.confirmed
    <3>1. Predicted(s.items, s.reqs, f, n, s.confirmed, altOpen) /\ f # 0
      BY <1>1, <1>3, <2>4 DEF InOrder
    <3>2. PICK g : Runs(g, s.items, s.reqs, f, n, s.confirmed, altOpen)
      BY <3>1 DEF Predicted
    <3>3. f \in f..n
      BY <1>3
    <3>4. /\ g[f - 1] = s.confirmed /\ g[n] = s.items
          /\ g[f] = execute(r.actions, g[f - 1], altOpen).items
          /\ r.actions = execute(r.actions, g[f - 1], altOpen).actions
      BY <3>2, <3>3 DEF Runs
    <3>5. s.items = execute(r.actions, s.confirmed, altOpen).items
          /\ r.actions = execute(r.actions, s.confirmed, altOpen).actions
      BY <3>4, <1>11
    <3>6. s.confirmed \in Inventories
      BY <1>1, StateFields
    <3> QED BY <1>5, <3>5, <3>6, RevertExecuted DEF undone
  <2>5. ~t.mixed /\ ~t.skipped => Predicted(t.items, t.reqs, t.first, n, t.confirmed, altOpen)
    <3>1. t.first = 0 /\ t.items = undone /\ t.confirmed = s.confirmed /\ t.mixed = s.mixed /\ t.skipped = s.skipped
      BY <1>10, <1>11, <2>1, <2>3
    <3> QED BY <2>4, <3>1 DEF Predicted
  <2>6. InOrder(t, n)
    BY <1>10, <2>1, <2>3, <2>5 DEF InOrder
  <2>7. t \in SoundStates(n, m) /\ ~u.panicked
    BY <1>10, <2>1, <2>3, <2>6 DEF SoundStates
  <2> QED BY <2>7 DEF t, u
<1>12. CASE f # n
  <2> DEFINE x == again.actions
             rs == [s.reqs EXCEPT ![f + 1].actions = x]
             v == [synced EXCEPT !.items = again.items, !.skipped = TRUE, !.reqs = rs]
  <2>1. r.next = f + 1 /\ f + 1 \in 1..n /\ f + 1 # 0
    BY <1>3, <1>12
  <2>2. s.reqs[f + 1] \in RequestObjects(n, m)
    BY <1>4, <2>1
  <2>3. s.reqs[f + 1].actions \in Seq(ItemActions)
    BY <2>2 DEF RequestObjects
  <2>4. again.items \in Inventories /\ x \in Seq(ItemActions)
    BY <1>6, <2>1, <2>3, ExecuteType
  <2> HIDE DEF again
  <2>5. u = [synced EXCEPT !.items = again.items, !.skipped = TRUE, !.reqs[f + 1].actions = x]
    BY <1>2, <2>1
  <2>6. u = v
    BY <1>10, <2>5
  <2> HIDE DEF x, u
  <2>7. [s.reqs[f + 1] EXCEPT !.actions = x] \in RequestObjects(n, m)
    BY <2>2, <2>4 DEF RequestObjects
  <2>8. /\ rs \in [1..n -> RequestObjects(n, m)]
        /\ rs[f + 1] = [s.reqs[f + 1] EXCEPT !.actions = x]
        /\ \A i \in 1..n : i # f + 1 => rs[i] = s.reqs[i]
    BY <1>4, <2>1, <2>7
  <2>9. \A i \in 1..n : rs[i].prev = s.reqs[i].prev /\ rs[i].next = s.reqs[i].next /\ rs[i].id = s.reqs[i].id
    <3>1. /\ rs[f + 1].prev = s.reqs[f + 1].prev /\ rs[f + 1].next = s.reqs[f + 1].next
          /\ rs[f + 1].id = s.reqs[f + 1].id
      BY <2>2, <2>8 DEF RequestObjects
    <3> HIDE DEF rs
    <3> QED BY <2>8, <3>1
  <2> HIDE DEF rs
  <2>10. /\ v \in StateTypes(n, m)
         /\ v.items = again.items /\ v.skipped = TRUE /\ v.reqs = rs
         /\ v.first = synced.first /\ v.current = synced.current /\ v.mismatches = synced.mismatches
         /\ v.syncPending = synced.syncPending /\ v.panicked = synced.panicked
    BY <1>10, <2>4, <2>8 DEF StateTypes
  <2> HIDE DEF v, f
  <2>11. Linked(rs, f, n, n)
    <3>1. \A i \in f..n : /\ s.reqs[i].prev = IF i = f THEN 0 ELSE i - 1
                          /\ s.reqs[i].next = IF i = n THEN 0 ELSE i + 1
                          /\ i < n => s.reqs[i].id < s.reqs[i + 1].id
      BY <1>1, <1>3 DEF InOrder, Linked, f
    <3>2. \A i \in f..n : i \in 1..n /\ (i < n => i + 1 \in 1..n)
      BY <1>3
    <3> QED BY <1>3, <2>9, <3>1, <3>2 DEF Linked
  <2>12. Linked(u.reqs, u.first, u.current, n) /\ u.first # 0
    BY <1>3, <1>10, <2>6, <2>10, <2>11
  <2>13. /\ t \in StateTypes(n, m)
         /\ Linked(t.reqs, t.first, t.current, n)
         /\ t.mismatches = u.mismatches /\ t.syncPending = u.syncPending
         /\ t.panicked = u.panicked /\ t.skipped = u.skipped
    BY <2>6, <2>10, <2>12, PopFirstKeeps
  <2> HIDE DEF t
  <2>14. InOrder(t, n)
    BY <1>10, <2>6, <2>10, <2>13 DEF InOrder
  <2>15. t \in SoundStates(n, m) /\ ~u.panicked
    BY <1>10, <2>6, <2>10, <2>13, <2>14 DEF SoundStates
  <2> QED BY <2>15 DEF t, u
<1> QED BY <1>11, <1>12

\* One response keeps it all.
LEMMA RespondKeeps ==
  ASSUME NEW n \in Nat, NEW m \in Nat, NEW s \in SoundStates(n, m), NEW response
  PROVE  respond(s, response) \in SoundStates(n, m)
<1>1. s \in StateTypes(n, m) /\ InOrder(s, n)
  BY DEF SoundStates
<1>2. CASE s.returned \/ s.panicked
  BY <1>2 DEF respond
<1>3. CASE ~(s.returned \/ s.panicked) /\ s.first = 0
  <2> DEFINE t == ForceSync(s)
  <2>1. respond(s, response) = t
    BY <1>3 DEF respond
  <2>2. /\ t \in StateTypes(n, m)
        /\ t.mismatches = IF t.syncPending THEN 1 ELSE 0
        /\ t.items = s.items /\ t.reqs = s.reqs /\ t.first = s.first /\ t.current = s.current
        /\ t.panicked = s.panicked /\ t.confirmed = s.confirmed /\ t.mixed = s.mixed
        /\ t.skipped = s.skipped
    BY <1>1, ForceSyncKeeps DEF InOrder
  <2> HIDE DEF t
  <2>3. InOrder(t, n)
    BY <1>1, <2>2 DEF InOrder
  <2> QED BY <2>1, <2>2, <2>3 DEF SoundStates
<1>4. CASE ~(s.returned \/ s.panicked) /\ s.first # 0 /\ response.id # s.reqs[s.first].id
  <2> DEFINE t == [s EXCEPT !.returned = TRUE]
  <2>1. respond(s, response) = t
    BY <1>4 DEF respond
  <2>2. /\ t \in StateTypes(n, m)
        /\ t.mismatches = s.mismatches /\ t.syncPending = s.syncPending
        /\ t.items = s.items /\ t.reqs = s.reqs /\ t.first = s.first /\ t.current = s.current
        /\ t.panicked = s.panicked /\ t.confirmed = s.confirmed /\ t.mixed = s.mixed
        /\ t.skipped = s.skipped
    BY <1>1 DEF StateTypes
  <2> HIDE DEF t
  <2>3. InOrder(t, n)
    BY <1>1, <2>2 DEF InOrder
  <2> QED BY <2>1, <2>2, <2>3 DEF SoundStates
<1>5. CASE ~(s.returned \/ s.panicked) /\ s.first # 0 /\ response.id = s.reqs[s.first].id
  <2>1. respond(s, response) = LET judged == IF response.ok THEN accept(s) ELSE reject(s)
                               IN  IF judged.panicked THEN judged ELSE popFirst(judged)
    BY <1>5 DEF respond
  <2> QED BY <1>5, <2>1, AcceptKeeps, RejectKeeps
<1> QED BY <1>2, <1>3, <1>4, <1>5

\* A loop over the first n responses of q.
Responded(g, q, s0, n, S) ==
    g \in [0..n -> S] /\ g[0] = s0 /\ \A k \in 1..n : g[k] = respond(g[k - 1], q[k])

\* The loop over the responses has a state after each.
LEMMA RespondTurns ==
  ASSUME NEW size \in Nat, NEW m \in Nat, NEW n \in Nat, NEW q, NEW s0 \in SoundStates(size, m)
  PROVE  \E g : Responded(g, q, s0, n, SoundStates(size, m))
<1> DEFINE turn == [k \in 1..n |-> [x \in SoundStates(size, m) |-> respond(x, q[k])]]
<1>1. turn \in [1..n -> [SoundStates(size, m) -> SoundStates(size, m)]]
  BY RespondKeeps
<1>2. \E g \in [0..n -> SoundStates(size, m)] : g[0] = s0 /\ \A k \in 1..n : g[k] = turn[k][g[k - 1]]
  <2> HIDE DEF turn
  <2>1. PICK g : LoopRun(g, turn, s0, n, SoundStates(size, m))
    BY <1>1, Loops
  <2> QED BY <2>1 DEF LoopRun
<1>3. PICK g \in [0..n -> SoundStates(size, m)] : g[0] = s0 /\ \A k \in 1..n : g[k] = turn[k][g[k - 1]]
  BY <1>2
<1>4. \A k \in 1..n : g[k] = respond(g[k - 1], q[k])
  <2> TAKE k \in 1..n
  <2>1. k - 1 \in 0..n
    OBVIOUS
  <2>2. g[k - 1] \in SoundStates(size, m)
    BY <2>1, <1>3
  <2> QED BY <1>3, <2>2
<1>5. Responded(g, q, s0, n, SoundStates(size, m))
  BY <1>3, <1>4 DEF Responded
<1> QED BY <1>5

\* A packet of responses keeps it all: the state it leads to.
LEMMA ResponsesKeep ==
  ASSUME NEW size \in Nat, NEW m \in Nat, State \in SoundStates(size, m), NEW n \in Nat, NEW ok,
         HandleItemStackResponse(n, ok)
  PROVE  \E s \in SoundStates(size, m) :
            /\ items' = s.items /\ reqs' = s.reqs /\ first' = s.first /\ current' = s.current
            /\ syncPending' = s.syncPending /\ mismatches' = s.mismatches
            /\ panicked' = s.panicked
            /\ HistoryAfter(s.items, s.confirmed, s.mixed, s.skipped, s.first)
<1> DEFINE Is(h) == h = [i \in 0..n |-> IF i = 0 THEN State
                                        ELSE respond(h[i - 1], [id |-> unanswered[i], ok |-> ok[i]])]
           f == CHOOSE h : Is(h)
           S0 == SoundStates(size, m)
<1>1. /\ items' = f[n].items /\ reqs' = f[n].reqs /\ first' = f[n].first /\ current' = f[n].current
      /\ syncPending' = f[n].syncPending /\ mismatches' = f[n].mismatches
      /\ panicked' = f[n].panicked
      /\ HistoryAfter(f[n].items, f[n].confirmed, f[n].mixed, f[n].skipped, f[n].first)
  BY DEF HandleItemStackResponse
<1>2. \A k \in 1..n : \A x \in S0 : respond(x, [id |-> unanswered[k], ok |-> ok[k]]) \in S0
  BY RespondKeeps
<1>3. State \in S0
  OBVIOUS
<1> HIDE DEF S0
<1> DEFINE q == [k \in 1..n |-> [id |-> unanswered[k], ok |-> ok[k]]]
<1>5. PICK g : Responded(g, q, State, n, SoundStates(size, m))
  <2> HIDE DEF q
  <2> QED BY RespondTurns
<1>6. \A k \in 1..n : g[k] = respond(g[k - 1], [id |-> unanswered[k], ok |-> ok[k]])
  BY <1>5 DEF Responded
<1>6a. g \in [0..n -> S0] /\ g[0] = State
  BY <1>5 DEF Responded, S0
<1> HIDE DEF q
<1>7. Is(g)
  <2> DEFINE h == [i \in 0..n |-> IF i = 0 THEN State
                                  ELSE respond(g[i - 1], [id |-> unanswered[i], ok |-> ok[i]])]
  <2>1. \A i \in 0..n : g[i] = h[i]
    <3> TAKE i \in 0..n
    <3>1. CASE i = 0
      BY <3>1, <1>6a
    <3>2. CASE i # 0
      <4>1. i \in 1..n
        BY <3>2
      <4> QED BY <4>1, <3>2, <1>6
    <3> QED BY <3>1, <3>2
  <2> QED BY <2>1, <1>6a
<1>8. f = [i \in 0..n |-> IF i = 0 THEN State
                          ELSE respond(f[i - 1], [id |-> unanswered[i], ok |-> ok[i]])]
  <2>1. Is(f)
    BY <1>7
  <2> QED BY <2>1
<1> HIDE DEF f, Is
<1>9. f[0] = State /\ \A k \in 1..n : f[k] = respond(f[k - 1], [id |-> unanswered[k], ok |-> ok[k]])
  <2>1. 0 \in 0..n /\ \A k \in 1..n : k \in 0..n /\ k # 0
    OBVIOUS
  <2> QED BY <1>8, <2>1
<1>10. \A k \in 1..n : f[k - 1] \in S0 => f[k] \in S0
  BY <1>2, <1>9
<1>11. f[0] \in S0
  BY <1>3, <1>9
<1>12. \A k \in 0..n : f[k] \in S0
  BY <1>10, <1>11, KeptByTurns
<1>13. f[n] \in SoundStates(size, m)
  BY <1>12 DEF S0
<1> HIDE DEF S0
<1> QED BY <1>1, <1>13

-----------------------------------------------------------------------------
(* InventoryRequests: the invariant *)

\* The pending requests are linked, at most one mismatch is out, and while nothing
\* else wrote and nothing was rejected under another request, the prediction is the
\* run of the pending requests, each of which remembers what it found.
InventoryInv ==
    /\ altOpen \in BOOLEAN /\ altId \in WindowIDs \cup {0}
    /\ sent \in Nat /\ unanswered \in Seq(1..sent) /\ acks \in Seq(Updates)
    /\ transfers \in 0..MaxBackendChanges
    /\ items \in Inventories /\ confirmed \in Inventories
    /\ reqs \in Seq(RequestObjects(Len(reqs), sent))
    /\ first \in 0..Len(reqs) /\ current \in 0..Len(reqs)
    /\ syncPending \in BOOLEAN /\ mismatches \in Nat
    /\ panicked \in BOOLEAN /\ mixed \in BOOLEAN /\ skipped \in BOOLEAN
    /\ Linked(reqs, first, current, Len(reqs))
    /\ ~panicked
    /\ mismatches = IF syncPending THEN 1 ELSE 0
    /\ ~mixed /\ ~skipped => Predicted(items, reqs, first, Len(reqs), confirmed, altOpen)

\* The player starts with nothing pending.
LEMMA InventoryStart == InventoryInit => InventoryInv
<1> SUFFICES ASSUME InventoryInit PROVE InventoryInv
  OBVIOUS
<1>1. Len(reqs) = 0 /\ reqs \in Seq(RequestObjects(Len(reqs), sent)) /\ unanswered \in Seq(1..sent)
      /\ acks \in Seq(Updates)
  BY DEF InventoryInit
<1>2. sent \in Nat /\ transfers \in 0..MaxBackendChanges /\ first \in 0..Len(reqs) /\ current \in 0..Len(reqs)
  BY <1>1, RequestAssumption DEF InventoryInit
<1>3. items \in Inventories /\ confirmed \in Inventories
  BY SlotAssumption DEF InventoryInit
<1>4. /\ Linked(reqs, first, current, Len(reqs))
      /\ Predicted(items, reqs, first, Len(reqs), confirmed, altOpen)
  BY DEF InventoryInit, Linked, Predicted
<1>5. /\ altOpen \in BOOLEAN /\ altId \in WindowIDs \cup {0}
      /\ syncPending \in BOOLEAN /\ panicked \in BOOLEAN /\ mixed \in BOOLEAN /\ skipped \in BOOLEAN
  BY DEF InventoryInit
<1>6. ~panicked /\ mismatches \in Nat /\ mismatches = IF syncPending THEN 1 ELSE 0
  BY DEF InventoryInit
<1> QED BY <1>1, <1>2, <1>3, <1>4, <1>5, <1>6 DEF InventoryInv

\* The state the responses work on is sound.
LEMMA StateSound ==
  ASSUME InventoryInv
  PROVE  Len(reqs) \in Nat /\ State \in SoundStates(Len(reqs), sent)
<1>1. Len(reqs) \in Nat /\ reqs \in [1..Len(reqs) -> RequestObjects(Len(reqs), sent)]
  BY DEF InventoryInv
<1>2. State \in StateTypes(Len(reqs), sent)
  BY <1>1 DEF InventoryInv, State, StateTypes
<1>3. InOrder(State, Len(reqs))
  BY DEF InventoryInv, State, InOrder
<1> QED BY <1>1, <1>2, <1>3 DEF SoundStates

\* What a window that opens leaves of a prediction: the actions found theirs already.
LEMMA PredictedElsewhere ==
  ASSUME NEW it, NEW n \in Nat, NEW f \in 0..n, NEW rs, NEW cf, NEW alt, NEW alt2, alt => alt2,
         Predicted(it, rs, f, n, cf, alt)
  PROVE  Predicted(it, rs, f, n, cf, alt2)
<1>1. CASE f = 0
  BY <1>1 DEF Predicted
<1>2. CASE f # 0
  <2>1. Tracked(alt) \subseteq Tracked(alt2)
    BY DEF Tracked, WindowFromContainerID
  <2>2. \A i \in f..n : rs[i].actions \in Seq(Tracked(alt))
    BY <1>2 DEF Predicted
  <2>3. \A i \in f..n : rs[i].actions \in Seq(Tracked(alt2))
    BY <2>1, <2>2, SeqMono
  <2>4. PICK g : Runs(g, it, rs, f, n, cf, alt)
    BY <1>2 DEF Predicted
  <2>5. \A i \in f..n : execute(rs[i].actions, g[i - 1], alt) = execute(rs[i].actions, g[i - 1], alt2)
    <3> TAKE i \in f..n
    <3>1. i - 1 \in Nat
      BY <1>2
    <3>2. g[i - 1] \in Inventories
      BY <2>4, <3>1 DEF Runs
    <3>3. Tracked(alt) \subseteq ItemActions
      BY DEF Tracked
    <3>4. rs[i].actions \in Seq(ItemActions)
      BY <2>2, <3>3, SeqMono
    <3>5. \A k \in 1..Len(rs[i].actions) : rs[i].actions[k] \in Tracked(alt)
      BY <2>2
    <3>6. \A a \in Tracked(alt) : Applies(a, alt) = Applies(a, alt2)
      BY DEF Tracked, Applies, Writes, WindowFromContainerID
    <3> QED BY <3>2, <3>4, <3>5, <3>6, ExecuteElsewhere
  <2>6. Runs(g, it, rs, f, n, cf, alt2)
    BY <2>4, <2>5 DEF Runs
  <2> QED BY <1>2, <2>3, <2>6 DEF Predicted
<1> QED BY <1>1, <1>2

\* The actions that were tracked are, with what they remember.
LEMMA ExecuteTracked ==
  ASSUME NEW alt, NEW acts \in Seq(Tracked(alt)), NEW it \in Inventories
  PROVE  acts \in Seq(ItemActions) /\ execute(acts, it, alt).actions \in Seq(Tracked(alt))
<1> DEFINE n == Len(acts)
           b == execute(acts, it, alt).actions
           s == Steps(acts, it, alt)
<1>0. Tracked(alt) \subseteq ItemActions
  BY DEF Tracked
<1>1. acts \in Seq(ItemActions)
  BY <1>0, SeqMono
<1>2. n \in Nat /\ \A k \in 1..n : acts[k] \in Tracked(alt)
  OBVIOUS
<1>3. b \in Seq(ItemActions) /\ Len(b) = n /\ \A k \in 1..n : b[k] = remember(acts[k], s[k - 1], alt)
  BY <1>1, ExecuteType
<1>4. s \in [0..n -> Inventories]
  BY <1>1, StepsAre
<1> HIDE DEF n, b, s
<1>5. \A k \in 1..n : b[k] \in Tracked(alt)
  <2> TAKE k \in 1..n
  <2>1. k - 1 \in 0..n
    BY <1>2
  <2>2. s[k - 1] \in Inventories /\ acts[k] \in ItemActions
    BY <1>0, <1>2, <1>4, <2>1
  <2>3. /\ b[k] \in ItemActions /\ b[k].op = acts[k].op /\ b[k].src = acts[k].src
        /\ b[k].dst = acts[k].dst
    BY <1>3, <2>2, PerformType
  <2> QED BY <1>2, <2>3 DEF Tracked
<1>6. b \in Seq(Tracked(alt))
  BY <1>2, <1>3, <1>5
<1> QED BY <1>1, <1>6 DEF b

\* A new request behind the last one.
LEMMA LinkKeeps ==
  ASSUME InventoryInv, NEW acts \in Seq(Tracked(altOpen)),
         items' = execute(acts, items, altOpen).items,
         linkRequest(execute(acts, items, altOpen).actions, sent + 1),
         sent' = sent + 1, unanswered' \in Seq(1..sent'),
         UNCHANGED <<altOpen, altId, acks, syncVars, transfers, outside, panicked, historyVars>>
  PROVE  InventoryInv'
<1> DEFINE len == Len(reqs)
           n == len + 1
           done == execute(acts, items, altOpen)
           new == [id |-> sent + 1, prev |-> current, next |-> 0, actions |-> done.actions]
           rs == IF first = 0 THEN reqs ELSE [reqs EXCEPT ![current].next = n]
<1>1. /\ len \in Nat /\ sent \in Nat /\ first \in 0..len /\ current \in 0..len
      /\ reqs \in [1..len -> RequestObjects(len, sent)]
      /\ Linked(reqs, first, current, len)
      /\ items \in Inventories /\ confirmed \in Inventories
  BY DEF InventoryInv
<1>2. /\ acts \in Seq(ItemActions) /\ done.actions \in Seq(Tracked(altOpen)) /\ done.actions \in Seq(ItemActions)
      /\ done.items \in Inventories /\ execute(done.actions, items, altOpen) = done
  BY <1>1, ExecuteTracked, ExecuteType, ExecuteAgain
<1>3. /\ current' = n /\ first' = (IF first = 0 THEN n ELSE first)
      /\ reqs' = Append(rs, new)
  BY DEF linkRequest
<1> HIDE DEF done, len
<1>4. new \in RequestObjects(n, sent + 1)
  <2>1. current \in 0..n /\ 0 \in 0..n /\ sent + 1 \in 0..(sent + 1)
    BY <1>1
  <2> QED BY <1>2, <2>1 DEF RequestObjects
<1>5. RequestObjects(len, sent) \subseteq RequestObjects(n, sent + 1)
  <2>1. 0..len \subseteq 0..n /\ 0..sent \subseteq 0..(sent + 1)
    BY <1>1
  <2> QED BY <2>1 DEF RequestObjects
<1>6. /\ rs \in [1..len -> RequestObjects(n, sent + 1)]
      /\ \A i \in 1..len : /\ rs[i].id = reqs[i].id /\ rs[i].prev = reqs[i].prev
                           /\ rs[i].actions = reqs[i].actions
                           /\ rs[i].next = IF first # 0 /\ i = current THEN n ELSE reqs[i].next
  <2>1. \A i \in 1..len : reqs[i] \in RequestObjects(n, sent + 1)
    BY <1>1, <1>5
  <2>2. CASE first = 0
    BY <1>1, <2>1, <2>2
  <2>3. CASE first # 0
    <3>1. current \in 1..len /\ n \in 0..n
      BY <1>1, <2>3 DEF Linked
    <3> DEFINE o == [reqs[current] EXCEPT !.next = n]
    <3>2. /\ o \in RequestObjects(n, sent + 1) /\ o.id = reqs[current].id /\ o.prev = reqs[current].prev
          /\ o.actions = reqs[current].actions /\ o.next = n
      BY <2>1, <3>1 DEF RequestObjects
    <3>3. rs = [reqs EXCEPT ![current] = o]
      BY <2>3
    <3> HIDE DEF o, rs, n
    <3>4. rs[current] = o /\ \A i \in 1..len : i # current => rs[i] = reqs[i]
      BY <1>1, <3>1, <3>3
    <3>5. \A i \in 1..len : rs[i] \in RequestObjects(n, sent + 1)
      BY <2>1, <3>2, <3>4
    <3>6. rs \in [1..len -> RequestObjects(n, sent + 1)]
      BY <1>1, <3>3, <3>5
    <3> QED BY <2>3, <3>2, <3>4, <3>6
  <2> QED BY <2>2, <2>3
<1> HIDE DEF rs, new
<1>7. /\ reqs' \in Seq(RequestObjects(n, sent + 1)) /\ Len(reqs') = n
      /\ reqs'[n] = new /\ \A i \in 1..len : reqs'[i] = rs[i]
  <2>1. rs \in Seq(RequestObjects(n, sent + 1)) /\ Len(rs) = len
    BY <1>1, <1>6
  <2> QED BY <1>1, <1>3, <1>4, <2>1
<1>8. /\ new.id = sent + 1 /\ new.prev = current /\ new.next = 0 /\ new.actions = done.actions
  BY DEF new
<1>9. Linked(reqs', first', current', n)
  <2>1. CASE first = 0
    <3>1. current = 0 /\ n \in 1..n
      BY <1>1, <2>1 DEF Linked
    <3>2. \A i \in n..n : i = n
      BY <1>1
    <3>3. ~(n < n)
      BY <1>1
    <3> HIDE DEF n
    <3> QED BY <1>3, <1>7, <1>8, <2>1, <3>1, <3>2, <3>3 DEF Linked
  <2>2. CASE first # 0
    <3>1. /\ current = len /\ first \in 1..len
          /\ \A i \in first..len : /\ reqs[i].prev = IF i = first THEN 0 ELSE i - 1
                                   /\ reqs[i].next = IF i = len THEN 0 ELSE i + 1
                                   /\ i < len => reqs[i].id < reqs[i + 1].id
      BY <1>1, <2>2 DEF Linked
    <3>2. \A i \in 1..len : reqs[i].id \in 0..sent
      BY <1>1 DEF RequestObjects
    <3>3. \A i \in first..n : /\ reqs'[i].prev = IF i = first THEN 0 ELSE i - 1
                              /\ reqs'[i].next = IF i = n THEN 0 ELSE i + 1
                              /\ i < n => reqs'[i].id < reqs'[i + 1].id
      <4> TAKE i \in first..n
      <4>1. CASE i = n
        <5>1. n # first /\ n - 1 = len /\ ~(n < n)
          BY <1>1, <3>1
        <5> HIDE DEF n
        <5> QED BY <1>7, <1>8, <3>1, <4>1, <5>1
      <4>2. CASE i # n
        <5>1. i \in first..len /\ i \in 1..len /\ (i = len => i + 1 = n) /\ (i # len => i < len /\ i + 1 \in 1..len)
          BY <1>1, <3>1, <4>2
        <5>2. reqs'[i].prev = IF i = first THEN 0 ELSE i - 1
          BY <1>6, <1>7, <3>1, <5>1
        <5>3. reqs'[i].next = i + 1
          BY <1>6, <1>7, <2>2, <3>1, <5>1
        <5>4. reqs'[i].id < reqs'[i + 1].id
          <6>1. CASE i = len
            <7>1. reqs'[i].id = reqs[i].id /\ reqs'[i + 1].id = sent + 1 /\ reqs[i].id \in 0..sent
              BY <1>6, <1>7, <1>8, <3>2, <5>1, <6>1
            <7> QED BY <7>1, <1>1
          <6>2. CASE i # len
            BY <1>6, <1>7, <3>1, <5>1, <6>2
          <6> QED BY <6>1, <6>2
        <5> QED BY <4>2, <5>2, <5>3, <5>4
      <4> QED BY <4>1, <4>2
    <3>4. first \in 1..n
      BY <1>1, <3>1
    <3> QED BY <1>3, <2>2, <3>3, <3>4 DEF Linked
  <2> QED BY <2>1, <2>2
<1>10. ASSUME ~mixed, ~skipped
       PROVE  Predicted(items', reqs', first', n, confirmed, altOpen)
  <2>0. Predicted(items, reqs, first, len, confirmed, altOpen)
    BY <1>10 DEF InventoryInv, len
  <2>1. CASE first = 0
    <3> DEFINE g == [k \in Nat |-> IF k = n THEN done.items ELSE items]
    <3>1. items = confirmed /\ first' = n /\ n # 0 /\ n \in Nat /\ n - 1 \in Nat /\ n - 1 # n
          /\ \A i \in n..n : i = n
      BY <1>1, <1>3, <2>0, <2>1 DEF Predicted
    <3>2. reqs'[n].actions = done.actions
      BY <1>7, <1>8
    <3>3. g \in [Nat -> Inventories] /\ g[n - 1] = items /\ g[n] = done.items
      BY <1>1, <1>2, <3>1
    <3> HIDE DEF g, n
    <3>4. items' = done.items
      BY DEF done
    <3>5. Runs(g, items', reqs', first', n, confirmed, altOpen)
      BY <1>2, <3>1, <3>2, <3>3, <3>4 DEF Runs
    <3>6. \A i \in n..n : reqs'[i].actions \in Seq(Tracked(altOpen))
      BY <1>2, <3>1, <3>2
    <3> QED BY <3>1, <3>5, <3>6 DEF Predicted
  <2>2. CASE first # 0
    <3>1. PICK h : Runs(h, items, reqs, first, len, confirmed, altOpen)
      BY <2>0, <2>2 DEF Predicted
    <3>2. /\ h \in [Nat -> Inventories] /\ h[first - 1] = confirmed /\ h[len] = items
          /\ \A i \in first..len : /\ h[i] = execute(reqs[i].actions, h[i - 1], altOpen).items
                                   /\ reqs[i].actions = execute(reqs[i].actions, h[i - 1], altOpen).actions
      BY <3>1 DEF Runs
    <3> DEFINE g == [h EXCEPT ![n] = done.items]
    <3>3. /\ first \in 1..len /\ n \in Nat /\ first - 1 \in Nat /\ first - 1 # n /\ n - 1 = len /\ len # n
      BY <1>1, <2>2
    <3>4. g \in [Nat -> Inventories] /\ g[n] = done.items /\ \A k \in Nat : k # n => g[k] = h[k]
      BY <1>2, <3>2, <3>3
    <3> HIDE DEF g
    <3>5. \A i \in first..n : /\ g[i] = execute(reqs'[i].actions, g[i - 1], altOpen).items
                              /\ reqs'[i].actions = execute(reqs'[i].actions, g[i - 1], altOpen).actions
      <4> TAKE i \in first..n
      <4>1. CASE i = n
        <5>1. g[i - 1] = items
          BY <1>1, <3>2, <3>3, <3>4, <4>1
        <5>2. reqs'[i].actions = done.actions
          BY <1>7, <1>8, <4>1
        <5> QED BY <1>2, <3>4, <4>1, <5>1, <5>2
      <4>2. CASE i # n
        <5>1. i \in first..len /\ i \in 1..len /\ i \in Nat /\ i - 1 \in Nat /\ i - 1 # n
          BY <1>1, <3>3, <4>2
        <5>2. g[i] = h[i] /\ g[i - 1] = h[i - 1]
          BY <3>4, <4>2, <5>1
        <5>3. reqs'[i].actions = reqs[i].actions
          BY <1>6, <1>7, <5>1
        <5> QED BY <3>2, <5>1, <5>2, <5>3
      <4> QED BY <4>1, <4>2
    <3>6. items' = done.items
      BY DEF done
    <3>7. Runs(g, items', reqs', first, n, confirmed, altOpen)
      BY <3>2, <3>3, <3>4, <3>5, <3>6 DEF Runs
    <3>8. \A i \in first..n : reqs'[i].actions \in Seq(Tracked(altOpen))
      <4> TAKE i \in first..n
      <4>1. CASE i = n
        BY <1>2, <1>7, <1>8, <4>1
      <4>2. CASE i # n
        <5>1. i \in first..len /\ i \in 1..len
          BY <1>1, <3>3, <4>2
        <5>2. reqs[i].actions \in Seq(Tracked(altOpen))
          BY <2>0, <2>2, <5>1 DEF Predicted
        <5> QED BY <1>6, <1>7, <5>1, <5>2
      <4> QED BY <4>1, <4>2
    <3> QED BY <1>3, <2>2, <3>7, <3>8 DEF Predicted
  <2> QED BY <2>1, <2>2
<1>11. first' \in 0..n /\ current' \in 0..n /\ sent' \in Nat
  BY <1>1, <1>3
<1>12. items' \in Inventories
  BY <1>2 DEF done
<1> HIDE DEF n
<1> QED BY <1>7, <1>9, <1>10, <1>11, <1>12 DEF InventoryInv, syncVars, historyVars

\* A write past the chain, under a window that stays or opens.
LEMMA OutsideKeeps ==
  ASSUME InventoryInv, NEW it \in Inventories, OutsideWrite(it),
         altOpen => altOpen', altOpen' \in BOOLEAN, altId' \in WindowIDs \cup {0}, acks' \in Seq(Updates)
  PROVE  InventoryInv'
<1>1. /\ items' = it
      /\ UNCHANGED <<reqs, first, current, sent, unanswered, syncPending, mismatches, transfers, panicked, skipped>>
  BY DEF OutsideWrite, chainVars, syncVars
<1>2. Len(reqs) \in Nat /\ first \in 0..Len(reqs)
  BY DEF InventoryInv
<1>3. confirmed' \in Inventories /\ mixed' \in BOOLEAN
  BY DEF OutsideWrite, InventoryInv
<1>4. ASSUME ~mixed', ~skipped
      PROVE  Predicted(items', reqs, first, Len(reqs), confirmed', altOpen')
  <2>1. CASE first = 0
    BY <1>1, <2>1 DEF OutsideWrite, Predicted
  <2>2. CASE first # 0
    <3>1. ~mixed /\ it = items /\ confirmed' = confirmed
      BY <1>4, <2>2 DEF OutsideWrite
    <3>2. Predicted(items, reqs, first, Len(reqs), confirmed, altOpen)
      BY <1>4, <3>1 DEF InventoryInv
    <3>3. Predicted(items, reqs, first, Len(reqs), confirmed, altOpen')
      BY <1>2, <3>2, PredictedElsewhere
    <3> QED BY <1>1, <3>1, <3>3
  <2> QED BY <2>1, <2>2
<1> QED BY <1>1, <1>3, <1>4 DEF InventoryInv

\* The requests the client sends.
LEMMA SingleRequestKeeps ==
  ASSUME InventoryInv, NEW request \in Requests, NEW creative, HandleSingleRequest(request, creative)
  PROVE  InventoryInv'
<1> DEFINE acts == buildActions(request, creative)
<1>1. acts \in Seq(Tracked(altOpen))
  BY BuildType
<1> HIDE DEF acts
<1>2. sent \in Nat /\ sent' = sent + 1 /\ unanswered' = Append(unanswered, sent + 1) /\ unanswered \in Seq(1..sent)
  BY DEF HandleSingleRequest, InventoryInv
<1>3. unanswered' \in Seq(1..sent')
  <2>1. 1..sent \subseteq 1..sent' /\ sent + 1 \in 1..sent'
    BY <1>2
  <2>2. unanswered \in Seq(1..sent')
    BY <1>2, <2>1, SeqMono
  <2> QED BY <1>2, <2>1, <2>2
<1>4. UNCHANGED <<altOpen, altId, acks, syncVars, transfers, outside, panicked, historyVars>>
  BY DEF HandleSingleRequest
<1>5. CASE acts = <<>>
  <2>1. UNCHANGED <<items, chainVars>>
    BY <1>5 DEF HandleSingleRequest, acts
  <2>2. reqs \in Seq(RequestObjects(Len(reqs), sent'))
    <3>1. 0..sent \subseteq 0..sent'
      BY <1>2
    <3>2. RequestObjects(Len(reqs), sent) \subseteq RequestObjects(Len(reqs), sent')
      BY <3>1 DEF RequestObjects
    <3>3. reqs \in Seq(RequestObjects(Len(reqs), sent))
      BY DEF InventoryInv
    <3> QED BY <3>2, <3>3, SeqMono
  <2> QED BY <1>2, <1>3, <1>4, <2>1, <2>2 DEF InventoryInv, chainVars, syncVars, historyVars
<1>6. CASE acts # <<>>
  <2>1. items' = execute(acts, items, altOpen).items
        /\ linkRequest(execute(acts, items, altOpen).actions, sent + 1)
    BY <1>6 DEF HandleSingleRequest, acts
  <2> QED BY <1>1, <1>2, <1>3, <1>4, <2>1, LinkKeeps
<1> QED BY <1>5, <1>6

\* The responses of the server.
LEMMA ResponseKeeps ==
  ASSUME InventoryInv, NEW n \in Nat, NEW ok, HandleItemStackResponse(n, ok)
  PROVE  InventoryInv'
<1> DEFINE len == Len(reqs)
<1>1. len \in Nat /\ sent \in Nat /\ State \in SoundStates(len, sent)
  BY StateSound DEF InventoryInv
<1> HIDE DEF len
<1>2. PICK s \in SoundStates(len, sent) :
            /\ items' = s.items /\ reqs' = s.reqs /\ first' = s.first /\ current' = s.current
            /\ syncPending' = s.syncPending /\ mismatches' = s.mismatches
            /\ panicked' = s.panicked
            /\ HistoryAfter(s.items, s.confirmed, s.mixed, s.skipped, s.first)
  BY <1>1, ResponsesKeep
<1>3. s \in StateTypes(len, sent) /\ InOrder(s, len)
  BY DEF SoundStates
<1>4. /\ s.items \in Inventories /\ s.reqs \in [1..len -> RequestObjects(len, sent)]
      /\ s.first \in 0..len /\ s.current \in 0..len /\ s.syncPending \in BOOLEAN /\ s.mismatches \in Nat
      /\ s.panicked \in BOOLEAN /\ s.confirmed \in Inventories /\ s.mixed \in BOOLEAN
      /\ s.skipped \in BOOLEAN
  BY <1>1, <1>3, StateFields
<1>5. reqs' \in Seq(RequestObjects(len, sent)) /\ Len(reqs') = len
  BY <1>1, <1>2, <1>4
<1>6. /\ UNCHANGED <<altOpen, altId, sent, acks, transfers>>
      /\ n <= Len(unanswered) /\ unanswered' = SubSeq(unanswered, n + 1, Len(unanswered))
  BY DEF HandleItemStackResponse
<1>7. unanswered' \in Seq(1..sent)
  <2>1. unanswered \in Seq(1..sent) /\ Len(unanswered) \in Nat
    BY DEF InventoryInv
  <2>2. SubSeq(unanswered, n + 1, Len(unanswered)) \in Seq(1..sent)
    <3>1. n + 1 \in Nat \ {0}
      OBVIOUS
    <3> QED BY <2>1, <3>1, SubSeqType
  <2> QED BY <1>6, <2>2
<1>8. /\ Linked(reqs', first', current', len)
      /\ ~panicked' /\ mismatches' = IF syncPending' THEN 1 ELSE 0
  BY <1>2, <1>3 DEF InOrder
<1>9. /\ confirmed' = IF s.first = 0 /\ (s.mixed \/ s.skipped) THEN s.items ELSE s.confirmed
      /\ mixed' = (s.mixed /\ s.first # 0)
      /\ skipped' = (s.skipped /\ s.first # 0)
  BY <1>2 DEF HistoryAfter
<1>10. confirmed' \in Inventories /\ mixed' \in BOOLEAN /\ skipped' \in BOOLEAN
  BY <1>4, <1>9
<1>11. ASSUME ~mixed', ~skipped'
       PROVE  Predicted(items', reqs', first', len, confirmed', altOpen)
  <2>1. CASE s.first = 0 /\ (s.mixed \/ s.skipped)
    BY <1>2, <1>9, <2>1 DEF Predicted
  <2>2. CASE ~(s.first = 0 /\ (s.mixed \/ s.skipped))
    <3>1. ~s.mixed /\ ~s.skipped /\ confirmed' = s.confirmed
      BY <1>9, <1>11, <2>2
    <3> QED BY <1>2, <1>3, <3>1 DEF InOrder
  <2> QED BY <2>1, <2>2
<1>12. /\ altOpen' \in BOOLEAN /\ altId' \in WindowIDs \cup {0} /\ sent' \in Nat /\ acks' \in Seq(Updates)
       /\ transfers' \in 0..MaxBackendChanges
  BY <1>6 DEF InventoryInv
<1>13. /\ items' \in Inventories /\ first' \in 0..len /\ current' \in 0..len /\ syncPending' \in BOOLEAN
       /\ mismatches' \in Nat /\ panicked' \in BOOLEAN
  BY <1>2, <1>4
<1> QED BY <1>5, <1>6, <1>7, <1>8, <1>10, <1>11, <1>12, <1>13 DEF InventoryInv

\* Every step keeps the invariant: one case for each handler of the inventory
\* component, its acknowledgements and the change of the backend.
LEMMA InventoryStep == InventoryInv /\ [InventoryNext]_inventoryVars => InventoryInv'
<1> SUFFICES ASSUME InventoryInv, [InventoryNext]_inventoryVars PROVE InventoryInv'
  OBVIOUS
<1>0. /\ altOpen \in BOOLEAN /\ altId \in WindowIDs \cup {0} /\ acks \in Seq(Updates)
      /\ items \in Inventories
  BY DEF InventoryInv
<1>1. ASSUME NEW r \in Requests, NEW creative \in BOOLEAN, HandleSingleRequest(r, creative)
      PROVE  InventoryInv'
  BY <1>1, SingleRequestKeeps
<1>2. ASSUME NEW n \in 1..MaxBatch, NEW ok \in [1..n -> BOOLEAN], HandleItemStackResponse(n, ok)
      PROVE  InventoryInv'
  <2>1. n \in Nat
    BY RequestAssumption
  <2> QED BY <1>2, <2>1, ResponseKeeps
<1>3. ASSUME NEW u \in Updates, HandleInventorySlot(u)
      PROVE  InventoryInv'
  <2>1. acks' \in Seq(Updates)
    BY <1>0, <1>3 DEF HandleInventorySlot
  <2> QED BY <1>3, <2>1 DEF HandleInventorySlot, InventoryInv, chainVars, syncVars, historyVars
<1>4. ASSUME SetInventorySlotRun
      PROVE  InventoryInv'
  <2> DEFINE u == Head(acks)
             found == {s \in DOMAIN u : WindowFromContainerID(s, altOpen)}
             it == [s \in Slots |-> IF s \in found THEN u[s] ELSE items[s]]
  <2>1. acks # <<>> /\ acks' = Tail(acks) /\ OutsideWrite(it) /\ UNCHANGED <<altOpen, altId>>
    BY <1>4 DEF SetInventorySlotRun
  <2>2. u \in Updates /\ acks' \in Seq(Updates)
    BY <1>0, <2>1
  <2>3. \A s \in found : u[s] \in ItemStacks
    BY <2>2, RequestAssumption
  <2> HIDE DEF found, u
  <2>4. it \in Inventories
    BY <1>0, <2>3 DEF Inventories
  <2> HIDE DEF it
  <2> QED BY <1>0, <2>1, <2>2, <2>4, OutsideKeeps
<1>5. ASSUME NEW d \in Drops, DropTransaction(d)
      PROVE  InventoryInv'
  <2>1. d.slot \in Slots /\ d.count \in Nat /\ -d.count \in Int
    BY RequestAssumption
  <2> DEFINE it == [items EXCEPT ![d.slot] = Grow(@, -d.count)]
  <2>2. it \in Inventories
    <3>1. items[d.slot] \in ItemStacks
      BY <1>0, <2>1 DEF Inventories
    <3>2. Grow(items[d.slot], -d.count) \in ItemStacks
      BY <2>1, <3>1, GrowType
    <3> QED BY <1>0, <2>1, <3>2 DEF Inventories
  <2>3. OutsideWrite(it) /\ UNCHANGED <<altOpen, altId, acks>>
    BY <1>5 DEF DropTransaction
  <2> HIDE DEF it
  <2> QED BY <1>0, <2>2, <2>3, OutsideKeeps
<1>6. ASSUME UseItemRefused
      PROVE  InventoryInv'
  <2>1. Len(reqs) \in Nat /\ sent \in Nat /\ State \in SoundStates(Len(reqs), sent)
    BY StateSound DEF InventoryInv
  <2>2. State \in StateTypes(Len(reqs), sent) /\ InOrder(State, Len(reqs))
    BY <2>1 DEF SoundStates
  <2>3. /\ ForceSync(State) \in StateTypes(Len(reqs), sent)
        /\ ForceSync(State).mismatches = IF ForceSync(State).syncPending THEN 1 ELSE 0
    BY <2>1, <2>2, ForceSyncKeeps DEF InOrder
  <2>4. ForceSync(State).mismatches \in Nat /\ ForceSync(State).syncPending \in BOOLEAN
    BY <2>1, <2>3, StateFields
  <2>5. /\ syncPending' = ForceSync(State).syncPending /\ mismatches' = ForceSync(State).mismatches
        /\ UNCHANGED <<items, altOpen, altId, chainVars, sent, unanswered, acks,
                       transfers, panicked, historyVars>>
    BY <1>6 DEF UseItemRefused
  <2>6. /\ mismatches' = (IF syncPending' THEN 1 ELSE 0) /\ mismatches' \in Nat /\ syncPending' \in BOOLEAN
    BY <2>3, <2>4, <2>5
  <2> QED BY <2>5, <2>6 DEF InventoryInv, chainVars, historyVars
<1>7. ASSUME BackendTransfer
      PROVE  InventoryInv'
  <2>1. transfers' \in 0..MaxBackendChanges
    <3>1. transfers \in 0..MaxBackendChanges
      BY DEF InventoryInv
    <3> QED BY <1>7, <3>1, RequestAssumption DEF BackendTransfer
  <2>2. acks' \in Seq(Updates) /\ unanswered' \in Seq(1..sent')
    BY <1>7 DEF BackendTransfer
  <2> QED BY <1>7, <2>1, <2>2 DEF BackendTransfer, InventoryInv, chainVars, syncVars, historyVars
<1>8. ASSUME NEW id \in WindowIDs, CreateWindow(id)
      PROVE  InventoryInv'
  <2> DEFINE it == [s \in Slots |-> IF s \in BoxSlots THEN NoItem ELSE items[s]]
  <2>1. it \in Inventories
    BY <1>0, NoItemType DEF Inventories
  <2>2. OutsideWrite(it) /\ altOpen' = TRUE /\ altId' = id /\ acks' = acks
    BY <1>8 DEF CreateWindow
  <2> HIDE DEF it
  <2> QED BY <1>0, <2>1, <2>2, OutsideKeeps
<1>9. ASSUME NEW id \in WindowIDs, RemoveWindow(id)
      PROVE  InventoryInv'
  <2>1. items' \in Inventories
    BY <1>0, <1>9, NoItemType DEF RemoveWindow, Inventories
  <2>2. /\ altOpen' = FALSE
        /\ IF first = 0 THEN confirmed' = items' /\ mixed' = mixed ELSE mixed' = TRUE /\ confirmed' = confirmed
        /\ UNCHANGED <<altId, acks, chainVars, sent, unanswered, syncVars, transfers, panicked, skipped>>
    BY <1>9 DEF RemoveWindow
  <2>3. confirmed' \in Inventories /\ mixed' \in BOOLEAN /\ altOpen' \in BOOLEAN
    BY <2>1, <2>2 DEF InventoryInv
  <2>4. ASSUME ~mixed', ~skipped'
        PROVE  Predicted(items', reqs', first', Len(reqs'), confirmed', altOpen')
    <3>1. first = 0 /\ first' = 0 /\ confirmed' = items'
      BY <2>2, <2>4 DEF chainVars
    <3> QED BY <3>1 DEF Predicted
  <2> QED BY <2>1, <2>2, <2>3, <2>4 DEF InventoryInv, chainVars, syncVars
<1>10. CASE UNCHANGED inventoryVars
  BY <1>10 DEF inventoryVars, InventoryInv
<1> QED BY <1>1, <1>2, <1>3, <1>4, <1>5, <1>6, <1>7, <1>8, <1>9, <1>10 DEF InventoryNext

-----------------------------------------------------------------------------
(* InventoryRequests: what the invariant says of the chain *)

\* The chain is the requests from the first pending one to the last one made.
LEMMA ChainIs ==
  ASSUME InventoryInv
  PROVE  /\ first = 0 => Chain = <<>>
         /\ first # 0 => Chain = [i \in 1..(Len(reqs) - first + 1) |-> first + i - 1]
<1> DEFINE n == Len(reqs)
           p == IF first = 0 THEN 0 ELSE n - first + 1
           Is(h) == h = [i \in 0..n |-> IF i = 0 THEN first
                                        ELSE IF h[i - 1] = 0 THEN 0 ELSE reqs[h[i - 1]].next]
           node == CHOOSE h : Is(h)
           length == CHOOSE k \in 0..n : \A i \in 0..n : (i < k) = (node[i] # 0)
           g == [i \in 0..n |-> IF i < p THEN first + i ELSE 0]
<1>1. n \in Nat /\ first \in 0..n /\ Linked(reqs, first, current, n)
  BY DEF InventoryInv
<1>2. first # 0 => \A i \in first..n : reqs[i].next = IF i = n THEN 0 ELSE i + 1
  BY <1>1 DEF Linked
<1>3. Chain = [i \in 1..length |-> node[i - 1]]
  BY DEF Chain
<1> HIDE DEF n
<1>4. p \in 0..n /\ (first # 0 => p = n - first + 1 /\ p # 0) /\ (first = 0 => p = 0)
  BY <1>1
<1> HIDE DEF p
<1>5. \A i \in 1..n : g[i] = IF g[i - 1] = 0 THEN 0 ELSE reqs[g[i - 1]].next
  <2> TAKE i \in 1..n
  <2>1. i - 1 \in 0..n /\ i \in 0..n
    BY <1>1
  <2>2. CASE i - 1 < p
    <3>1. first # 0 /\ g[i - 1] = first + (i - 1) /\ first + (i - 1) \in first..n /\ first + (i - 1) # 0
      BY <1>1, <1>4, <2>1, <2>2
    <3>2. reqs[g[i - 1]].next = IF first + (i - 1) = n THEN 0 ELSE first + (i - 1) + 1
      BY <1>2, <3>1
    <3>3. (first + (i - 1) = n) <=> ~(i < p)
      BY <1>1, <1>4, <2>1, <2>2, <3>1
    <3>4. first + (i - 1) + 1 = first + i
      BY <1>1
    <3> QED BY <2>1, <3>1, <3>2, <3>3, <3>4
  <2>3. CASE ~(i - 1 < p)
    <3>1. g[i - 1] = 0 /\ ~(i < p)
      BY <1>1, <1>4, <2>1, <2>3
    <3> QED BY <2>1, <3>1
  <2> QED BY <2>2, <2>3
<1>6. g[0] = first
  BY <1>1, <1>4
<1>7. Is(g)
  <2> DEFINE h == [i \in 0..n |-> IF i = 0 THEN first ELSE IF g[i - 1] = 0 THEN 0 ELSE reqs[g[i - 1]].next]
  <2>0a. n \in Nat
    BY <1>1
  <2>0. g = [i \in 0..n |-> g[i]]
    OBVIOUS
  <2> HIDE DEF g
  <2>1. \A i \in 0..n : g[i] = h[i]
    <3> TAKE i \in 0..n
    <3>1. CASE i = 0
      BY <3>1, <1>6
    <3>2. CASE i # 0
      <4>1. i \in 1..n
        BY <3>2, <2>0a
      <4> QED BY <4>1, <3>2, <1>5
    <3> QED BY <3>1, <3>2
  <2> QED BY <2>0, <2>1
<1>8. node = [i \in 0..n |-> IF i = 0 THEN first ELSE IF node[i - 1] = 0 THEN 0 ELSE reqs[node[i - 1]].next]
  <2>1. Is(node)
    <3> HIDE DEF g
    <3> QED BY <1>7
  <2> QED BY <2>1, Zenon
<1>9. \A i \in 0..n : g[i] # 0 <=> i < p
  BY <1>1, <1>4
<1>10. \A i \in 0..n : i < p => g[i] = first + i
  OBVIOUS
<1> HIDE DEF node, Is, g, length
<1>11. node[0] = first /\ \A i \in 1..n : node[i] = IF node[i - 1] = 0 THEN 0 ELSE reqs[node[i - 1]].next
  <2>1. 0 \in 0..n /\ \A k \in 1..n : k \in 0..n /\ k # 0
    BY <1>1
  <2> QED BY <1>8, <2>1
<1>12. \A i \in 0..n : g[i] = node[i]
  <2>1. g[0] = node[0]
    BY <1>6, <1>11
  <2>2. \A i \in 1..n : g[i - 1] = node[i - 1] => g[i] = node[i]
    BY <1>5, <1>11
  <2>3. n \in Nat
    BY <1>1
  <2> QED BY <2>1, <2>2, <2>3, SameTurns
<1>13. length = p
  <2>1. \A i \in 0..n : (i < p) = (node[i] # 0)
    BY <1>9, <1>12
  <2>2. ASSUME NEW k \in 0..n, \A i \in 0..n : (i < k) = (node[i] # 0)
        PROVE  k = p
    <3>1. \A i \in 0..n : i < k <=> i < p
      BY <2>1, <2>2
    <3>2. (k < k <=> k < p) /\ (p < k <=> p < p)
      BY <1>4, <3>1
    <3> QED BY <1>1, <1>4, <3>2
  <2>3. length \in 0..n /\ \A i \in 0..n : (i < length) = (node[i] # 0)
    BY <1>4, <2>1 DEF length
  <2> QED BY <2>2, <2>3
<1>14. \A i \in 1..p : node[i - 1] = first + i - 1
  <2> TAKE i \in 1..p
  <2>1. i - 1 \in 0..n /\ i - 1 < p /\ first + (i - 1) = first + i - 1
    BY <1>1, <1>4
  <2> QED BY <1>10, <1>12, <2>1
<1>15. Chain = [i \in 1..p |-> first + i - 1]
  BY <1>3, <1>13, <1>14
<1>16. CASE first = 0
  <2>1. Chain = [i \in 1..0 |-> first + i - 1]
    BY <1>4, <1>15, <1>16
  <2> QED BY <1>16, <2>1
<1>17. CASE first # 0
  BY <1>4, <1>15, <1>17 DEF n
<1> QED BY <1>16, <1>17

\* The invariant gives every variable its type.
LEMMA InventoryTypes == InventoryInv => InventoryTypeOK
<1> SUFFICES ASSUME InventoryInv PROVE InventoryTypeOK
  OBVIOUS
<1>1. Len(reqs) \in Nat /\ \A i \in DOMAIN reqs : reqs[i] \in RequestObjects(Len(reqs), sent)
  BY DEF InventoryInv
<1>2. \A i \in DOMAIN reqs :
          /\ reqs[i].prev \in 0..Len(reqs) /\ reqs[i].next \in 0..Len(reqs)
          /\ \A k \in DOMAIN reqs[i].actions : reqs[i].actions[k].op \in Ops
  <2> TAKE i \in DOMAIN reqs
  <2>1. reqs[i].prev \in 0..Len(reqs) /\ reqs[i].next \in 0..Len(reqs) /\ reqs[i].actions \in Seq(ItemActions)
    BY <1>1 DEF RequestObjects
  <2>2. \A k \in DOMAIN reqs[i].actions : reqs[i].actions[k] \in ItemActions
    BY <2>1
  <2> QED BY <2>1, <2>2 DEF ItemActions
<1>3. \A i \in DOMAIN unanswered : unanswered[i] \in 1..sent
  BY DEF InventoryInv
<1>4. mismatches \in 0..1
  BY DEF InventoryInv
<1> QED BY <1>2, <1>3, <1>4 DEF InventoryInv, InventoryTypeOK

\* The invariant makes the chain a list that reads the same in both directions.
LEMMA ChainFollows == InventoryInv => ChainConsistent
<1> SUFFICES ASSUME InventoryInv PROVE ChainConsistent
  OBVIOUS
<1> DEFINE n == Len(reqs)
<1>1. InventoryTypeOK /\ ~panicked
  BY InventoryTypes DEF InventoryInv
<1>2. n \in Nat /\ first \in 0..n /\ Linked(reqs, first, current, n)
  BY DEF InventoryInv
<1>3. first # 0 => Chain = [i \in 1..(n - first + 1) |-> first + i - 1]
  BY ChainIs
<1> HIDE DEF n
<1>4. (first = 0) = (current = 0)
  BY <1>2 DEF Linked
<1>5. ASSUME first # 0
      PROVE  /\ reqs[first].prev = 0 /\ reqs[current].next = 0
             /\ Chain[Len(Chain)] = current
             /\ \A i \in 1..(Len(Chain) - 1) :
                   /\ reqs[Chain[i + 1]].prev = Chain[i]
                   /\ reqs[Chain[i]].id < reqs[Chain[i + 1]].id
  <2>1. /\ first \in 1..n /\ current = n
        /\ \A i \in first..n : /\ reqs[i].prev = IF i = first THEN 0 ELSE i - 1
                               /\ reqs[i].next = IF i = n THEN 0 ELSE i + 1
                               /\ i < n => reqs[i].id < reqs[i + 1].id
    BY <1>2, <1>5 DEF Linked
  <2> DEFINE p == n - first + 1
  <2>2. p \in Nat /\ p >= 1 /\ Chain = [i \in 1..p |-> first + i - 1]
    BY <1>2, <1>3, <1>5, <2>1
  <2>3. Len(Chain) = p
    BY <2>2
  <2>4. first + p - 1 = n
    BY <1>2, <2>1
  <2> HIDE DEF p
  <2>5. Chain[p] = current
    BY <2>1, <2>2, <2>4
  <2>6. reqs[first].prev = 0 /\ reqs[current].next = 0
    <3>1. first \in first..n /\ n \in first..n
      BY <1>2, <2>1
    <3> QED BY <2>1, <3>1
  <2>7. ASSUME NEW i \in 1..(p - 1)
        PROVE  reqs[Chain[i + 1]].prev = Chain[i] /\ reqs[Chain[i]].id < reqs[Chain[i + 1]].id
    <3>1. Chain[i] = first + i - 1 /\ Chain[i + 1] = first + (i + 1) - 1
      BY <2>2
    <3> DEFINE k == first + i - 1
    <3>2. /\ k \in first..n /\ k + 1 \in first..n /\ k < n /\ k + 1 # first /\ (k + 1) - 1 = k
          /\ first + (i + 1) - 1 = k + 1
      BY <1>2, <2>1, <2>2, <2>4
    <3> HIDE DEF k
    <3>3. Chain[i] = k /\ Chain[i + 1] = k + 1
      BY <3>1, <3>2 DEF k
    <3> QED BY <2>1, <3>2, <3>3
  <2> QED BY <2>3, <2>5, <2>6, <2>7
<1> QED BY <1>1, <1>4, <1>5 DEF ChainConsistent

\* The invariant makes the prediction the replay of what is pending.
LEMMA ReplayFollows == InventoryInv => PredictionIsReplay
<1> SUFFICES ASSUME InventoryInv, ~mixed, ~skipped PROVE items = Replay
  BY DEF PredictionIsReplay
<1> DEFINE n == Len(reqs)
           p == Len(Chain)
           Is(h) == h = [i \in 0..p |-> IF i = 0 THEN confirmed
                                        ELSE execute(reqs[Chain[i]].actions, h[i - 1], altOpen).items]
           run == CHOOSE h : Is(h)
<1>0. confirmed \in Inventories
  BY DEF InventoryInv
<1>1. n \in Nat /\ first \in 0..n /\ Predicted(items, reqs, first, n, confirmed, altOpen)
  BY DEF InventoryInv
<1>2. Replay = run[p]
  BY DEF Replay
<1>3. (first = 0 => Chain = <<>>) /\ (first # 0 => Chain = [i \in 1..(n - first + 1) |-> first + i - 1])
  BY ChainIs
<1> HIDE DEF n
<1>4. /\ p \in Nat /\ (first = 0 => p = 0) /\ (first # 0 => p = n - first + 1)
      /\ \A i \in 1..p : Chain[i] = first + i - 1
  <2>1. CASE first = 0
    BY <1>3, <2>1
  <2>2. CASE first # 0
    <3> DEFINE l == n - first + 1
    <3>1. l \in Nat /\ Chain = [i \in 1..l |-> first + i - 1]
      BY <1>1, <1>3, <2>2
    <3> HIDE DEF l
    <3>2. p = l /\ \A i \in 1..p : Chain[i] = first + i - 1
      BY <3>1
    <3> QED BY <2>2, <3>1, <3>2 DEF l
  <2> QED BY <2>1, <2>2
<1> HIDE DEF p
<1>5. \E g : /\ g[0] = confirmed /\ g[p] = items
             /\ \A i \in 1..p : g[i] = execute(reqs[Chain[i]].actions, g[i - 1], altOpen).items
             /\ g \in [0..p -> Inventories]
  <2>1. CASE first = 0
    <3> DEFINE g == [i \in 0..p |-> confirmed]
    <3>1. p = 0 /\ items = confirmed
      BY <1>1, <1>4, <2>1 DEF Predicted
    <3>2. g[0] = confirmed /\ g[p] = items /\ g \in [0..p -> Inventories]
      BY <1>0, <3>1
    <3>3. \A i \in 1..p : FALSE
      BY <3>1
    <3> HIDE DEF g
    <3> QED BY <3>2, <3>3
  <2>2. CASE first # 0
    <3>1. PICK r : Runs(r, items, reqs, first, n, confirmed, altOpen)
      BY <1>1, <2>2 DEF Predicted
    <3>2. /\ r[first - 1] = confirmed /\ r[n] = items
          /\ \A i \in first..n : r[i] = execute(reqs[i].actions, r[i - 1], altOpen).items
      BY <3>1 DEF Runs
    <3> DEFINE g == [i \in 0..p |-> r[first - 1 + i]]
    <3>3. 0 \in 0..p /\ p \in 0..p /\ first - 1 + 0 = first - 1 /\ first - 1 + p = n
      BY <1>1, <1>4, <2>2
    <3>4. g[0] = confirmed /\ g[p] = items
      BY <3>2, <3>3
    <3>5. \A i \in 1..p : g[i] = execute(reqs[Chain[i]].actions, g[i - 1], altOpen).items
      <4> TAKE i \in 1..p
      <4>1. /\ i \in 0..p /\ i - 1 \in 0..p /\ first + i - 1 \in first..n
            /\ first - 1 + i = first + i - 1 /\ first - 1 + (i - 1) = (first + i - 1) - 1
        BY <1>1, <1>4, <2>2
      <4>2. g[i] = r[first + i - 1] /\ g[i - 1] = r[(first + i - 1) - 1]
        BY <4>1
      <4> HIDE DEF g
      <4> QED BY <1>4, <3>2, <4>1, <4>2
    <3>6. g \in [0..p -> Inventories]
      <4>1. \A i \in 0..p : first - 1 + i \in Nat
        BY <1>1, <1>4, <2>2
      <4>2. r \in [Nat -> Inventories]
        BY <3>1 DEF Runs
      <4> QED BY <4>1, <4>2
    <3> HIDE DEF g
    <3> QED BY <3>4, <3>5, <3>6
  <2> QED BY <2>1, <2>2
<1>6. PICK g : /\ g[0] = confirmed /\ g[p] = items
               /\ \A i \in 1..p : g[i] = execute(reqs[Chain[i]].actions, g[i - 1], altOpen).items
               /\ g \in [0..p -> Inventories]
  BY <1>5
<1>7. Is(g)
  <2> DEFINE h == [i \in 0..p |-> IF i = 0 THEN confirmed
                                  ELSE execute(reqs[Chain[i]].actions, g[i - 1], altOpen).items]
  <2>0. p \in Nat
    BY <1>4
  <2>1. \A i \in 0..p : g[i] = h[i]
    <3> TAKE i \in 0..p
    <3>1. CASE i = 0
      BY <3>1, <1>6
    <3>2. CASE i # 0
      <4>1. i \in 1..p
        BY <3>2, <2>0
      <4> QED BY <4>1, <3>2, <1>6
    <3> QED BY <3>1, <3>2
  <2> QED BY <2>1, <1>6
<1>8. run = [i \in 0..p |-> IF i = 0 THEN confirmed
                            ELSE execute(reqs[Chain[i]].actions, run[i - 1], altOpen).items]
  <2>1. Is(run)
    BY <1>7
  <2> QED BY <2>1, Zenon
<1> HIDE DEF run, Is
<1>9. run[0] = confirmed /\ \A i \in 1..p : run[i] = execute(reqs[Chain[i]].actions, run[i - 1], altOpen).items
  <2>1. 0 \in 0..p /\ \A k \in 1..p : k \in 0..p /\ k # 0
    BY <1>4
  <2> QED BY <1>8, <2>1
<1>10. \A i \in 0..p : g[i] = run[i]
  <2>1. g[0] = run[0]
    BY <1>6, <1>9
  <2>2. \A i \in 1..p : g[i - 1] = run[i - 1] => g[i] = run[i]
    BY <1>6, <1>9
  <2>3. p \in Nat
    BY <1>4
  <2> QED BY <2>1, <2>2, <2>3, SameTurns
<1>11. p \in 0..p
  BY <1>4
<1> QED BY <1>2, <1>6, <1>10, <1>11

\* After every step the requests behind firstRequest are linked in the order they
\* were made, each remembers what it found, and the prediction is a run of them from
\* the confirmed inventory (HandleSingleRequest, HandleItemStackResponse).
THEOREM InventoryInvariant == InventorySpec => []InventoryInv
<1> QED BY InventoryStart, InventoryStep, PTL DEF InventorySpec

\* The chain of requests is a list that reads the same from firstRequest and from
\* currentRequest, in the order of the ids, and accept() never panics, for any slots,
\* requests, updates and batches of responses.
THEOREM RequestsStayLinked == InventorySpec => []ChainConsistent
<1> QED BY InventoryInvariant, ChainFollows, PTL

\* invReq.execute, accept and reject cancel: the predicted inventory is the replay of
\* the pending requests on what the server has confirmed, whatever the requests do.
THEOREM PredictionReplays == InventorySpec => []PredictionIsReplay
<1> QED BY InventoryInvariant, ReplayFollows, PTL

-----------------------------------------------------------------------------
(* BLOCKS *)

\* What the proofs use of the table of rules.
Plants == {"SugarCane", "Cactus"}
Halves == {"CopperDoorTop", "WoodDoorTop", "DoubleFlowerTop", "DoubleTallGrassTop"}
Pairs == {"CopperDoor", "WoodDoor", "DoubleFlower", "DoubleTallGrass"}
Added == {"PinkPetalsFull", "SeaPickleFull", "DoubleSlab", "Stone", "Glowstone"}
Regular(table) ==
    \A k \in DOMAIN table :
        /\ k \notin Halves /\ k \notin Added /\ k # "Air"
        /\ table[k] = "door" => k \in {"CopperDoor", "WoodDoor"}
        /\ table[k] = "tall" => k \in {"DoubleFlower", "DoubleTallGrass"}
        /\ k \in Pairs => table[k] \in {"door", "tall"}
        /\ k = "SugarCane" => table[k] = "cane"
        /\ k = "Cactus" => table[k] = "cactus"
        /\ table[k] = "slab" => k = "Slab"
        /\ table[k] = "petals" => k = "PinkPetals"
        /\ table[k] = "pickles" => k = "SeaPickle"
        /\ k = "Slab" => table[k] = "slab"

LEMMA RegularUnion ==
  ASSUME NEW f, NEW g, Regular(f), Regular(g)
  PROVE  Regular(f ++ g)
BY DEF Regular, ++

LEMMA RegularFree ==
  ASSUME NEW S, NEW r, S \cap (Halves \cup Added \cup Pairs \cup Plants \cup {"Slab", "Air"}) = {},
         r \notin {"door", "tall", "slab", "petals", "pickles"}
  PROVE  Regular(Rule(S, r))
BY DEF Regular, Rule, Halves, Added, Pairs, Plants

LEMMA RulesAnvilToCocoa_Regular == Regular(RulesAnvilToCocoa)
<1>1. Regular(Rule({"Anvil", "Barrel", "Basalt", "BlastFurnace", "Bone", "BrewingStand",
                   "IronChain", "Chest"}, "free"))
  BY RegularFree DEF Halves, Added, Pairs, Plants
<1>2. Regular(Rule({"Banner"}, "notDown"))
  BY RegularFree DEF Halves, Added, Pairs, Plants
<1>3. Regular(Rule({"BeetrootSeeds", "Carrot"}, "farmland"))
  BY RegularFree DEF Halves, Added, Pairs, Plants
<1>4. Regular(Rule({"Cactus"}, "cactus"))
  BY DEF Regular, Rule, Halves, Added, Pairs
<1>5. Regular(Rule({"Cake", "Carpet"}, "notOnAir"))
  BY RegularFree DEF Halves, Added, Pairs, Plants
<1>6. Regular(Rule({"Campfire"}, "notOnCampfire"))
  BY RegularFree DEF Halves, Added, Pairs, Plants
<1>7. Regular(Rule({"CocoaBean"}, "cocoa"))
  BY RegularFree DEF Halves, Added, Pairs, Plants
<1> QED BY <1>1, <1>2, <1>3, <1>4, <1>5, <1>6, <1>7, RegularUnion DEF RulesAnvilToCocoa

LEMMA RulesCopperToGlazed_Regular == Regular(RulesCopperToGlazed)
<1>1. Regular(Rule({"CopperDoor"}, "door"))
  BY DEF Regular, Rule, Halves, Added, Pairs
<1>2. Regular(Rule({"Coral"}, "coral"))
  BY RegularFree DEF Halves, Added, Pairs, Plants
<1>3. Regular(Rule({"CopperTrapdoor", "DeadBush", "DecoratedPot", "Deepslate", "EndRod",
                   "EnderChest", "Froglight", "Furnace", "GlazedTerracotta"}, "free"))
  BY RegularFree DEF Halves, Added, Pairs, Plants
<1>4. Regular(Rule({"DoubleFlower", "DoubleTallGrass"}, "tall"))
  BY DEF Regular, Rule, Halves, Added, Pairs
<1>5. Regular(Rule({"Fern", "Flower"}, "soil"))
  BY RegularFree DEF Halves, Added, Pairs, Plants
<1> QED BY <1>1, <1>2, <1>3, <1>4, <1>5, RegularUnion DEF RulesCopperToGlazed

LEMMA RulesGrindstoneToLoom_Regular == Regular(RulesGrindstoneToLoom)
<1>1. Regular(Rule({"Grindstone", "HayBale", "Hopper", "Leaves", "Lectern", "LitPumpkin", "Log",
                   "Loom"}, "free"))
  BY RegularFree DEF Halves, Added, Pairs, Plants
<1>2. Regular(Rule({"ItemFrame"}, "frame"))
  BY RegularFree DEF Halves, Added, Pairs, Plants
<1>3. Regular(Rule({"Kelp"}, "kelp"))
  BY RegularFree DEF Halves, Added, Pairs, Plants
<1>4. Regular(Rule({"Ladder"}, "ladder"))
  BY RegularFree DEF Halves, Added, Pairs, Plants
<1>5. Regular(Rule({"Lantern"}, "lantern"))
  BY RegularFree DEF Halves, Added, Pairs, Plants
<1>6. Regular(Rule({"LilyPad"}, "lily"))
  BY RegularFree DEF Halves, Added, Pairs, Plants
<1> QED BY <1>1, <1>2, <1>3, <1>4, <1>5, <1>6, RegularUnion DEF RulesGrindstoneToLoom

LEMMA RulesMelonToShortGrass_Regular == Regular(RulesMelonToShortGrass)
<1>1. Regular(Rule({"MelonSeeds", "Potato", "PumpkinSeeds"}, "farmland"))
  BY RegularFree DEF Halves, Added, Pairs, Plants
<1>2. Regular(Rule({"MossCarpet"}, "notOnAir"))
  BY RegularFree DEF Halves, Added, Pairs, Plants
<1>3. Regular(Rule({"MuddyMangroveRoots", "Pumpkin", "PurpurPillar", "QuartzPillar"}, "free"))
  BY RegularFree DEF Halves, Added, Pairs, Plants
<1>4. Regular(Rule({"NetherSprouts", "ShortGrass"}, "soil"))
  BY RegularFree DEF Halves, Added, Pairs, Plants
<1>5. Regular(Rule({"NetherWart"}, "soulSand"))
  BY RegularFree DEF Halves, Added, Pairs, Plants
<1>6. Regular(Rule({"PinkPetals"}, "petals"))
  BY DEF Regular, Rule, Halves, Added, Pairs
<1>7. Regular(Rule({"SeaPickle"}, "pickles"))
  BY DEF Regular, Rule, Halves, Added, Pairs
<1> QED BY <1>1, <1>2, <1>3, <1>4, <1>5, <1>6, <1>7, RegularUnion DEF RulesMelonToShortGrass

LEMMA RulesSignToVines_Regular == Regular(RulesSignToVines)
<1>1. Regular(Rule({"Sign", "Skull"}, "notDown"))
  BY RegularFree DEF Halves, Added, Pairs, Plants
<1>2. Regular(Rule({"Slab"}, "slab"))
  BY DEF Regular, Rule, Halves, Added, Pairs
<1>3. Regular(Rule({"Smoker", "Sponge", "Stairs", "Stonecutter"}, "free"))
  BY RegularFree DEF Halves, Added, Pairs, Plants
<1>4. Regular(Rule({"SporeBlossom"}, "hangs"))
  BY RegularFree DEF Halves, Added, Pairs, Plants
<1>5. Regular(Rule({"SugarCane"}, "cane"))
  BY DEF Regular, Rule, Halves, Added, Pairs
<1>6. Regular(Rule({"Torch"}, "torch"))
  BY RegularFree DEF Halves, Added, Pairs, Plants
<1>7. Regular(Rule({"Vines"}, "vines"))
  BY RegularFree DEF Halves, Added, Pairs, Plants
<1> QED BY <1>1, <1>2, <1>3, <1>4, <1>5, <1>6, <1>7, RegularUnion DEF RulesSignToVines

LEMMA RulesWallToWood_Regular == Regular(RulesWallToWood)
<1>1. Regular(Rule({"Wall", "WoodFenceGate", "WoodTrapdoor", "Wood"}, "free"))
  BY RegularFree DEF Halves, Added, Pairs, Plants
<1>2. Regular(Rule({"WheatSeeds"}, "farmland"))
  BY RegularFree DEF Halves, Added, Pairs, Plants
<1>3. Regular(Rule({"WoodDoor"}, "door"))
  BY DEF Regular, Rule, Halves, Added, Pairs
<1> QED BY <1>1, <1>2, <1>3, RegularUnion DEF RulesWallToWood

LEMMA RulesRegular == Regular(Rules)
BY RulesAnvilToCocoa_Regular, RulesCopperToGlazed_Regular, RulesGrindstoneToLoom_Regular,
   RulesMelonToShortGrass_Regular, RulesSignToVines_Regular, RulesWallToWood_Regular, RegularUnion DEF Rules

-----------------------------------------------------------------------------
(* breaking *)

\* The empty position is no cell.
LEMMA NoCell == NoPos \notin Cells
BY DEF NoPos, Cells

\* What a copy of the world may hold while blocks are broken.
Contents == {"Air"} \cup {world[c] : c \in Cells}
BreakStates ==
    [world : [Cells -> Contents], pos : Cells \cup {NoPos}, inProgress : BOOLEAN,
     progress : 0..Full, spent : SUBSET Cells, disturbed : BOOLEAN]

\* Progress belongs to the block at pos, a break in progress has a block, and the world
\* is as it was unless a block was broken.
Belongs(s) ==
    /\ s.progress = 0 => s.spent = {}
    /\ s.progress # 0 => s.pos # NoPos /\ s.spent = {s.pos}
    /\ s.inProgress => s.pos # NoPos
    /\ ~s.disturbed => s.world = world /\ ~disturbed
HeldStates == {s \in BreakStates : Belongs(s)}

\* A tick takes some of a block.
LEMMA TickRange ==
  ASSUME NEW w, NEW c
  PROVE  TickProgress(w, c) \in 1..Full
BY DEF TickProgress, Full

LEMMA CapRange ==
  ASSUME NEW n \in 1..(2 * Full)
  PROVE  Cap(n) \in 1..Full
BY DEF Cap, Full

\* Progress on the block that has it, or on another when there is none.
LEMMA AdvanceKeeps ==
  ASSUME NEW s \in HeldStates, NEW c \in Cells, s.progress = 0 \/ s.pos = c
  PROVE  LET t == Advance(s, c)
         IN  /\ t \in BreakStates /\ t.spent = {c} /\ t.progress \in 1..Full
             /\ t.pos = s.pos /\ t.inProgress = s.inProgress
             /\ t.disturbed = s.disturbed /\ t.world = s.world
<1> DEFINE p == Cap(s.progress + TickProgress(s.world, c))
<1>1. s \in BreakStates /\ Belongs(s) /\ s.progress \in 0..Full
  BY DEF HeldStates, BreakStates
<1>2. s.progress + TickProgress(s.world, c) \in 1..(2 * Full)
  BY <1>1, TickRange DEF Full
<1>3. p \in 1..Full
  BY <1>2, CapRange
<1>4. p \in 0..Full
  BY <1>3 DEF Full
<1>5. s.spent \cup {c} = {c}
  BY <1>1 DEF Belongs
<1>6. Advance(s, c) = [s EXCEPT !.progress = p, !.spent = s.spent \cup {c}]
  BY <1>1 DEF Advance, BreakStates
<1> HIDE DEF p
<1> QED BY <1>1, <1>3, <1>4, <1>5, <1>6 DEF BreakStates

\* NoProgress clears two fields.
LEMMA NoProgressFields ==
  ASSUME NEW s \in BreakStates
  PROVE  /\ NoProgress(s) \in BreakStates /\ NoProgress(s).progress = 0 /\ NoProgress(s).spent = {}
         /\ NoProgress(s).pos = s.pos /\ NoProgress(s).inProgress = s.inProgress
         /\ NoProgress(s).world = s.world /\ NoProgress(s).disturbed = s.disturbed
<1>1. 0 \in 0..Full /\ {} \in SUBSET Cells
  BY DEF Full
<1> QED BY <1>1 DEF NoProgress, BreakStates

\* Progress that is given up.
LEMMA NoProgressKeeps ==
  ASSUME NEW s \in BreakStates, s.inProgress => s.pos # NoPos,
         ~s.disturbed => s.world = world /\ ~disturbed
  PROVE  /\ NoProgress(s) \in HeldStates /\ NoProgress(s).progress = 0
         /\ NoProgress(s).pos = s.pos /\ NoProgress(s).inProgress = s.inProgress
         /\ NoProgress(s).world = s.world /\ NoProgress(s).disturbed = s.disturbed
BY NoProgressFields DEF HeldStates, Belongs

\* CrackBreak goes on with the block it names, or starts again with it.
LEMMA CrackKeeps ==
  ASSUME NEW s \in HeldStates, NEW c \in Cells
  PROVE  CrackBreak(s, c) \in HeldStates
<1> DEFINE r == IF s.pos = c THEN s ELSE NoProgress(s)
           t == Advance(r, c)
<1>1. s \in BreakStates /\ Belongs(s)
  BY DEF HeldStates
<1>2. r \in HeldStates /\ (r.progress = 0 \/ r.pos = c)
  BY <1>1, NoProgressKeeps DEF Belongs
<1>3. Belongs(r)
  BY <1>2 DEF HeldStates
<1> HIDE DEF r
<1>4. /\ t \in BreakStates /\ t.spent = {c} /\ t.progress \in 1..Full
      /\ t.disturbed = r.disturbed /\ t.world = r.world
  BY <1>2, AdvanceKeeps
<1>5. CrackBreak(s, c) = [t EXCEPT !.pos = c]
  BY DEF CrackBreak, r
<1> HIDE DEF t
<1> DEFINE u == [t EXCEPT !.pos = c]
<1>6. /\ u \in BreakStates /\ u.spent = {c} /\ u.pos = c /\ u.progress = t.progress
      /\ u.disturbed = t.disturbed /\ u.world = t.world
  BY <1>4 DEF BreakStates
<1>7. c # NoPos /\ t.progress # 0
  BY <1>4, NoCell
<1>8. Belongs(u)
  BY <1>3, <1>4, <1>6, <1>7 DEF Belongs
<1> QED BY <1>5, <1>6, <1>8 DEF HeldStates

\* ContinueDestroyBlock likewise, and it puts the break in progress.
LEMMA ContinueKeeps ==
  ASSUME NEW s \in HeldStates, NEW c \in Cells
  PROVE  ContinueDestroy(s, c) \in HeldStates
<1> DEFINE r == IF s.inProgress /\ s.pos \in {NoPos, c} THEN s ELSE NoProgress(s)
           t == Advance(r, c)
<1>1. s \in BreakStates /\ Belongs(s)
  BY DEF HeldStates
<1>2. r \in HeldStates /\ (r.progress = 0 \/ r.pos = c)
  BY <1>1, NoProgressKeeps DEF Belongs
<1>3. Belongs(r)
  BY <1>2 DEF HeldStates
<1> HIDE DEF r
<1>4. /\ t \in BreakStates /\ t.spent = {c} /\ t.progress \in 1..Full
      /\ t.disturbed = r.disturbed /\ t.world = r.world
  BY <1>2, AdvanceKeeps
<1>5. ContinueDestroy(s, c) = [t EXCEPT !.pos = c, !.inProgress = TRUE]
  BY DEF ContinueDestroy, r
<1> HIDE DEF t
<1> DEFINE u == [t EXCEPT !.pos = c, !.inProgress = TRUE]
<1>6. /\ u \in BreakStates /\ u.spent = {c} /\ u.pos = c /\ u.progress = t.progress
      /\ u.disturbed = t.disturbed /\ u.world = t.world
  BY <1>4 DEF BreakStates
<1>7. c # NoPos /\ t.progress # 0
  BY <1>4, NoCell
<1>8. Belongs(u)
  BY <1>3, <1>4, <1>6, <1>7 DEF Belongs
<1> QED BY <1>5, <1>6, <1>8 DEF HeldStates

\* StartBreak gives up what was done before.
LEMMA StartKeeps ==
  ASSUME NEW s \in HeldStates, NEW c \in Cells
  PROVE  StartBreak(s, c) \in HeldStates
<1>1. s \in BreakStates /\ Belongs(s)
  BY DEF HeldStates
<1> DEFINE n == NoProgress(s)
           r == [n EXCEPT !.inProgress = TRUE]
           q == IF r.pos = c THEN r ELSE NoProgress(r)
           t == Advance(q, c)
           u == [t EXCEPT !.pos = c]
<1>2. /\ n \in BreakStates /\ n.progress = 0 /\ n.spent = {} /\ n.disturbed = s.disturbed
      /\ n.world = s.world /\ n.pos = s.pos
  BY <1>1, NoProgressFields
<1> HIDE DEF n
<1>9. /\ r \in BreakStates /\ r.progress = 0 /\ r.spent = {} /\ r.disturbed = s.disturbed
      /\ r.world = s.world
  BY <1>2 DEF BreakStates
<1> HIDE DEF r
<1>3. /\ q \in BreakStates /\ q.progress = 0 /\ q.spent = {} /\ q.disturbed = s.disturbed
      /\ q.world = s.world
  BY <1>9, NoProgressFields
<1> HIDE DEF q
<1> DEFINE p == Cap(q.progress + TickProgress(q.world, c))
<1>4. p \in 1..Full
  <2>1. q.progress + TickProgress(q.world, c) \in 1..(2 * Full)
    BY <1>3, TickRange DEF Full
  <2> QED BY <2>1, CapRange
<1>5. t = [q EXCEPT !.progress = p, !.spent = q.spent \cup {c}]
  BY <1>3 DEF Advance, BreakStates
<1>6. p \in 0..Full /\ p # 0 /\ c # NoPos
  BY <1>4, NoCell DEF Full
<1> HIDE DEF p, t
<1>7. /\ u \in BreakStates /\ u.spent = {c} /\ u.pos = c /\ u.progress = p
      /\ u.disturbed = s.disturbed /\ u.world = s.world
  BY <1>3, <1>5, <1>6 DEF BreakStates
<1>8. Belongs(u)
  BY <1>1, <1>6, <1>7 DEF Belongs
<1>10. StartBreak(s, c) = u
  BY DEF StartBreak, CrackBreak, n, r, q, t
<1> QED BY <1>7, <1>8, <1>10 DEF HeldStates

\* AbortBreak leaves nothing.
LEMMA AbortKeeps ==
  ASSUME NEW s \in HeldStates
  PROVE  AbortBreak(s) \in HeldStates
<1> DEFINE n == NoProgress(s)
           u == [n EXCEPT !.pos = NoPos, !.inProgress = FALSE]
<1>1. s \in BreakStates /\ Belongs(s)
  BY DEF HeldStates
<1>2. /\ n \in BreakStates /\ n.progress = 0 /\ n.spent = {} /\ n.disturbed = s.disturbed
      /\ n.world = s.world
  BY <1>1, NoProgressFields
<1>3. AbortBreak(s) = u
  BY DEF AbortBreak
<1> HIDE DEF n
<1>4. /\ u \in BreakStates /\ u.progress = 0 /\ u.spent = {} /\ u.disturbed = s.disturbed
      /\ u.world = s.world /\ u.inProgress = FALSE
  BY <1>2 DEF BreakStates
<1>5. Belongs(u)
  BY <1>1, <1>4 DEF Belongs
<1> QED BY <1>3, <1>4, <1>5 DEF HeldStates

\* A block that is broken: nothing is in progress, and the world was disturbed.
LEMMA BrokenKeeps ==
  ASSUME NEW s \in BreakStates, NEW c
  PROVE  Broken(s, c) \in HeldStates
<1> DEFINE n == NoProgress(s)
           w == [d \in Cells |-> IF d = c THEN "Air" ELSE n.world[d]]
           u == [n EXCEPT !.inProgress = FALSE, !.disturbed = TRUE, !.world = w]
<1>1. n \in BreakStates /\ n.progress = 0 /\ n.spent = {}
  BY NoProgressFields
<1>2. Broken(s, c) = u
  <2>1. n.world = [n EXCEPT !.inProgress = FALSE, !.disturbed = TRUE].world
    BY <1>1 DEF BreakStates
  <2> QED BY <1>1 DEF Broken, BreakStates
<1> HIDE DEF n
<1>3. w \in [Cells -> Contents]
  BY <1>1 DEF BreakStates, Contents
<1> HIDE DEF w
<1>4. u \in BreakStates /\ u.progress = 0 /\ u.spent = {} /\ u.inProgress = FALSE /\ u.disturbed = TRUE
  BY <1>1, <1>3 DEF BreakStates
<1>5. Belongs(u)
  BY <1>4 DEF Belongs
<1> QED BY <1>2, <1>4, <1>5 DEF HeldStates

\* tryBreakBlock either breaks the block or gives its progress up.
LEMMA TryKeeps ==
  ASSUME NEW s \in HeldStates, s.pos # NoPos, NEW f
  PROVE  LET r == tryBreakBlock(s, f)
         IN  r.state \in BreakStates /\ (~r.broken => r.state \in HeldStates)
<1> DEFINE t == Advance(s, s.pos)
<1>1. s \in BreakStates /\ Belongs(s) /\ s.pos \in Cells
  BY DEF HeldStates, BreakStates
<1>2. /\ t \in BreakStates /\ t.pos = s.pos /\ t.inProgress = s.inProgress
      /\ t.disturbed = s.disturbed /\ t.world = s.world
  BY <1>1, AdvanceKeeps
<1> HIDE DEF t
<1>3. NoProgress(t) \in HeldStates
  BY <1>1, <1>2, NoProgressKeeps DEF Belongs
<1>4. NoProgress(t) \in BreakStates
  BY <1>3 DEF HeldStates
<1>5. tryBreakBlock(s, f) = [broken |-> TRUE, state |-> t] \/ tryBreakBlock(s, f) = [broken |-> FALSE, state |-> NoProgress(t)]
  BY DEF tryBreakBlock, t
<1> QED BY <1>2, <1>3, <1>4, <1>5

\* Any block action.
LEMMA ActKeeps ==
  ASSUME NEW s \in HeldStates, NEW a \in BlockActions
  PROVE  ActOn(s, a) \in HeldStates
<1>1. s \in BreakStates
  BY DEF HeldStates
<1>2. \/ a.type \in {"start", "crack", "continue"} /\ a.pos \in Cells
      \/ a.type \in {"abort", "stop", "predict"}
  BY InteractionAssumption DEF BlockActions
<1>3. CASE a.type = "start"
  BY <1>2, <1>3, StartKeeps DEF ActOn
<1>4. CASE a.type = "crack"
  BY <1>2, <1>4, CrackKeeps DEF ActOn
<1>5. CASE a.type = "continue"
  BY <1>2, <1>5, ContinueKeeps DEF ActOn
<1>6. CASE a.type = "abort"
  BY <1>6, AbortKeeps DEF ActOn
<1>7. CASE a.type = "stop"
  <2>1. ActOn(s, a) = StopBreak(s, a.face)
    BY <1>7 DEF ActOn
  <2> QED BY <2>1, TryKeeps, BrokenKeeps DEF StopBreak
<1>8. CASE a.type = "predict"
  <2>1. ActOn(s, a) = PredictDestroy(s, a.pos, a.face)
    BY <1>8 DEF ActOn
  <2> QED BY <2>1, TryKeeps, BrokenKeeps DEF PredictDestroy
<1> QED BY <1>2, <1>3, <1>4, <1>5, <1>6, <1>7, <1>8

\* The tick on the block being broken.
LEMMA TickKeeps ==
  ASSUME NEW s \in HeldStates
  PROVE  AdvanceCurrent(s) \in HeldStates
<1>1. s \in BreakStates /\ Belongs(s) /\ s.pos \in Cells \cup {NoPos}
  BY DEF HeldStates, BreakStates
<1>2. CASE s.pos # NoPos /\ s.inProgress /\ serverAuth
  <2> DEFINE t == Advance(s, s.pos)
  <2>1. /\ t \in BreakStates /\ t.spent = {s.pos} /\ t.progress \in 1..Full
        /\ t.pos = s.pos /\ t.inProgress = s.inProgress
        /\ t.disturbed = s.disturbed /\ t.world = s.world
    BY <1>1, <1>2, AdvanceKeeps
  <2>2. AdvanceCurrent(s) = t
    BY <1>2 DEF AdvanceCurrent
  <2> HIDE DEF t
  <2>3. Belongs(t)
    BY <1>1, <1>2, <2>1 DEF Belongs
  <2> QED BY <2>1, <2>2, <2>3 DEF HeldStates
<1>3. CASE ~(s.pos # NoPos /\ s.inProgress /\ serverAuth)
  BY <1>3 DEF AdvanceCurrent
<1> QED BY <1>2, <1>3

-----------------------------------------------------------------------------
(* what stands on what *)

LEMMA Below ==
  ASSUME NEW c \in Int \X Int
  PROVE  /\ Up(c) \in Int \X Int /\ Down(c) \in Int \X Int
         /\ Down(Up(c)) = c /\ Up(Down(c)) = c
         /\ Up(c) # c /\ Down(c) # c /\ Down(c) # Up(c)
         /\ Down(c) = <<c[1], c[2] - 1>> /\ Up(c) = <<c[1], c[2] + 1>>
BY DEF Up, Down, Side

LEMMA CellPlace == Cells \subseteq Int \X Int
BY InteractionAssumption DEF Cells

\* Every side of a cell is a place.
LEMMA SidePlace ==
  ASSUME NEW c \in Int \X Int, NEW f \in Faces
  PROVE  Side(c, f) \in Int \X Int
BY DEF Side, Faces

\* The halves of doors and tall plants.
LEMMA TopFacts ==
  /\ DOMAIN Top = Pairs
  /\ \A k \in Pairs : Top[k] \in Halves /\ k \notin Halves /\ k \notin Added /\ k # "Air"
                      /\ Top[k] # "Air"
  /\ \A k \in Pairs \ Replaceables : Top[k] \notin Replaceables
  /\ \A k, l \in Pairs : Top[k] = Top[l] => k = l
  /\ \A k \in Pairs : Top[k] \notin Added
<1>1. DOMAIN Top = Pairs
  BY DEF Top, Pairs
<1>2. /\ Top["CopperDoor"] = "CopperDoorTop" /\ Top["WoodDoor"] = "WoodDoorTop"
      /\ Top["DoubleFlower"] = "DoubleFlowerTop" /\ Top["DoubleTallGrass"] = "DoubleTallGrassTop"
  BY DEF Top
<1>3. \A k, l \in Pairs : Top[k] = Top[l] => k = l
  BY <1>2 DEF Pairs
<1>4. \A k \in Pairs : Top[k] \in Halves /\ Top[k] # "Air" /\ Top[k] \notin Added
  BY <1>2 DEF Pairs, Halves, Added
<1>5. \A k \in Pairs : k \notin Halves /\ k \notin Added /\ k # "Air"
  BY DEF Pairs, Halves, Added
<1>6. \A k \in Pairs \ Replaceables : Top[k] \notin Replaceables
  BY <1>2 DEF Pairs, Replaceables
<1> QED BY <1>1, <1>3, <1>4, <1>5, <1>6

\* What can be replaced is ground only for what stands on anything.
LEMMA Ground ==
  ASSUME NEW b, NEW x \in Replaceables, Footing(b, x), NEW y, y # "Air"
  PROVE  Footing(b, y)
<1>1. /\ x # "Farmland" /\ x # "SoulSand" /\ x \notin Solids /\ ~SoilFor(x, b)
      /\ x # "SugarCane" /\ x # "Cactus" /\ x # "Kelp"
  BY DEF Replaceables, Solids, SoilFor
<1> QED BY <1>1 DEF Footing

\* An upper half, and what is not placed by a rule, needs no footing.
LEMMA Anywhere ==
  ASSUME NEW b \in Halves \cup Added, NEW y
  PROVE  Footing(b, y)
<1>1. b \notin DOMAIN Rules /\ b \notin {"SugarCane", "Cactus"}
  BY RulesRegular DEF Regular, Halves, Added
<1> QED BY <1>1 DEF Footing, Placed

\* A cane or a cactus that can grow stands on its soil or on itself.
LEMMA CaneFooting ==
  ASSUME NEW c \in Cells, canSugarCaneGrowOn(c)
  PROVE  Block(Down(c)) = "SugarCane" \/ SoilFor(Block(Down(c)), "SugarCane")
<1>1. c \in Int \X Int /\ c[2] \in Nat /\ Down(c) = <<c[1], c[2] - 1>>
  BY CellPlace, Below, InteractionAssumption DEF Cells
<1>2. PICK y \in 0..c[2] : /\ \A z \in y..(c[2] - 1) : Block(<<c[1], z>>) = "SugarCane"
                           /\ supportsVegetation("SugarCane", Block(<<c[1], y - 1>>))
  BY DEF canSugarCaneGrowOn
<1>3. CASE y = c[2]
  BY <1>1, <1>2, <1>3 DEF supportsVegetation
<1>4. CASE y # c[2]
  <2>1. c[2] - 1 \in y..(c[2] - 1)
    BY <1>1, <1>4
  <2> QED BY <1>1, <1>2, <2>1
<1> QED BY <1>3, <1>4

LEMMA CactusFooting ==
  ASSUME NEW c \in Cells, canCactusGrowOn(c)
  PROVE  Block(Down(c)) = "Cactus" \/ SoilFor(Block(Down(c)), "Cactus")
<1>1. c \in Int \X Int /\ c[2] \in Nat /\ Down(c) = <<c[1], c[2] - 1>>
  BY CellPlace, Below, InteractionAssumption DEF Cells
<1>2. PICK y \in 0..c[2] : /\ \A z \in y..(c[2] - 1) : Block(<<c[1], z>>) = "Cactus"
                           /\ supportsVegetation("Cactus", Block(<<c[1], y - 1>>))
  BY DEF canCactusGrowOn
<1>3. CASE y = c[2]
  BY <1>1, <1>2, <1>3 DEF supportsVegetation
<1>4. CASE y # c[2]
  <2>1. c[2] - 1 \in y..(c[2] - 1)
    BY <1>1, <1>4
  <2> QED BY <1>1, <1>2, <2>1
<1> QED BY <1>3, <1>4

\* A block that its rule suits has its footing.
LEMMA SuitsFooting ==
  ASSUME NEW k \in DOMAIN Rules, Rules[k] \notin {"door", "tall", "petals", "pickles"},
         NEW c \in Cells, NEW f, NEW at, NEW g,
         Suits(Rules[k], k, c, f, at, g)
  PROVE  Footing(k, Block(Down(c)))
<1> DEFINE rule == Rules[k]
<1>1. rule = "farmland" => Block(Down(c)) = "Farmland"
  BY DEF Suits
<1>2. rule = "soulSand" => Block(Down(c)) = "SoulSand"
  BY DEF Suits
<1>3. rule = "soil" => SoilFor(Block(Down(c)), k)
  BY DEF Suits, supportsVegetation
<1>4. k = "SugarCane" => Block(Down(c)) = k \/ SoilFor(Block(Down(c)), k)
  <2> HAVE k = "SugarCane"
  <2>1. rule = "cane"
    BY RulesRegular DEF Regular
  <2>2. canSugarCaneGrowOn(c)
    BY <2>1 DEF Suits
  <2> QED BY <2>2, CaneFooting
<1>5. k = "Cactus" => Block(Down(c)) = k \/ SoilFor(Block(Down(c)), k)
  <2> HAVE k = "Cactus"
  <2>1. rule = "cactus"
    BY RulesRegular DEF Regular
  <2>2. canCactusGrowOn(c)
    BY <2>1 DEF Suits
  <2> QED BY <2>2, CactusFooting
<1>6. rule = "coral" => Block(Down(c)) \in Solids
  BY DEF Suits, FaceSolid
<1>7. rule = "kelp" => Block(Down(c)) = "Kelp" \/ Block(Down(c)) \in Solids
  BY DEF Suits, FaceSolid
<1>8. rule = "notOnAir" => Block(Down(c)) # "Air"
  BY DEF Suits
<1> HIDE DEF rule
<1>9. rule = Rules[k]
  BY DEF rule
<1> QED BY <1>1, <1>2, <1>3, <1>4, <1>5, <1>6, <1>7, <1>8, <1>9 DEF Footing, Placed

-----------------------------------------------------------------------------
(* what a click asks for *)

\* Cells the blocks of a click may go to.
Free(bs) == {c \in DOMAIN bs \cap Cells : Block(c) \in Replaceables}

\* A block that may be placed has its footing, also when there is another below it; and
\* a half comes with the other, which may be placed too.  Nothing is placed as air.
Sits(bs) ==
    /\ IsFiniteSet(DOMAIN bs)
    /\ \A c \in Free(bs) :
        /\ bs[c] # "Air" /\ Footing(bs[c], Block(Down(c)))
        /\ Down(c) \in DOMAIN bs => \A y : Footing(bs[c], y)
        /\ bs[c] \in Pairs => Up(c) \in Free(bs) /\ bs[Up(c)] = Top[bs[c]]
        /\ bs[c] \in Halves => Down(c) \in Free(bs) /\ bs[Down(c)] \in Pairs /\ Top[bs[Down(c)]] = bs[c]

LEMMA NothingSits == Sits(Nothing)
<1>1. DOMAIN Nothing = {}
  BY DEF Nothing
<1> QED BY <1>1, FS_EmptySet DEF Sits, Free

\* One block that is no half.
LEMMA PlacingSits ==
  ASSUME NEW c \in Int \X Int, NEW b, b \notin Pairs, b \notin Halves, b # "Air",
         c \in Cells /\ Block(c) \in Replaceables => Footing(b, Block(Down(c)))
  PROVE  Sits(Placing(c, b))
<1> DEFINE bs == Placing(c, b)
<1>1. DOMAIN bs = {c} /\ bs[c] = b
  BY DEF Placing
<1>2. IsFiniteSet(DOMAIN bs)
  BY <1>1, FS_Singleton
<1>3. Down(c) # c
  BY Below
<1> HIDE DEF bs
<1>4. ASSUME NEW d \in Free(bs)
      PROVE  /\ Footing(bs[d], Block(Down(d))) /\ Down(d) \notin DOMAIN bs
             /\ bs[d] \notin Pairs /\ bs[d] \notin Halves /\ bs[d] # "Air"
  <2>1. d = c /\ c \in Cells /\ Block(c) \in Replaceables
    BY <1>1, <1>4 DEF Free
  <2> QED BY <1>1, <1>3, <2>1
<1>5. Sits(bs)
  BY <1>2, <1>4 DEF Sits
<1> QED BY <1>5 DEF bs

\* Both halves, where both cells are free.
LEMMA PlacingTwoSits ==
  ASSUME NEW c \in Cells, Block(c) \in Replaceables, Up(c) \in Cells, Block(Up(c)) \in Replaceables,
         NEW k \in Pairs, Footing(k, Block(Down(c)))
  PROVE  Sits(PlacingTwo(c, k))
<1> DEFINE bs == PlacingTwo(c, k)
<1>1. c \in Int \X Int /\ Up(c) # c /\ Down(c) # c /\ Down(c) # Up(c) /\ Down(Up(c)) = c
  BY CellPlace, Below
<1>2. DOMAIN bs = {c, Up(c)} /\ bs[c] = k /\ bs[Up(c)] = Top[k]
  BY <1>1 DEF PlacingTwo
<1>3. IsFiniteSet(DOMAIN bs)
  <2>1. IsFiniteSet({c}) /\ IsFiniteSet({Up(c)})
    BY FS_Singleton
  <2>2. IsFiniteSet({c} \cup {Up(c)})
    BY <2>1, FS_Union
  <2>3. {c, Up(c)} = {c} \cup {Up(c)}
    OBVIOUS
  <2> QED BY <1>2, <2>2, <2>3
<1> HIDE DEF bs
<1>4. Free(bs) = {c, Up(c)}
  BY <1>2 DEF Free
<1>5. Top[k] \in Halves /\ Top[k] \notin Pairs /\ k \notin Halves /\ k # "Air" /\ Top[k] # "Air"
  BY TopFacts
<1>6. \A y : Footing(Top[k], y)
  BY <1>5, Anywhere
<1>7. /\ bs[c] # "Air" /\ Footing(bs[c], Block(Down(c))) /\ Down(c) \notin DOMAIN bs
      /\ Up(c) \in Free(bs) /\ bs[Up(c)] = Top[bs[c]] /\ bs[c] \notin Halves
  BY <1>1, <1>2, <1>4, <1>5
<1>8. /\ \A y : Footing(bs[Up(c)], y)
      /\ bs[Up(c)] # "Air"
      /\ bs[Up(c)] \notin Pairs
      /\ Down(Up(c)) \in Free(bs) /\ bs[Down(Up(c))] \in Pairs /\ Top[bs[Down(Up(c))]] = bs[Up(c)]
  BY <1>1, <1>2, <1>4, <1>5, <1>6
<1>9. ASSUME NEW d \in Free(bs)
      PROVE  /\ bs[d] # "Air" /\ Footing(bs[d], Block(Down(d)))
             /\ Down(d) \in DOMAIN bs => \A y : Footing(bs[d], y)
             /\ bs[d] \in Pairs => Up(d) \in Free(bs) /\ bs[Up(d)] = Top[bs[d]]
             /\ bs[d] \in Halves => /\ Down(d) \in Free(bs) /\ bs[Down(d)] \in Pairs
                                    /\ Top[bs[Down(d)]] = bs[d]
  <2>1. CASE d = c
    BY <1>7, <2>1
  <2>2. CASE d = Up(c)
    BY <1>8, <2>2
  <2> QED BY <1>4, <2>1, <2>2
<1>10. Sits(bs)
  BY <1>3, <1>9 DEF Sits
<1> QED BY <1>10 DEF bs

\* A cell of firstReplaceable.
LEMMA FirstPlace ==
  ASSUME NEW at \in Cells, NEW f \in Faces, NEW k
  PROVE  LET t == firstReplaceable(at, f, k)
         IN  /\ t.pos \in Int \X Int
             /\ t.used => t.pos \in Cells /\ Block(t.pos) \in Replaceables
BY CellPlace, SidePlace DEF firstReplaceable, replaceableWith, ReplaceableBy

\* A block placed by its rule, or by the one UseOnBlock has for a heap or a slab.
LEMMA SingleSits ==
  ASSUME NEW k \in DOMAIN Rules, Rules[k] \notin {"door", "tall"}, NEW at \in Cells, NEW f \in Faces,
         NEW rule,
         \/ Rules[k] \notin {"petals", "pickles", "slab"} /\ rule = Rules[k]
         \/ Rules[k] = "petals" /\ rule = "soil"
         \/ Rules[k] = "pickles" /\ rule = "pickle"
         \/ Rules[k] = "slab" /\ rule = "free"
  PROVE  Sits(Single(rule, k, at, f))
<1> DEFINE t == firstReplaceable(at, f, k)
<1>1. t.pos \in Int \X Int /\ (t.used => t.pos \in Cells /\ Block(t.pos) \in Replaceables)
  BY FirstPlace
<1>2. k \notin Pairs /\ k \notin Halves /\ k # "Air"
  BY RulesRegular DEF Regular
<1>3. CASE ~(t.used /\ Suits(rule, k, t.pos, t.face, at, f))
  BY <1>3, NothingSits DEF Single
<1>4. CASE t.used /\ Suits(rule, k, t.pos, t.face, at, f)
  <2>1. Single(rule, k, at, f) = Placing(t.pos, k)
    BY <1>4 DEF Single
  <2> HIDE DEF t
  <2>2. Footing(k, Block(Down(t.pos)))
    <3>1. CASE Rules[k] \notin {"petals", "pickles", "slab"} /\ rule = Rules[k]
      BY <1>1, <1>4, <3>1, SuitsFooting
    <3>2. Rules[k] \in {"petals", "pickles", "slab"} => k \notin {"SugarCane", "Cactus"}
      BY RulesRegular DEF Regular
    <3>3. CASE Rules[k] = "petals" /\ rule = "soil"
      <4>1. SoilFor(Block(Down(t.pos)), k)
        BY <1>4, <3>3 DEF Suits, supportsVegetation
      <4> QED BY <3>2, <3>3, <4>1 DEF Footing, Placed
    <3>4. CASE Rules[k] = "pickles" /\ rule = "pickle"
      <4>1. seaPickleCanSurvive(t.pos)
        BY <1>4, <3>4 DEF Suits
      <4>2. Block(Down(t.pos)) \in Solids /\ Opaque(Block(Down(t.pos)))
        BY <4>1 DEF seaPickleCanSurvive, FaceSolid
      <4> QED BY <3>2, <3>4, <4>2 DEF Footing, Placed
    <3>5. CASE Rules[k] = "slab"
      BY <3>2, <3>5 DEF Footing, Placed
    <3> QED BY <3>1, <3>3, <3>4, <3>5
  <2> QED BY <1>1, <1>2, <2>1, <2>2, PlacingSits
<1> QED BY <1>3, <1>4

\* A block that is no half and needs no footing.
LEMMA AddedSits ==
  ASSUME NEW c \in Int \X Int, NEW b \in Added
  PROVE  Sits(Placing(c, b))
<1>1. b \notin Pairs /\ b \notin Halves /\ b # "Air"
  BY DEF Added, Pairs, Halves
<1>2. Footing(b, Block(Down(c)))
  BY Anywhere
<1> QED BY <1>1, <1>2, PlacingSits

\* Whatever UseOnBlock asks for sits.
LEMMA UseSits ==
  ASSUME NEW k \in DOMAIN Rules, NEW at \in Cells, NEW f \in Faces
  PROVE  Sits(UseOnBlock(k, at, f))
<1>0. at \in Int \X Int /\ Side(at, f) \in Int \X Int
  BY CellPlace, SidePlace
<1>1. CASE Rules[k] = "door"
  <2>1. UseOnBlock(k, at, f) = DoorBlocks(k, at, f)
    BY <1>1 DEF UseOnBlock
  <2>2. CASE /\ f = "up" /\ replaceableWith(Up(at), k) /\ replaceableWith(Up(Up(at)), k)
             /\ FaceSolid(Block(at))
    <3>1. /\ Up(at) \in Cells /\ Block(Up(at)) \in Replaceables
          /\ Up(Up(at)) \in Cells /\ Block(Up(Up(at))) \in Replaceables
      BY <2>2 DEF replaceableWith, ReplaceableBy
    <3>2. Block(Down(Up(at))) \in Solids
      BY <1>0, <2>2, Below DEF FaceSolid
    <3>3. Footing(k, Block(Down(Up(at))))
      <4>1. k \notin {"SugarCane", "Cactus"}
        BY <1>1, RulesRegular DEF Regular
      <4> QED BY <1>1, <3>2, <4>1 DEF Footing, Placed
    <3>4. k \in Pairs
      BY <1>1, RulesRegular DEF Regular, Pairs
    <3> QED BY <2>1, <2>2, <3>1, <3>3, <3>4, PlacingTwoSits DEF DoorBlocks
  <2>3. CASE ~(/\ f = "up" /\ replaceableWith(Up(at), k) /\ replaceableWith(Up(Up(at)), k)
               /\ FaceSolid(Block(at)))
    BY <2>1, <2>3, NothingSits DEF DoorBlocks
  <2> QED BY <2>2, <2>3
<1>2. CASE Rules[k] = "tall"
  <2> DEFINE t == firstReplaceable(at, f, k)
             fits == t.used /\ replaceableWith(Up(t.pos), k) /\ supportsVegetation(k, Block(Down(t.pos)))
  <2>1. UseOnBlock(k, at, f) = IF fits THEN PlacingTwo(t.pos, k) ELSE Nothing
    BY <1>2 DEF UseOnBlock, TallBlocks
  <2>2. t.used => t.pos \in Cells /\ Block(t.pos) \in Replaceables
    BY FirstPlace
  <2> HIDE DEF t
  <2>3. CASE fits
    <3>1. /\ t.pos \in Cells /\ Block(t.pos) \in Replaceables
          /\ Up(t.pos) \in Cells /\ Block(Up(t.pos)) \in Replaceables
      BY <2>2, <2>3 DEF replaceableWith, ReplaceableBy
    <3>2. Footing(k, Block(Down(t.pos)))
      BY <1>2, <2>3 DEF Footing, Placed, supportsVegetation
    <3>3. k \in Pairs
      BY <1>2, RulesRegular DEF Regular, Pairs
    <3> QED BY <2>1, <2>3, <3>1, <3>2, <3>3, PlacingTwoSits
  <2>4. CASE ~fits
    BY <2>1, <2>4, NothingSits
  <2> QED BY <2>3, <2>4
<1>3. CASE Rules[k] \in {"petals", "pickles"}
  <2>1. "PinkPetalsFull" \in Added /\ "SeaPickleFull" \in Added
    BY DEF Added
  <2>2. Sits(Placing(at, "PinkPetalsFull")) /\ Sits(Placing(at, "SeaPickleFull"))
    BY <1>0, <2>1, AddedSits
  <2>3. CASE Rules[k] = "petals"
    <3>1. UseOnBlock(k, at, f) = HeapBlocks("soil", k, "PinkPetalsFull", at, f)
      BY <2>3 DEF UseOnBlock
    <3>2. Sits(Single("soil", k, at, f))
      BY <2>3, SingleSits
    <3> QED BY <2>2, <3>1, <3>2, NothingSits DEF HeapBlocks
  <2>4. CASE Rules[k] = "pickles"
    <3>1. UseOnBlock(k, at, f) = HeapBlocks("pickle", k, "SeaPickleFull", at, f)
      BY <2>4 DEF UseOnBlock
    <3>2. Sits(Single("pickle", k, at, f))
      BY <2>4, SingleSits
    <3> QED BY <2>2, <3>1, <3>2, NothingSits DEF HeapBlocks
  <2> QED BY <1>3, <2>3, <2>4
<1>4. CASE Rules[k] = "slab"
  <2>1. UseOnBlock(k, at, f) = SlabBlocks(at, f) /\ k = "Slab"
    BY <1>4, RulesRegular DEF UseOnBlock, Regular
  <2>2. "DoubleSlab" \in Added
    BY DEF Added
  <2>3. Sits(Placing(at, "DoubleSlab")) /\ Sits(Placing(Side(at, f), "DoubleSlab"))
    BY <1>0, <2>2, AddedSits
  <2>4. Sits(Single("free", "Slab", at, f))
    BY <1>4, <2>1, SingleSits
  <2> QED BY <2>1, <2>3, <2>4 DEF SlabBlocks
<1>5. CASE Rules[k] \notin {"door", "tall", "petals", "pickles", "slab"}
  <2>1. UseOnBlock(k, at, f) = Single(Rules[k], k, at, f)
    BY <1>5 DEF UseOnBlock
  <2> QED BY <1>5, <2>1, SingleSits
<1> QED BY <1>1, <1>2, <1>3, <1>4, <1>5

-----------------------------------------------------------------------------
(* steps *)

\* The inductive invariant.
BreakInv ==
    /\ breakPos \in Cells \cup {NoPos} /\ inProgress \in BOOLEAN
    /\ progress \in 0..Full /\ spent \in SUBSET Cells
    /\ progress = 0 => spent = {}
    /\ progress # 0 => breakPos # NoPos /\ spent = {breakPos}
    /\ inProgress => breakPos # NoPos

InteractionInv ==
    /\ world = [c \in Cells |-> world[c]] /\ self \in Cells /\ other \in Cells
    /\ taken \in Nat /\ accepted \in BOOLEAN /\ serverAuth \in BOOLEAN
    /\ disturbed \in BOOLEAN /\ blocked \in BOOLEAN
    /\ BreakInv /\ Standing /\ NotWalledIn

LEMMA InteractionStart == InteractionInit => InteractionInv
<1> SUFFICES ASSUME InteractionInit PROVE InteractionInv
  OBVIOUS
<1>1. self \in Cells /\ other \in Cells /\ world = [c \in Cells |-> world[c]]
  BY InteractionAssumption DEF InteractionInit
<1>2. BreakInv
  <2>1. 0 \in 0..Full /\ {} \in SUBSET Cells /\ FALSE \in BOOLEAN
    BY DEF Full
  <2>2. breakPos = NoPos /\ inProgress = FALSE /\ progress = 0 /\ spent = {}
    BY DEF InteractionInit
  <2> QED BY <2>1, <2>2 DEF BreakInv
<1>3. Standing
  BY TerrainAssumption DEF InteractionInit, Standing, Block
<1>4. NotWalledIn
  BY DEF InteractionInit, NotWalledIn, Collides, NoCollision, Replaceables
<1> QED BY <1>1, <1>2, <1>3, <1>4 DEF InteractionInv, InteractionInit

\* Blocks that sit are placed: what stands goes on standing.
LEMMA PlaceKeeps ==
  ASSUME InteractionInv, NEW bs, Sits(bs), PlaceBlocks(bs), self' = self
  PROVE  /\ world' = [c \in Cells |-> world'[c]] /\ taken' \in Nat
         /\ disturbed' \in BOOLEAN /\ blocked' \in BOOLEAN
         /\ Standing' /\ NotWalledIn'
<1> DEFINE inTheWay == {c \in DOMAIN bs : Collides(bs[c]) /\ c \in {self, other}}
           done == {c \in DOMAIN bs \ inTheWay : Block(c) \in Replaceables}
<1>1. /\ world' = [c \in Cells |-> IF c \in done THEN bs[c] ELSE world[c]]
      /\ taken' = taken + Cardinality(done)
      /\ blocked' = (blocked \/ inTheWay # {})
      /\ disturbed' = disturbed
  BY DEF PlaceBlocks, Set
<1>2. done \cap Cells \subseteq Free(bs) /\ done \subseteq DOMAIN bs
  BY DEF Free
<1>3. inTheWay = {} => Free(bs) \subseteq done
  BY DEF Free
<1>4. \A c \in done : Block(c) \in Replaceables /\ (c = self => ~Collides(bs[c]))
  OBVIOUS
<1>5. taken' \in Nat
  <2>1. IsFiniteSet(DOMAIN bs)
    BY DEF Sits
  <2>2. IsFiniteSet(done)
    BY <1>2, <2>1, FS_Subset
  <2>3. Cardinality(done) \in Nat
    BY <2>2, FS_CardinalityType
  <2> HIDE DEF done
  <2> QED BY <1>1, <2>3 DEF InteractionInv
<1> HIDE DEF inTheWay, done
<1>6. world' = [c \in Cells |-> world'[c]]
  BY <1>1
<1>7. \A c \in Cells : world'[c] = IF c \in done THEN bs[c] ELSE world[c]
  BY <1>1
<1>8. NotWalledIn'
  <2> SUFFICES ASSUME ~disturbed PROVE ~Collides(world'[self])
    BY <1>1 DEF NotWalledIn
  <2>1. self \in Cells /\ ~Collides(world[self])
    BY DEF InteractionInv, NotWalledIn
  <2>2. CASE self \in done
    BY <1>4, <1>7, <2>1, <2>2
  <2>3. CASE self \notin done
    BY <1>7, <2>1, <2>3
  <2> QED BY <2>2, <2>3
<1>9. Standing'
  <2> SUFFICES ASSUME ~disturbed, NEW c \in Cells
               PROVE  /\ Footing(world'[c], BlockIn(world', Down(c)))
                      /\ ~blocked' => Whole(world', c)
    BY <1>1 DEF Standing, Block
  <2>1. Footing(world[c], Block(Down(c))) /\ (~blocked => Whole(world, c))
    BY DEF InteractionInv, Standing
  <2>2. \A d : d \notin done \cap Cells => BlockIn(world', d) = Block(d)
    BY <1>7 DEF BlockIn, Block
  <2>3. \A d \in done \cap Cells : BlockIn(world', d) = bs[d] /\ Block(d) \in Replaceables
    BY <1>4, <1>7 DEF BlockIn
  <2>4. Footing(world'[c], BlockIn(world', Down(c)))
    <3>1. CASE c \in done
      <4>1. c \in Free(bs) /\ world'[c] = bs[c]
        BY <1>2, <1>7, <3>1
      <4>2. /\ Footing(bs[c], Block(Down(c)))
            /\ Down(c) \in DOMAIN bs => \A y : Footing(bs[c], y)
        BY <4>1 DEF Sits
      <4>3. CASE Down(c) \in done \cap Cells
        BY <1>2, <4>1, <4>2, <4>3
      <4>4. CASE Down(c) \notin done \cap Cells
        BY <2>2, <4>1, <4>2, <4>4
      <4> QED BY <4>3, <4>4
    <3>2. CASE c \notin done
      <4>1. world'[c] = world[c]
        BY <1>7, <3>2
      <4>2. CASE Down(c) \in done \cap Cells
        <5>1. Block(Down(c)) \in Replaceables /\ BlockIn(world', Down(c)) # "Air"
          BY <1>2, <2>3, <4>2 DEF Sits
        <5> QED BY <2>1, <4>1, <5>1, Ground
      <4>3. CASE Down(c) \notin done \cap Cells
        BY <2>1, <2>2, <4>1, <4>3
      <4> QED BY <4>2, <4>3
    <3> QED BY <3>1, <3>2
  <2>5. ~blocked' => Whole(world', c)
    <3> HAVE ~blocked'
    <3>1. ~blocked /\ inTheWay = {}
      BY <1>1 DEF InteractionInv
    <3>2. Free(bs) \subseteq done \cap Cells /\ Whole(world, c)
      BY <1>3, <2>1, <3>1 DEF Free
    <3>3. c \in Int \X Int
      BY CellPlace
    <3> SUFFICES ASSUME NEW kind \in Pairs \ Replaceables
                 PROVE  /\ world'[c] = kind => BlockIn(world', Up(c)) = Top[kind]
                        /\ world'[c] = Top[kind] => BlockIn(world', Down(c)) = kind
      BY TopFacts DEF Whole
    <3>4. /\ kind \notin Replaceables /\ Top[kind] \notin Replaceables /\ Top[kind] \in Halves
          /\ \A l \in Pairs : Top[l] = Top[kind] => l = kind
      BY TopFacts
    <3>5. CASE c \in done
      <4>1. c \in Free(bs) /\ world'[c] = bs[c]
        BY <1>2, <1>7, <3>5
      <4>2. /\ bs[c] \in Pairs => Up(c) \in Free(bs) /\ bs[Up(c)] = Top[bs[c]]
            /\ bs[c] \in Halves => Down(c) \in Free(bs) /\ bs[Down(c)] \in Pairs /\ Top[bs[Down(c)]] = bs[c]
        BY <4>1 DEF Sits
      <4>3. bs[c] = kind => BlockIn(world', Up(c)) = Top[kind]
        BY <2>3, <3>2, <4>2
      <4>4. bs[c] = Top[kind] => BlockIn(world', Down(c)) = kind
        BY <2>3, <3>2, <3>4, <4>2
      <4> QED BY <4>1, <4>3, <4>4
    <3>6. CASE c \notin done
      <4>1. world'[c] = world[c]
        BY <1>7, <3>6
      <4>2. /\ world[c] = kind => Block(Up(c)) = Top[kind]
            /\ world[c] = Top[kind] => Block(Down(c)) = kind
        BY <3>2, TopFacts DEF Whole, Block
      <4>3. \A d : Block(d) \notin Replaceables => BlockIn(world', d) = Block(d)
        BY <2>2, <2>3
      <4> QED BY <3>4, <4>1, <4>2, <4>3
    <3> QED BY <3>5, <3>6
  <2> QED BY <2>4, <2>5
<1> QED BY <1>1, <1>5, <1>6, <1>8, <1>9 DEF InteractionInv

\* A world that changes in nothing, or is disturbed.
LEMMA SameKeeps ==
  ASSUME InteractionInv, ~disturbed' => world' = world /\ ~disturbed /\ blocked' = blocked /\ self' = self
  PROVE  Standing' /\ NotWalledIn'
<1>1. CASE disturbed'
  BY <1>1 DEF Standing, NotWalledIn
<1>2. CASE ~disturbed'
  BY <1>2 DEF InteractionInv, Standing, NotWalledIn, Block
<1> QED BY <1>1, <1>2

\* A click.
LEMMA ClickKeeps ==
  ASSUME InteractionInv, NEW hand, NEW at \in Cells, NEW f \in Faces, NEW sneaking \in BOOLEAN,
         NEW failed \in BOOLEAN, NEW reach, Click(hand, at, f, sneaking, failed, reach)
  PROVE  InteractionInv'
<1>1. /\ self' = self /\ other' = other /\ serverAuth' = serverAuth /\ breakPos' = breakPos
      /\ inProgress' = inProgress /\ progress' = progress /\ spent' = spent
      /\ accepted' \in BOOLEAN
  BY DEF Click, breakVars, InteractionInv
<1>2. BreakInv'
  BY <1>1 DEF InteractionInv, BreakInv
<1>3. \/ UNCHANGED <<world, taken, disturbed, blocked>>
      \/ ActivateBlock(at, hand)
      \/ hand \in DOMAIN Rules /\ PlaceBlocks(UseOnBlock(hand, at, f))
      \/ \E b \in {"Stone", "Glowstone"} : PlaceBlocks(PlainBlock(b, at, f))
  <2>1. CASE UNCHANGED <<world, taken, disturbed, blocked>>
    BY <2>1
  <2>2. CASE AttemptItemInteractionWithBlock(hand, at, f, sneaking, failed, reach = "far")
    <3>1. CASE hand = "Unregistered"
      BY <2>2, <3>1 DEF AttemptItemInteractionWithBlock
    <3>2. CASE hand # "Unregistered"
      BY <2>2, <3>2 DEF AttemptItemInteractionWithBlock
    <3> QED BY <3>1, <3>2
  <2> QED BY <2>1, <2>2 DEF Click
<1> DEFINE Kept == /\ world' = [c \in Cells |-> world'[c]] /\ taken' \in Nat
                   /\ disturbed' \in BOOLEAN /\ blocked' \in BOOLEAN
                   /\ Standing' /\ NotWalledIn'
<1>4. CASE UNCHANGED <<world, taken, disturbed, blocked>>
  <2>1. Standing' /\ NotWalledIn'
    BY <1>1, <1>4, SameKeeps
  <2> QED BY <1>1, <1>2, <1>4, <2>1 DEF InteractionInv
<1>5. CASE ActivateBlock(at, hand)
  <2>1. /\ world' = [world EXCEPT ![at] = Activated(world[at], hand)]
        /\ disturbed' = (disturbed \/ world' # world) /\ taken' = taken /\ blocked' = blocked
    BY <1>5 DEF ActivateBlock
  <2>2. world' = [c \in Cells |-> world'[c]]
    BY <2>1 DEF InteractionInv
  <2>3. Standing' /\ NotWalledIn'
    BY <1>1, <2>1, SameKeeps
  <2> QED BY <1>1, <1>2, <2>1, <2>2, <2>3 DEF InteractionInv
<1>6. CASE hand \in DOMAIN Rules /\ PlaceBlocks(UseOnBlock(hand, at, f))
  <2>1. Sits(UseOnBlock(hand, at, f))
    BY <1>6, UseSits
  <2>2. Kept
    BY <1>1, <1>6, <2>1, PlaceKeeps
  <2> QED BY <1>1, <1>2, <2>2 DEF InteractionInv
<1>7. CASE \E b \in {"Stone", "Glowstone"} : PlaceBlocks(PlainBlock(b, at, f))
  <2>1. PICK b \in {"Stone", "Glowstone"} : PlaceBlocks(PlainBlock(b, at, f))
    BY <1>7
  <2>2. b \in Added /\ at \in Int \X Int /\ Side(at, f) \in Int \X Int
    BY CellPlace, SidePlace DEF Added
  <2>3. Sits(PlainBlock(b, at, f))
    BY <2>2, AddedSits DEF PlainBlock
  <2>4. Kept
    BY <1>1, <2>1, <2>3, PlaceKeeps
  <2> QED BY <1>1, <1>2, <2>4 DEF InteractionInv
<1> QED BY <1>3, <1>4, <1>5, <1>6, <1>7

\* The block actions of an input, whatever they are and in whatever order.
LEMMA ActionsKeep ==
  ASSUME InteractionInv, NEW n \in Nat, NEW actions \in [1..n -> BlockActions], handleBlockActions(actions)
  PROVE  InteractionInv'
<1> DEFINE S == HeldStates
           start == AdvanceCurrent(BreakState)
           Is(h) == h = [i \in 0..Len(actions) |-> IF i = 0 THEN start ELSE ActOn(h[i - 1], actions[i])]
           after == CHOOSE h : Is(h)
           acted == after[Len(actions)]
           s == IF breakPos # NoPos /\ inProgress /\ serverAuth THEN acted ELSE AdvanceCurrent(acted)
           turn == [k \in 1..n |-> [x \in S |-> ActOn(x, actions[k])]]
<1>1. Len(actions) = n
  OBVIOUS
<1>2. BreakState \in HeldStates
  <2>1. world \in [Cells -> Contents]
    BY DEF InteractionInv, Contents
  <2>2. BreakState \in BreakStates
    BY <2>1 DEF BreakState, BreakStates, InteractionInv, BreakInv
  <2>3. Belongs(BreakState)
    BY DEF BreakState, Belongs, InteractionInv, BreakInv
  <2> QED BY <2>2, <2>3 DEF HeldStates
<1>3. start \in S
  BY <1>2, TickKeeps
<1>4. \A k \in 1..n : \A x \in S : ActOn(x, actions[k]) \in S
  BY ActKeeps
<1>5. /\ world' = s.world /\ breakPos' = s.pos /\ inProgress' = s.inProgress
      /\ progress' = s.progress /\ spent' = s.spent /\ disturbed' = s.disturbed
      /\ self' = self /\ other' = other /\ serverAuth' = serverAuth /\ blocked' = blocked
      /\ taken' = taken /\ accepted' = accepted
  BY DEF handleBlockActions, clickVars
<1> HIDE DEF S, start
<1>6. turn \in [1..n -> [S -> S]]
  BY <1>4
<1>7. \E g \in [0..n -> S] : g[0] = start /\ \A k \in 1..n : g[k] = turn[k][g[k - 1]]
  <2> HIDE DEF turn
  <2>1. PICK g : LoopRun(g, turn, start, n, S)
    BY <1>3, <1>6, Loops
  <2> QED BY <2>1 DEF LoopRun
<1>8. PICK g \in [0..n -> S] : g[0] = start /\ \A k \in 1..n : g[k] = turn[k][g[k - 1]]
  BY <1>7
<1>9. \A k \in 1..n : g[k] = ActOn(g[k - 1], actions[k])
  <2> TAKE k \in 1..n
  <2>1. k - 1 \in 0..n
    OBVIOUS
  <2>2. g[k - 1] \in S
    BY <2>1, <1>8
  <2> QED BY <1>8, <2>2
<1> HIDE DEF turn
<1>10. Is(g)
  <2> DEFINE h == [i \in 0..n |-> IF i = 0 THEN start ELSE ActOn(g[i - 1], actions[i])]
  <2>1. \A i \in 0..n : g[i] = h[i]
    <3> TAKE i \in 0..n
    <3>1. CASE i = 0
      BY <3>1, <1>8
    <3>2. CASE i # 0
      <4>1. i \in 1..n
        BY <3>2
      <4> QED BY <4>1, <3>2, <1>9
    <3> QED BY <3>1, <3>2
  <2> QED BY <1>1, <2>1, <1>8
<1>11. after = [i \in 0..n |-> IF i = 0 THEN start ELSE ActOn(after[i - 1], actions[i])]
  <2>1. Is(after)
    BY <1>10
  <2> QED BY <1>1, <2>1
<1> HIDE DEF after, Is
<1>12. after[0] = start /\ \A k \in 1..n : after[k] = ActOn(after[k - 1], actions[k])
  <2>1. 0 \in 0..n /\ \A k \in 1..n : k \in 0..n /\ k # 0
    OBVIOUS
  <2> QED BY <1>11, <2>1
<1>13. \A k \in 1..n : after[k - 1] \in S => after[k] \in S
  BY <1>4, <1>12
<1>14. after[0] \in S
  BY <1>3, <1>12
<1>15. \A k \in 0..n : after[k] \in S
  BY <1>13, <1>14, KeptByTurns
<1>16. acted \in HeldStates
  BY <1>1, <1>15 DEF S
<1> HIDE DEF acted
<1>17. s \in HeldStates
  BY <1>16, TickKeeps
<1> HIDE DEF s
<1>18. s \in BreakStates /\ Belongs(s)
  BY <1>17 DEF HeldStates
<1>19. BreakInv'
  BY <1>5, <1>18 DEF BreakInv, Belongs, BreakStates
<1>20. Standing' /\ NotWalledIn'
  BY <1>5, <1>18, SameKeeps DEF Belongs
<1>21. world' = [c \in Cells |-> world'[c]] /\ disturbed' \in BOOLEAN
  BY <1>5, <1>18 DEF BreakStates
<1> QED BY <1>5, <1>19, <1>20, <1>21 DEF InteractionInv

\* Every step keeps the invariant.
LEMMA InteractionStep == InteractionInv /\ [InteractionNext]_interactionVars => InteractionInv'
<1> SUFFICES ASSUME InteractionInv, [InteractionNext]_interactionVars PROVE InteractionInv'
  OBVIOUS
<1>1. ASSUME NEW hand \in Hands, NEW at \in Cells, NEW f \in Faces, NEW sneaking \in BOOLEAN,
             \/ Click(hand, at, f, sneaking, FALSE, "near")
             \/ f = "up" /\ Click(hand, at, f, sneaking, TRUE, "near")
             \/ f = "up" /\ \E reach \in {"far", "obstructed"} : Click(hand, at, f, sneaking, FALSE, reach)
      PROVE  InteractionInv'
  BY <1>1, ClickKeeps
<1>2. ASSUME NEW n \in 0..MaxActions, NEW actions \in [1..n -> BlockActions], handleBlockActions(actions)
      PROVE  InteractionInv'
  BY <1>2, InteractionAssumption, ActionsKeep
<1>3. ASSUME NEW c \in Stands, Walk(c)
      PROVE  InteractionInv'
  <2>1. c \in Cells /\ ~Collides(world[c])
    BY <1>3, InteractionAssumption DEF Walk, Block, BlockIn
  <2>2. Standing'
    BY <1>3 DEF Walk, InteractionInv, Standing, Block
  <2>3. NotWalledIn'
    BY <1>3, <2>1 DEF Walk, NotWalledIn
  <2>4. BreakInv'
    BY <1>3 DEF Walk, InteractionInv, BreakInv, breakVars
  <2> QED BY <1>3, <2>1, <2>2, <2>3, <2>4 DEF Walk, InteractionInv, clickVars
<1>4. ASSUME NEW c \in Targets, ServerSetBlock(c, "Stone")
      PROVE  InteractionInv'
  <2>1. Standing' /\ NotWalledIn'
    BY <1>4 DEF ServerSetBlock, Standing, NotWalledIn
  <2>2. BreakInv'
    BY <1>4 DEF ServerSetBlock, InteractionInv, BreakInv, breakVars
  <2> QED BY <1>4, <2>1, <2>2 DEF ServerSetBlock, InteractionInv, clickVars
<1>5. CASE UNCHANGED interactionVars
  <2>1. Standing' /\ NotWalledIn'
    BY <1>5 DEF interactionVars, InteractionInv, Standing, NotWalledIn, Block
  <2>2. BreakInv'
    BY <1>5 DEF interactionVars, InteractionInv, BreakInv, breakVars
  <2> QED BY <1>5, <2>1, <2>2 DEF interactionVars, InteractionInv, clickVars, breakVars
<1> QED BY <1>1, <1>2, <1>3, <1>4, <1>5 DEF InteractionNext

\* All the progress of a break was made on the block it is held against, in whatever order
\* the client starts, cracks, continues, aborts and stops (handleBlockActions).
THEOREM ProgressIsOfItsBlock == InteractionSpec => []ProgressBelongs
<1>1. InteractionInv => ProgressBelongs
  BY DEF InteractionInv, BreakInv, ProgressBelongs, InteractionTypeOK
<1>2. InteractionSpec => []InteractionInv
  BY InteractionStart, InteractionStep, PTL DEF InteractionSpec
<1> QED BY <1>1, <1>2, PTL

\* No sequence of clicks with items of the model takes the ground from under a block that
\* Footing names (crops, vegetation, cane, cactus, doors, coral, kelp, pickles, petals,
\* cakes and carpets) or leaves half a door or a double flower, in a slice of any size
\* (AttemptItemInteractionWithBlock, UseOnBlock, PlaceBlock).
THEOREM PlacedBlocksStand == InteractionSpec => []Standing
<1>1. InteractionInv => Standing
  BY DEF InteractionInv
<1>2. InteractionSpec => []InteractionInv
  BY InteractionStart, InteractionStep, PTL DEF InteractionSpec
<1> QED BY <1>1, <1>2, PTL

\* PlaceBlock never closes the cell the player stands in, however it walks and clicks.
THEOREM PlayerStaysFree == InteractionSpec => []NotWalledIn
<1>1. InteractionInv => NotWalledIn
  BY DEF InteractionInv
<1>2. InteractionSpec => []InteractionInv
  BY InteractionStart, InteractionStep, PTL DEF InteractionSpec
<1> QED BY <1>1, <1>2, PTL

=============================================================================
