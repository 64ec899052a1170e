--------------------------- MODULE DetectionsProofs ---------------------------
(***************************************************************************)
(* The input allowance keeps to its budget, for every length of a          *)
(* behaviour, every delay of packets and every stall of the tick loop:     *)
(* Detections implements InputBudget, and so nobody is ever granted more   *)
(* inputs than the lag it began with and the ticks of the server since.    *)
(* The other way round, a client that sends one input for every tick of    *)
(* time is never refused one, whatever the network and the loop do.        *)
(* And a player is removed only when one detection has kept as many flags  *)
(* as its limit asks for.                                                  *)
(***************************************************************************)
EXTENDS Detections, FiniteSetTheorems, FunctionTheorems, TLAPS

\* The record of a flushed batch.
Batches == [id : Int, changes : SUBSET Changes, at : Int]

\* What the refinement rests on: the clocks are numbers, the limit begins only with a first
\* input, and it never lets more through than is left of what was granted.
BudgetInv ==
    /\ allowed \in Nat /\ quota \in Int /\ hasFirst \in BOOLEAN
    /\ now \in Int /\ lastTick \in Int /\ serverTick \in Int /\ clientTick \in Int
    /\ ~hasFirst => quota = NoQuota
    /\ quota = NoQuota \/ allowed <= quota
    /\ batch \in SUBSET Changes /\ changes \in Int /\ pending \in Seq(Batches)
    /\ "change" \in DOMAIN cl /\ cl.change \in Changes

-----------------------------------------------------------------------------
(* the arithmetic of a tick *)

\* A tick of the loop is at least one tick of the server.
LEMMA ElapsedPositive ==
    ASSUME NEW delta \in Int
    PROVE  ElapsedTicks(delta) \in Nat \ {0}
BY DEF ElapsedTicks

\* Tick of the movement component leaves enough for one input, and grants neither more than
\* the client is behind nor more than was left and has passed.
LEMMA RefilledBounds ==
    ASSUME NEW n \in Nat, NEW lag \in Int, NEW e \in Nat \ {0}
    PROVE  /\ Refilled(n, lag, e) \in 1..(n + e)
           /\ Refilled(n, lag, e) \in 1..(AtLeast0(lag) + e)
           /\ AtLeast0(lag) \in Nat
BY DEF Refilled, AtLeast0

-----------------------------------------------------------------------------
(* the invariant *)

\* A limit lets through no more than is left of the budget; first the initial states.
LEMMA BudgetInvInit == Init => BudgetInv
<1> SUFFICES ASSUME Init PROVE BudgetInv
  OBVIOUS
<1>1. /\ allowed \in Nat /\ quota \in Int /\ hasFirst \in BOOLEAN
      /\ now \in Int /\ lastTick \in Int /\ serverTick \in Int /\ clientTick \in Int
      /\ ~hasFirst => quota = NoQuota
      /\ quota = NoQuota \/ allowed <= quota
  <2>1. /\ allowed = Cap /\ hasFirst = FALSE /\ quota = NoQuota
        /\ now = 0 /\ lastTick = 0 /\ serverTick = 0 /\ clientTick = 0
    BY DEF Init
  <2>2. hasFirst \in BOOLEAN /\ (~hasFirst => quota = NoQuota) /\ quota = NoQuota
    BY <2>1
  <2>3. /\ allowed \in Nat /\ quota \in Int
        /\ now \in Int /\ lastTick \in Int /\ serverTick \in Int /\ clientTick \in Int
    BY <2>1 DEF Cap, NoQuota
  <2> QED
    BY <2>2, <2>3
<1>2. batch \in SUBSET Changes /\ changes \in Int /\ pending \in Seq(Batches)
  BY DEF Init
<1>3. "change" \in DOMAIN cl /\ cl.change \in Changes
  <2>1. PICK s \in Scenarios :
          cl = [act |-> s.act, change |-> s.change, lag |-> s.lag, frame |-> FirstFrame, on |-> FALSE,
                row |-> 0, kb |-> FALSE, pos |-> 1, creative |-> FALSE]
    BY DEF Init
  <2>2. s.change \in Changes
    BY DetectionsAssumption
  <2> QED
    BY <2>1, <2>2
<1> QED
  BY <1>1, <1>2, <1>3 DEF BudgetInv

\* The tick of the loop: the clock moves on, the limit begins or is refilled.
LEMMA ServerTickKeeps ==
    ASSUME BudgetInv, NEW e \in Nat \ {0}, ServerTick(e)
    PROVE  BudgetInv'
<1> DEFINE lag == serverTick + e - clientTick
<1>1. lag \in Int /\ allowed \in Nat /\ quota \in Int
  BY DEF BudgetInv
<1>2. /\ Refilled(allowed, lag, e) \in 1..(allowed + e)
      /\ Refilled(allowed, lag, e) \in 1..(AtLeast0(lag) + e)
      /\ AtLeast0(lag) \in Nat
  BY <1>1, RefilledBounds
<1>3. /\ allowed' \in Nat /\ quota' \in Int
      /\ ~hasFirst' => quota' = NoQuota
      /\ quota' = NoQuota \/ allowed' <= quota'
  <2> HIDE DEF lag
  <2>1. CASE ~hasFirst
    BY <2>1 DEF ServerTick, Limit, BudgetInv, Cap, NoQuota
  <2>2. CASE hasFirst
    <3>1. /\ allowed' = Refilled(allowed, lag, e) /\ hasFirst' = hasFirst
          /\ quota' = IF quota = NoQuota THEN AtLeast0(lag) + e ELSE quota + e
      BY <2>2 DEF ServerTick, Limit, lag
    <3>2. quota = NoQuota \/ allowed <= quota
      BY DEF BudgetInv
    <3> QED
      BY <1>1, <1>2, <2>2, <3>1, <3>2
  <2> QED
    BY <2>1, <2>2
<1>4. batch' \in SUBSET Changes /\ changes' \in Int /\ pending' \in Seq(Batches)
  <2>1. [id |-> changes, changes |-> batch, at |-> serverTick + e] \in Batches
    BY DEF BudgetInv, Batches
  <2> QED
    BY <2>1 DEF ServerTick, BudgetInv
<1>5. /\ hasFirst' \in BOOLEAN /\ now' \in Int /\ lastTick' \in Int /\ serverTick' \in Int
      /\ clientTick' \in Int /\ "change" \in DOMAIN cl' /\ cl'.change \in Changes
  BY DEF ServerTick, BudgetInv
<1> QED
  BY <1>3, <1>4, <1>5 DEF BudgetInv

\* A packet of the client: only an input is paid for, and only an answer sets the
\* client's tick.
LEMMA PacketKeeps ==
    ASSUME BudgetInv, NEW cancelled, NEW spared, HandleClientPacket(cancelled, spared)
    PROVE  BudgetInv'
<1>1. PICK pk : \/ Execute(pk) \/ PlayerAuthInput(pk, cancelled, spared)
                \/ OtherPacket(pk, cancelled, spared)
  BY DEF HandleClientPacket
<1>2. UNCHANGED <<now, lastTick, serverTick, cl>>
  BY DEF HandleClientPacket, tickVars
<1>3. CASE Execute(pk)
  <2>1. pending # <<>> /\ Head(pending) \in Batches /\ Tail(pending) \in Seq(Batches)
    BY <1>3 DEF Execute, Expected, BudgetInv
  <2>2. UNCHANGED <<allowed, hasFirst, quota, batch, changes>> /\ pending' = Tail(pending)
    BY <1>3 DEF Execute
  <2>3. Head(pending).at \in Int
    BY <2>1 DEF Batches
  <2>4. clientTick' \in Int
    BY <1>3, <2>3 DEF Execute, LatencyRun, BudgetInv
  <2> QED
    BY <1>2, <2>1, <2>2, <2>4 DEF BudgetInv
<1>4. CASE PlayerAuthInput(pk, cancelled, spared)
  <2>1. /\ hasFirst' = TRUE
        /\ allowed' = IF allowed > 0 THEN allowed - 1 ELSE allowed
        /\ quota' = IF allowed > 0 /\ quota # NoQuota THEN quota - 1 ELSE quota
        /\ clientTick' = IF allowed > 0 THEN clientTick + 1 ELSE clientTick
        /\ UNCHANGED <<batch, pending, changes>>
    BY <1>4 DEF PlayerAuthInput, InputAcceptable, ackVars
  <2> QED
    BY <1>2, <2>1 DEF BudgetInv
<1>5. CASE OtherPacket(pk, cancelled, spared)
  BY <1>2, <1>5 DEF OtherPacket, rateVars, ackVars, BudgetInv
<1> QED
  BY <1>1, <1>3, <1>4, <1>5

\* No step of the system breaks the invariant.
LEMMA BudgetInvStep == BudgetInv /\ [Next]_vars => BudgetInv'
<1> SUFFICES ASSUME BudgetInv, [Next]_vars PROVE BudgetInv'
  OBVIOUS
<1>1. CASE \E on \in BOOLEAN : Frame(on)
  <2>1. PICK on \in BOOLEAN : Frame(on)
    BY <1>1
  <2>2. DOMAIN cl' = DOMAIN cl /\ cl'.change = cl.change
    BY <2>1 DEF Frame, BudgetInv
  <2> QED
    BY <2>1, <2>2 DEF Frame, BudgetInv, rateVars, ackVars
<1>2. CASE Receive
  <2>1. DOMAIN cl' = DOMAIN cl /\ cl'.change = cl.change
    BY <1>2 DEF Receive, Received, BudgetInv
  <2> QED
    BY <1>2, <2>1 DEF Receive, BudgetInv, tickVars, rateVars
<1>3. CASE HandleServerPacket(cl.change)
  BY <1>3 DEF HandleServerPacket, BudgetInv, tickVars, rateVars
<1>4. CASE Wake
  BY <1>4 DEF Wake, BudgetInv, rateVars, ackVars
<1>5. CASE ServerTick(ElapsedTicks(now - lastTick))
  <2>1. ElapsedTicks(now - lastTick) \in Nat \ {0}
    BY ElapsedPositive DEF BudgetInv
  <2> QED
    BY <1>5, <2>1, ServerTickKeeps
<1>6. CASE \E cancelled, spared \in BOOLEAN : HandleClientPacket(cancelled, spared)
  BY <1>6, PacketKeeps
<1>7. CASE UNCHANGED vars
  BY <1>7 DEF vars, BudgetInv
<1> QED
  BY <1>1, <1>2, <1>3, <1>4, <1>5, <1>6, <1>7 DEF Next

\* InputAcceptable, Tick: once the limit has begun, no more inputs are let through than are
\* left of what was granted.
THEOREM BudgetInvariant == Spec => []BudgetInv
<1>1. Init => BudgetInv
  BY BudgetInvInit
<1>2. BudgetInv /\ [Next]_vars => BudgetInv'
  BY BudgetInvStep
<1> QED
  BY <1>1, <1>2, PTL DEF Spec

-----------------------------------------------------------------------------
(* the refinement *)

\* A tick of the loop is a tick of the budget, the beginning of the limit, or nothing.
LEMMA ServerTickRefines ==
    ASSUME BudgetInv, NEW e \in Nat \ {0}, ServerTick(e)
    PROVE  [Budget!Next]_(Budget!vars)
<1> DEFINE lag == serverTick + e - clientTick
<1>1. lag \in Int /\ allowed \in Nat /\ quota \in Int
  BY DEF BudgetInv
<1>2. /\ Refilled(allowed, lag, e) \in 1..(allowed + e)
      /\ Refilled(allowed, lag, e) \in 1..(AtLeast0(lag) + e)
      /\ AtLeast0(lag) \in Nat
  BY <1>1, RefilledBounds
<1>3. CASE ~hasFirst
  <2>1. quota = NoQuota /\ quota' = NoQuota
    BY <1>3 DEF ServerTick, Limit, BudgetInv
  <2> QED
    BY <2>1 DEF Budget!vars
<1>4. CASE hasFirst
  <2>1. /\ allowed' = Refilled(allowed, lag, e)
        /\ quota' = IF quota = NoQuota THEN AtLeast0(lag) + e ELSE quota + e
    BY <1>4 DEF ServerTick, Limit
  <2> HIDE DEF lag
  <2>2. CASE quota = NoQuota
    <3>1. quota' = AtLeast0(lag) + e /\ quota' \in Nat /\ quota' # NoQuota /\ allowed' \in 1..quota'
      BY <1>2, <2>1, <2>2 DEF NoQuota
    <3> QED
      BY <2>2, <3>1 DEF Budget!Next, Budget!Close
  <2>3. CASE quota # NoQuota
    <3>1. quota >= 0
      BY <1>1, <2>3 DEF BudgetInv
    <3>2. /\ quota' # NoQuota /\ quota' - quota = e
          /\ allowed' \in 1..(allowed + (quota' - quota))
      BY <1>1, <1>2, <2>1, <2>3, <3>1 DEF NoQuota
    <3> QED
      BY <2>3, <3>2 DEF Budget!Next, Budget!Tick
  <2> QED
    BY <2>2, <2>3
<1> QED
  BY <1>3, <1>4 DEF BudgetInv

\* An input within the limit is paid for; no other packet touches the budget.
LEMMA PacketRefines ==
    ASSUME BudgetInv, NEW cancelled, NEW spared, HandleClientPacket(cancelled, spared)
    PROVE  [Budget!Next]_(Budget!vars)
<1>1. PICK pk : \/ Execute(pk) \/ PlayerAuthInput(pk, cancelled, spared)
                \/ OtherPacket(pk, cancelled, spared)
  BY DEF HandleClientPacket
<1>2. CASE UNCHANGED <<allowed, quota>>
  BY <1>2 DEF Budget!vars
<1>3. CASE PlayerAuthInput(pk, cancelled, spared)
  <2>1. /\ allowed' = IF allowed > 0 THEN allowed - 1 ELSE allowed
        /\ quota' = IF allowed > 0 /\ quota # NoQuota THEN quota - 1 ELSE quota
    BY <1>3 DEF PlayerAuthInput, InputAcceptable
  <2>2. CASE quota = NoQuota
    BY <2>1, <2>2 DEF Budget!vars
  <2>3. CASE quota # NoQuota /\ allowed > 0
    <3>1. quota' # NoQuota /\ quota' = quota - 1 /\ allowed' = allowed - 1
      BY <2>1, <2>3 DEF BudgetInv, NoQuota
    <3> QED
      BY <2>3, <3>1 DEF Budget!Next, Budget!Accept
  <2>4. CASE quota # NoQuota /\ ~(allowed > 0)
    BY <2>1, <2>4 DEF Budget!vars
  <2> QED
    BY <2>2, <2>3, <2>4
<1>4. Execute(pk) \/ OtherPacket(pk, cancelled, spared) => UNCHANGED <<allowed, quota>>
  BY DEF Execute, OtherPacket, rateVars
<1> QED
  BY <1>1, <1>2, <1>3, <1>4

\* Every step of the system is a step of the budget or leaves it alone.
LEMMA StepRefines == BudgetInv /\ [Next]_vars => [Budget!Next]_(Budget!vars)
<1> SUFFICES ASSUME BudgetInv, [Next]_vars PROVE [Budget!Next]_(Budget!vars)
  OBVIOUS
<1>1. CASE UNCHANGED <<allowed, quota>>
  BY <1>1 DEF Budget!vars
<1>2. CASE ServerTick(ElapsedTicks(now - lastTick))
  <2>1. ElapsedTicks(now - lastTick) \in Nat \ {0}
    BY ElapsedPositive DEF BudgetInv
  <2> QED
    BY <1>2, <2>1, ServerTickRefines
<1>3. CASE \E cancelled, spared \in BOOLEAN : HandleClientPacket(cancelled, spared)
  BY <1>3, PacketRefines
<1>4. ASSUME \/ \E on \in BOOLEAN : Frame(on)
             \/ Receive \/ HandleServerPacket(cl.change) \/ Wake \/ UNCHANGED vars
      PROVE  UNCHANGED <<allowed, quota>>
  BY <1>4 DEF Frame, Receive, HandleServerPacket, Wake, vars, rateVars
<1> QED
  BY <1>1, <1>2, <1>3, <1>4 DEF Next

\* InputAcceptable, Tick: the allowance implements the budget, whatever the acknowledgements
\* of the latency do to the client's tick and however the loop stalls.
THEOREM BudgetRefined == Spec => BudgetKept
<1>1. Init => Budget!Init
  BY DEF Init, Budget!Init
<1>2. BudgetInv /\ [Next]_vars => [Budget!Next]_(Budget!vars)
  BY StepRefines
<1> QED
  BY <1>1, <1>2, BudgetInvariant, PTL DEF Spec, BudgetKept, Budget!Spec

\* Tick: what is granted never exceeds the first lag and the server's ticks since then,
\* less what has been accepted.
THEOREM GrantedWithinQuota == Spec => []Budget!WithinQuota
<1>1. BudgetInv => Budget!WithinQuota
  BY DEF BudgetInv, Budget!WithinQuota, NoQuota
<1> QED
  BY <1>1, BudgetInvariant, PTL

-----------------------------------------------------------------------------
(* the packets under way *)

\* A packet, a client, and the inputs behind the j-th packet.
PacketKinds == {"input", "echo", "request", "swing", "attack", "sound", "use", "action", "interact"}
Labels == Legitimate \cup Modified \cup {"", "idle", "missed"}
Packets == [k : PacketKinds, does : Labels, tick : Int, pos : Int, edge : BOOLEAN, mode : Int, kb : BOOLEAN, id : Int]
Clients == [act : Legitimate \cup Modified, change : Changes, lag : Nat, frame : Nat \ {0}, on : BOOLEAN,
            row : 0..2, kb : BOOLEAN, pos : Nat, creative : BOOLEAN]
InputsBehind(q, j) == {i \in DOMAIN q : i > j /\ IsInput(q[i])}
Behind(q, j) == Cardinality(InputsBehind(q, j))

\* The clock of the loop: unless a tick is due, it has ticked in this one.
TicksDue == lastTick <= now /\ (~fired /\ ~woken => lastTick = now) /\ fired \in BOOLEAN /\ woken \in BOOLEAN

\* Batches are numbered, no two alike, and flushed in the past; an answer is under way only to one
\* the client has received.
Answered(pk, b) == pk.k = "echo" /\ pk.id = b.id
BatchesNumbered ==
    /\ changes \in Nat /\ (batch # {} => changes >= 1)
    /\ received \in 0..Len(pending)
    /\ \A i \in DOMAIN pending : /\ pending[i].id \in 1..changes /\ pending[i].at <= serverTick
                                 /\ batch # {} => pending[i].id < changes
    /\ \A i, j \in DOMAIN pending : pending[i].id = pending[j].id => i = j
    /\ \A j \in DOMAIN up : up[j].id <= changes /\ (batch # {} => up[j].id < changes)
    /\ \A j \in DOMAIN up : \A i \in DOMAIN pending : Answered(up[j], pending[i]) => i <= received

\* Who sends one input for every tick of time: the inputs under way, and those accepted, are no more
\* than the ticks of the server and those that are due, the client's tick is not ahead of them either,
\* nor will it be when a batch that is answered has run.
InStep ==
    cl.act # "flood" =>
        /\ Behind(up, 0) <= cl.lag + 1
        /\ Behind(up, 0) <= allowed + (now - lastTick)
        /\ clientTick + Behind(up, 0) <= serverTick + (now - lastTick)
        /\ \A j \in DOMAIN up : \A i \in DOMAIN pending :
             Answered(up[j], pending[i]) => pending[i].at + Behind(up, j) <= serverTick + (now - lastTick)

PaceInv ==
    /\ BudgetInv /\ cl \in Clients /\ up \in Seq(Packets)
    /\ TicksDue /\ BatchesNumbered /\ InStep /\ cl.lag < Cap

-----------------------------------------------------------------------------
(* the inputs in a queue *)

\* The inputs behind a packet are finitely many, and so are counted.
LEMMA BehindCounts ==
    ASSUME NEW q \in Seq(Packets), NEW j
    PROVE  IsFiniteSet(InputsBehind(q, j)) /\ Behind(q, j) \in Nat
<1>1. InputsBehind(q, j) \subseteq 1..Len(q) /\ Len(q) \in Int
  BY DEF InputsBehind
<1>2. IsFiniteSet(1..Len(q))
  BY <1>1, FS_Interval
<1>3. IsFiniteSet(InputsBehind(q, j))
  BY <1>1, <1>2, FS_Subset
<1> QED BY <1>3, FS_CardinalityType DEF Behind

\* A frame has one input, its last packet.
LEMMA BehindFrame ==
    ASSUME NEW q \in Seq(Packets), NEW s \in Seq(Packets), s # <<>>,
           \A i \in 1..(Len(s) - 1) : ~IsInput(s[i]), NEW j
    PROVE  Behind(q \o s, j) <= Behind(q, j) + 1
<1> DEFINE A == InputsBehind(q, j)
           B == InputsBehind(q \o s, j)
           x == Len(q) + Len(s)
<1>1. B \subseteq A \cup {x}
  <2> SUFFICES ASSUME NEW i \in B, i # x PROVE i \in A
    OBVIOUS
  <2>1. i \in DOMAIN (q \o s) /\ i > j /\ IsInput((q \o s)[i])
    BY DEF InputsBehind
  <2>2. i \in 1..(Len(q) + Len(s)) /\ Len(q) \in Nat /\ Len(s) \in Nat
    BY <2>1
  <2>3. CASE i <= Len(q)
    BY <2>1, <2>2, <2>3 DEF InputsBehind
  <2>4. CASE i > Len(q)
    <3>1. i - Len(q) \in 1..(Len(s) - 1) /\ (q \o s)[i] = s[i - Len(q)]
      BY <2>2, <2>4
    <3> QED BY <2>1, <3>1
  <2> QED BY <2>2, <2>3, <2>4
<1>2. IsFiniteSet(A) /\ Cardinality(A) \in Nat
  BY BehindCounts DEF Behind
<1> HIDE DEF A, B, x
<1>3. /\ IsFiniteSet(A \cup {x})
      /\ Cardinality(A \cup {x}) = IF x \in A THEN Cardinality(A) ELSE Cardinality(A) + 1
  BY <1>2, FS_AddElement
<1>4. IsFiniteSet(B) /\ Cardinality(B) <= Cardinality(A \cup {x})
  BY <1>1, <1>3, FS_Subset
<1>5. Cardinality(B) \in Nat
  BY <1>4, FS_CardinalityType
<1>6. Cardinality(B) <= Cardinality(A) + 1
  BY <1>2, <1>3, <1>4, <1>5
<1> QED BY <1>6 DEF A, B, Behind

\* What is no input adds none behind any packet, and has none behind itself.
LEMMA BehindAppend ==
    ASSUME NEW q \in Seq(Packets), NEW p \in Packets, ~IsInput(p)
    PROVE  /\ \A j : Behind(Append(q, p), j) = Behind(q, j)
           /\ Behind(Append(q, p), Len(q) + 1) = 0
<1>1. ASSUME NEW j PROVE InputsBehind(Append(q, p), j) = InputsBehind(q, j)
  <2>1. /\ DOMAIN Append(q, p) = 1..(Len(q) + 1) /\ DOMAIN q = 1..Len(q) /\ Len(q) \in Nat
        /\ Append(q, p)[Len(q) + 1] = p
        /\ \A i \in 1..Len(q) : Append(q, p)[i] = q[i]
    OBVIOUS
  <2>2. \A i \in 1..(Len(q) + 1) : i \in 1..Len(q) \/ i = Len(q) + 1
    BY <2>1
  <2> QED BY <2>1, <2>2 DEF InputsBehind
<1>2. InputsBehind(q, Len(q) + 1) = {}
  BY DEF InputsBehind
<1> QED BY <1>1, <1>2, FS_EmptySet DEF Behind

\* Taking the first packet off moves the others up, with the inputs behind them.
LEMMA BehindTail ==
    ASSUME NEW q \in Seq(Packets), q # <<>>, NEW j \in Nat
    PROVE  Behind(Tail(q), j) = Behind(q, j + 1)
<1> DEFINE A == InputsBehind(Tail(q), j)
           B == InputsBehind(q, j + 1)
           f == [i \in A |-> i + 1]
<1>1. /\ Len(q) \in Nat /\ DOMAIN q = 1..Len(q) /\ DOMAIN Tail(q) = 1..(Len(q) - 1)
      /\ \A i \in 1..(Len(q) - 1) : Tail(q)[i] = q[i + 1]
  OBVIOUS
<1>2. \A i \in A : i \in Int /\ f[i] \in B
  <2> TAKE i \in A
  <2>1. i \in 1..(Len(q) - 1) /\ i > j /\ IsInput(q[i + 1])
    BY <1>1 DEF InputsBehind
  <2>2. i + 1 \in 1..Len(q) /\ i + 1 > j + 1
    BY <1>1, <2>1
  <2>3. i + 1 \in B
    BY <1>1, <2>1, <2>2 DEF InputsBehind
  <2> QED BY <2>1, <2>3
<1>3. \A k \in B : \E i \in A : f[i] = k
  <2> TAKE k \in B
  <2>1. k \in 1..Len(q) /\ k > j + 1 /\ IsInput(q[k])
    BY <1>1 DEF InputsBehind
  <2>2. k - 1 \in 1..(Len(q) - 1) /\ k - 1 > j /\ (k - 1) + 1 = k
    BY <1>1, <2>1
  <2>3. k - 1 \in A
    BY <1>1, <2>1, <2>2 DEF InputsBehind
  <2>4. f[k - 1] = k
    BY <2>2, <2>3
  <2> QED BY <2>3, <2>4
<1>4. \A a, b \in A : f[a] = f[b] => a = b
  BY <1>2
<1>5. IsFiniteSet(A)
  <2>1. Tail(q) \in Seq(Packets)
    OBVIOUS
  <2> QED BY <2>1, BehindCounts
<1> HIDE DEF A, B
<1>6. f \in Bijection(A, B)
  <2>1. f \in [A -> B]
    BY <1>2
  <2> QED BY <1>3, <1>4, <2>1, Fun_IsBij
<1>7. Cardinality(A) = Cardinality(B)
  BY <1>5, <1>6, FS_Bijection, Fun_ExistsBij
<1> QED BY <1>7 DEF A, B, Behind

\* Only an input in front counts for more than the inputs behind it.
LEMMA BehindHead ==
    ASSUME NEW q \in Seq(Packets), q # <<>>
    PROVE  Behind(q, 0) = IF IsInput(Head(q)) THEN Behind(q, 1) + 1 ELSE Behind(q, 1)
<1> DEFINE A == InputsBehind(q, 1)
           B == InputsBehind(q, 0)
<1>1. Len(q) \in Nat /\ DOMAIN q = 1..Len(q) /\ 1 \in DOMAIN q /\ Head(q) = q[1]
  OBVIOUS
<1>2. \A i \in DOMAIN q : i > 0 <=> i = 1 \/ i > 1
  BY <1>1
<1>3. B = IF IsInput(Head(q)) THEN A \cup {1} ELSE A
  BY <1>1, <1>2 DEF InputsBehind
<1>4. IsFiniteSet(A) /\ 1 \notin A
  <2>1. IsFiniteSet(A)
    BY BehindCounts
  <2> QED BY <2>1 DEF InputsBehind
<1> HIDE DEF A, B
<1>5. Cardinality(A \cup {1}) = Cardinality(A) + 1
  BY <1>4, FS_AddElement
<1> QED BY <1>3, <1>5 DEF A, B, Behind

-----------------------------------------------------------------------------
(* the client *)

\* A packet made from its kind and what it does.
LEMMA PkTyped ==
    ASSUME NEW k \in PacketKinds, NEW does \in Labels
    PROVE  /\ Pk(k, does) \in Packets /\ Pk(k, does).k = k /\ Pk(k, does).id = 0
BY DEF Pk, Packets

\* The answer to a batch, or to one that does not exist.
LEMMA EchoTyped ==
    ASSUME NEW does \in Labels, NEW id \in Int
    PROVE  LET pk == [Pk("echo", does) EXCEPT !.id = id]
           IN  pk \in Packets /\ pk.k = "echo" /\ pk.id = id /\ ~IsInput(pk)
<1>1. "echo" \in PacketKinds
  BY DEF PacketKinds
<1> DEFINE p == Pk("echo", does)
<1>2. p \in Packets /\ p.k = "echo"
  BY <1>1, PkTyped
<1> HIDE DEF p
<1>3. LET pk == [p EXCEPT !.id = id] IN pk \in Packets /\ pk.k = "echo" /\ pk.id = id
  BY <1>2 DEF Packets
<1> QED BY <1>3 DEF p, IsInput

\* The input of a frame.
LEMMA InputTyped ==
    ASSUME cl \in Clients, NEW act \in Legitimate \cup Modified, NEW on \in BOOLEAN
    PROVE  Input(act, on) \in Packets /\ Input(act, on).id = 0
<1> DEFINE does == Label(act, on)
           tick == IF on /\ act = "zeroTick" THEN 0 ELSE cl.frame
           pos == IF on /\ act = "nan" THEN -1 ELSE cl.pos
           edge == on /\ (act = "jumpSpam" \/ (act = "jump" /\ ~cl.on))
           mode == ModeOf(act, on)
           pk == [Pk("input", does) EXCEPT !.tick = tick, !.pos = pos, !.edge = edge, !.mode = mode, !.kb = cl.kb]
<1>1. cl.frame \in Int /\ cl.pos \in Int /\ cl.on \in BOOLEAN /\ cl.kb \in BOOLEAN
  BY DEF Clients
<1>2. does \in Labels
  <2>1. {"walk", "idle", "spin", "break", "attack", "missed"} \subseteq Labels /\ act \in Labels
    BY DEF Labels, Legitimate, Modified
  <2> QED BY <2>1 DEF Label
<1>3. tick \in Int /\ pos \in Int /\ edge \in BOOLEAN /\ mode \in Int
  BY <1>1 DEF ModeOf
<1>4. Input(act, on) = pk
  BY DEF Input
<1> HIDE DEF does, tick, pos, edge, mode
<1>5. pk \in Packets /\ pk.id = 0
  <2>1. "input" \in PacketKinds
    BY DEF PacketKinds
  <2> DEFINE p == Pk("input", does)
  <2>2. p \in Packets /\ p.id = 0
    BY <1>2, <2>1, PkTyped
  <2> HIDE DEF p
  <2>3. LET pp == [p EXCEPT !.tick = tick, !.pos = pos, !.edge = edge, !.mode = mode, !.kb = cl.kb]
        IN  pp \in Packets /\ pp.id = 0
    BY <1>1, <1>3, <2>2 DEF Packets
  <2> QED BY <2>3 DEF p
<1> QED BY <1>4, <1>5

\* The packets of a frame: none is the answer to a batch, and unless it floods only the last is an input.
IsFrame(s, act) ==
    /\ s \in Seq(Packets) /\ s # <<>>
    /\ \A i \in 1..Len(s) : s[i].id <= 0
    /\ act # "flood" => \A i \in 1..(Len(s) - 1) : ~IsInput(s[i])

\* Frames of one, two and three packets, the input last.
LEMMA FrameOfOne == ASSUME NEW in \in Packets, in.id = 0, NEW act PROVE IsFrame(<<in>>, act)
<1>1. Len(<<in>>) = 1 /\ <<in>>[1] = in
  OBVIOUS
<1> QED BY <1>1 DEF IsFrame

\* The same, of two packets.
LEMMA FrameOfTwo ==
    ASSUME NEW in \in Packets, in.id = 0, NEW p \in Packets, p.id <= 0, ~IsInput(p), NEW act
    PROVE  IsFrame(<<p, in>>, act)
<1>1. Len(<<p, in>>) = 2 /\ <<p, in>>[1] = p /\ <<p, in>>[2] = in
  OBVIOUS
<1>2. \A i \in 1..2 : i = 1 \/ i = 2
  OBVIOUS
<1> QED BY <1>1, <1>2 DEF IsFrame

\* The same, of three.
LEMMA FrameOfThree ==
    ASSUME NEW in \in Packets, in.id = 0, NEW p \in Packets, p.id <= 0, ~IsInput(p),
           NEW r \in Packets, r.id <= 0, ~IsInput(r), NEW act
    PROVE  IsFrame(<<p, r, in>>, act)
<1>1. Len(<<p, r, in>>) = 3 /\ <<p, r, in>>[1] = p /\ <<p, r, in>>[2] = r /\ <<p, r, in>>[3] = in
  OBVIOUS
<1>2. \A i \in 1..3 : i = 1 \/ i = 2 \/ i = 3
  OBVIOUS
<1> QED BY <1>1, <1>2 DEF IsFrame

\* The same, of four.
LEMMA FrameOfFour ==
    ASSUME NEW in \in Packets, in.id = 0, NEW p \in Packets, p.id <= 0, ~IsInput(p),
           NEW q \in Packets, q.id <= 0, ~IsInput(q), NEW r \in Packets, r.id <= 0, ~IsInput(r), NEW act
    PROVE  IsFrame(<<p, q, r, in>>, act)
<1> DEFINE s == <<p, q, r, in>>
<1>1. Len(s) = 4 /\ s[1] = p /\ s[2] = q /\ s[3] = r /\ s[4] = in /\ s \in Seq(Packets) /\ s # <<>>
  OBVIOUS
<1> HIDE DEF s
<1>2. \A i \in 1..4 : i = 1 \/ i = 2 \/ i = 3 \/ i = 4
  OBVIOUS
<1>3. \A i \in 1..4 : s[i].id <= 0
  BY <1>1, <1>2
<1>4. \A i \in 1..3 : ~IsInput(s[i])
  BY <1>1
<1>5. IsFrame(s, act)
  BY <1>1, <1>3, <1>4 DEF IsFrame
<1> QED BY <1>5 DEF s

\* Whatever the scenario, what a client sends in one tick is a frame.
LEMMA SentTyped ==
    ASSUME cl \in Clients, NEW on \in BOOLEAN
    PROVE  IsFrame(Sent(cl.act, on), cl.act)
<1> DEFINE act == cl.act
           in == Input(act, on)
           other(k, does) == Pk(k, does) \in Packets /\ Pk(k, does).id <= 0 /\ ~IsInput(Pk(k, does))
<1>1. act \in Legitimate \cup Modified /\ {act, "", "gui", "craft"} \subseteq Labels
  <2>1. act \in Legitimate \cup Modified
    BY DEF Clients
  <2>2. "gui" \in Legitimate /\ "craft" \in Modified
    BY DEF Legitimate, Modified
  <2> QED BY <2>1, <2>2 DEF Labels
<1>2. in \in Packets /\ in.id = 0
  BY <1>1, InputTyped
<1>3. /\ other("request", "gui") /\ other("request", act) /\ other("request", "craft") /\ other("swing", "")
      /\ other("attack", act) /\ other("sound", "") /\ other("use", act) /\ other("action", act)
      /\ other("interact", act)
  <2>1. /\ {"request", "swing", "attack", "sound", "use", "action", "interact"} \subseteq PacketKinds \ {"input"}
    BY DEF PacketKinds
  <2>2. ASSUME NEW k \in PacketKinds \ {"input"}, NEW does \in Labels PROVE other(k, does)
    BY <2>2, PkTyped DEF IsInput
  <2> HIDE DEF other
  <2> QED BY <1>1, <2>1, <2>2
<1> HIDE DEF act, in
<1>4. Sent(act, on) \in
        {<<in>>, <<Pk("request", "gui"), in>>, <<Pk("request", act), in>>, <<Pk("request", "craft"), in>>,
         <<Pk("swing", ""), Pk("attack", act), in>>, <<Pk("attack", act), Pk("swing", ""), in>>,
         <<Pk("attack", act), in>>, <<Pk("swing", ""), Pk("sound", ""), Pk("attack", act), in>>,
         <<Pk("use", act), Pk("use", act), Pk("use", act), in>>,
         <<Pk("use", act), in>>, <<Pk("action", act), in>>, <<Pk("interact", act), in>>}
      \/ Sent(act, on) = <<[Pk("echo", act) EXCEPT !.id = -cl.frame], in>>
      \/ (act = "flood" /\ Sent(act, on) = <<in, in, in>>)
  BY Zenon DEF Sent, in
<1> HIDE DEF other
<1>5. /\ IsFrame(<<Pk("swing", ""), Pk("sound", ""), Pk("attack", act), in>>, act)
      /\ IsFrame(<<Pk("use", act), Pk("use", act), Pk("use", act), in>>, act)
  BY <1>2, <1>3, FrameOfFour DEF other
<1>6. IsFrame(<<[Pk("echo", act) EXCEPT !.id = -cl.frame], in>>, act)
  <2> DEFINE id == -cl.frame
             p == [Pk("echo", act) EXCEPT !.id = id]
  <2>1. id \in Int /\ id <= 0
    BY DEF Clients
  <2> HIDE DEF id
  <2>2. p \in Packets /\ p.id = id /\ ~IsInput(p)
    BY <1>1, <2>1, EchoTyped
  <2> HIDE DEF p
  <2>3. IsFrame(<<p, in>>, act)
    BY <1>2, <2>1, <2>2, FrameOfTwo
  <2> QED BY <2>3 DEF p, id
<1>7. act = "flood" => IsFrame(<<in, in, in>>, act)
  <2>1. Len(<<in, in, in>>) = 3 /\ \A i \in 1..3 : <<in, in, in>>[i] = in
    OBVIOUS
  <2> QED BY <1>2, <2>1 DEF IsFrame
<1>8. ASSUME NEW k, NEW does, other(k, does) PROVE IsFrame(<<Pk(k, does), in>>, act)
  BY <1>2, <1>8, FrameOfTwo DEF other
<1>9. ASSUME NEW k1, NEW d1, other(k1, d1), NEW k2, NEW d2, other(k2, d2)
      PROVE  IsFrame(<<Pk(k1, d1), Pk(k2, d2), in>>, act)
  BY <1>2, <1>9, FrameOfThree DEF other
<1>10. IsFrame(<<in>>, act)
  BY <1>2, FrameOfOne
<1>11. /\ IsFrame(<<Pk("request", "gui"), in>>, act) /\ IsFrame(<<Pk("request", act), in>>, act)
       /\ IsFrame(<<Pk("request", "craft"), in>>, act) /\ IsFrame(<<Pk("attack", act), in>>, act)
       /\ IsFrame(<<Pk("use", act), in>>, act)
       /\ IsFrame(<<Pk("action", act), in>>, act) /\ IsFrame(<<Pk("interact", act), in>>, act)
  BY <1>3, <1>8
<1>12. /\ IsFrame(<<Pk("swing", ""), Pk("attack", act), in>>, act)
       /\ IsFrame(<<Pk("attack", act), Pk("swing", ""), in>>, act)
  BY <1>3, <1>9
<1>13. IsFrame(Sent(act, on), act)
  BY <1>4, <1>5, <1>6, <1>7, <1>10, <1>11, <1>12
<1> QED BY <1>13 DEF act

-----------------------------------------------------------------------------
(* the steps *)

\* What the steps use of the types.
LEMMA ClockTyped ==
    ASSUME PaceInv
    PROVE  /\ now \in Int /\ lastTick \in Int /\ serverTick \in Int /\ clientTick \in Int /\ allowed \in Nat
           /\ cl.lag \in Nat /\ up \in Seq(Packets) /\ Len(up) \in Nat /\ DOMAIN up = 1..Len(up)
           /\ pending \in Seq(Batches) /\ Len(pending) \in Nat /\ DOMAIN pending = 1..Len(pending)
           /\ changes \in Nat /\ received \in 0..Len(pending)
           /\ \A j : Behind(up, j) \in Nat
           /\ \A i \in DOMAIN pending : pending[i].at \in Int /\ pending[i].id \in Int
           /\ \A j \in DOMAIN up : up[j].id \in Int
<1>1. up \in Seq(Packets) /\ pending \in Seq(Batches)
  BY DEF PaceInv, BudgetInv
<1>2. \A j : Behind(up, j) \in Nat
  BY <1>1, BehindCounts
<1>3. \A i \in DOMAIN pending : pending[i].at \in Int /\ pending[i].id \in Int
  <2> TAKE i \in DOMAIN pending
  <2>1. pending[i] \in Batches
    BY <1>1
  <2> QED BY <2>1 DEF Batches
<1>4. \A j \in DOMAIN up : up[j].id \in Int
  <2> TAKE j \in DOMAIN up
  <2>1. up[j] \in Packets
    BY <1>1
  <2> QED BY <2>1 DEF Packets
<1>5. cl.lag \in Nat
  BY DEF PaceInv, Clients
<1> QED BY <1>1, <1>2, <1>3, <1>4, <1>5 DEF PaceInv, BudgetInv, BatchesNumbered

\* Nothing that the pace depends on but the limit is changed by what leaves the queues alone.
LEMMA SameBatches ==
    ASSUME BatchesNumbered, UNCHANGED <<changes, batch, received, pending, serverTick, up>>
    PROVE  BatchesNumbered'
BY DEF BatchesNumbered, Answered

\* The pace is kept by what leaves its clocks and queues alone.
LEMMA SamePace ==
    ASSUME InStep, UNCHANGED <<cl, up, allowed, clientTick, pending, serverTick, now, lastTick>>
    PROVE  InStep'
BY DEF InStep, Answered

\* A frame is a tick that is due and at most one input, unless the client floods.
LEMMA FramePace ==
    ASSUME PaceInv, NEW on \in BOOLEAN, Frame(on)
    PROVE  PaceInv'
<1> DEFINE s == Sent(cl.act, on)
           frame == cl.frame + 1
           row == IF on THEN AtMost(cl.row + 1, 2) ELSE 0
<1>1. BudgetInv'
  BY BudgetInvStep DEF PaceInv, Next
<1>2. cl \in Clients /\ TicksDue /\ BatchesNumbered /\ InStep /\ cl.lag < Cap
  BY DEF PaceInv
<1>3. IsFrame(s, cl.act)
  BY <1>2, SentTyped
<1>4. /\ now' = now + 1 /\ fired' = TRUE /\ up' = up \o s
      /\ cl' = [cl EXCEPT !.frame = frame, !.on = on, !.row = row, !.kb = FALSE]
      /\ UNCHANGED <<woken, lastTick, serverTick, clientTick, allowed, batch, pending, received, changes>>
      /\ Cardinality({i \in DOMAIN up : IsInput(up[i])}) <= cl.lag
  BY DEF Frame, rateVars, ackVars
<1> HIDE DEF s
<1>5. cl' \in Clients /\ cl'.act = cl.act /\ cl'.lag = cl.lag
  <2>1. frame \in Nat \ {0} /\ row \in 0..2
    BY <1>2 DEF Clients, AtMost
  <2> HIDE DEF frame, row
  <2> QED BY <1>2, <1>4, <2>1 DEF Clients
<1>6. s \in Seq(Packets) /\ s # <<>> /\ \A i \in 1..Len(s) : s[i].id <= 0
  BY <1>3 DEF IsFrame
<1>7. up' \in Seq(Packets)
  BY <1>4, <1>6, ClockTyped
<1>8. TicksDue'
  BY <1>2, <1>4, ClockTyped DEF TicksDue
<1>9. \A j \in DOMAIN up' : \/ j \in DOMAIN up /\ up'[j] = up[j]
                            \/ up'[j].id <= 0 /\ up'[j].id \in Int
  <2> TAKE j \in DOMAIN up'
  <2>1. j \in 1..(Len(up) + Len(s)) /\ Len(up) \in Nat /\ Len(s) \in Nat /\ DOMAIN up = 1..Len(up)
    BY <1>4, <1>6, ClockTyped
  <2>2. CASE j <= Len(up)
    BY <1>4, <1>6, <2>1, <2>2, ClockTyped
  <2>3. CASE j > Len(up)
    <3>1. j - Len(up) \in 1..Len(s) /\ up'[j] = s[j - Len(up)]
      BY <1>4, <1>6, <2>1, <2>3, ClockTyped, SMTT(40)
    <3>2. s[j - Len(up)] \in Packets
      BY <1>6, <3>1
    <3> QED BY <1>6, <3>1, <3>2 DEF Packets
  <2> QED BY <2>1, <2>2, <2>3
<1>10. \A j \in DOMAIN up' : \A i \in DOMAIN pending :
         Answered(up'[j], pending[i]) => j \in DOMAIN up /\ Answered(up[j], pending[i])
  <2>1. \A i \in DOMAIN pending : pending[i].id \in Int /\ pending[i].id >= 1
    BY <1>2, ClockTyped DEF BatchesNumbered
  <2> QED BY <1>9, <2>1 DEF Answered
<1>11. BatchesNumbered'
  <2>1. \A j \in DOMAIN up' : up'[j].id <= changes /\ (batch # {} => up'[j].id < changes)
    BY <1>2, <1>9, ClockTyped DEF BatchesNumbered
  <2>2. \A j \in DOMAIN up' : \A i \in DOMAIN pending : Answered(up'[j], pending[i]) => i <= received
    BY <1>2, <1>10 DEF BatchesNumbered
  <2>3. UNCHANGED <<changes, batch, received, pending, serverTick>>
    BY <1>4
  <2> QED BY <1>2, <2>1, <2>2, <2>3 DEF BatchesNumbered
<1>12. InStep'
  <2> SUFFICES ASSUME cl.act # "flood"
               PROVE  /\ Behind(up', 0) <= cl.lag + 1
                      /\ Behind(up', 0) <= allowed + (now' - lastTick)
                      /\ clientTick + Behind(up', 0) <= serverTick + (now' - lastTick)
                      /\ \A j \in DOMAIN up' : \A i \in DOMAIN pending :
                           Answered(up'[j], pending[i]) => pending[i].at + Behind(up', j) <= serverTick + (now' - lastTick)
    BY <1>4, <1>5 DEF InStep
  <2>1. /\ Behind(up, 0) <= allowed + (now - lastTick)
        /\ clientTick + Behind(up, 0) <= serverTick + (now - lastTick)
        /\ \A j \in DOMAIN up : \A i \in DOMAIN pending :
             Answered(up[j], pending[i]) => pending[i].at + Behind(up, j) <= serverTick + (now - lastTick)
    BY <1>2 DEF InStep
  <2>2. \A j : Behind(up', j) <= Behind(up, j) + 1 /\ Behind(up', j) \in Nat
    <3> TAKE j
    <3>1. \A i \in 1..(Len(s) - 1) : ~IsInput(s[i])
      BY <1>3 DEF IsFrame
    <3>2. Behind(up \o s, j) <= Behind(up, j) + 1
      BY <1>6, <3>1, ClockTyped, BehindFrame
    <3> QED BY <1>4, <1>7, <3>2, BehindCounts
  <2>10. /\ now \in Int /\ lastTick \in Int /\ serverTick \in Int /\ clientTick \in Int /\ allowed \in Nat
         /\ cl.lag \in Nat /\ now' = now + 1 /\ Behind(up, 0) \in Nat
    BY <1>4, ClockTyped
  <2>3. Behind(up, 0) <= cl.lag
    <3>1. {i \in DOMAIN up : IsInput(up[i])} = InputsBehind(up, 0)
      BY ClockTyped DEF InputsBehind
    <3> QED BY <1>4, <3>1 DEF Behind
  <2>4. \A j \in DOMAIN up : \A i \in DOMAIN pending :
          Answered(up[j], pending[i]) => pending[i].at + Behind(up', j) <= serverTick + (now' - lastTick)
    <3> TAKE j \in DOMAIN up
    <3> TAKE i \in DOMAIN pending
    <3> HAVE Answered(up[j], pending[i])
    <3>1. pending[i].at \in Int /\ Behind(up, j) \in Nat
      BY ClockTyped
    <3>2. pending[i].at + Behind(up, j) <= serverTick + (now - lastTick)
      BY <2>1
    <3>3. Behind(up', j) <= Behind(up, j) + 1 /\ Behind(up', j) \in Nat
      BY <2>2
    <3> QED BY <2>10, <3>1, <3>2, <3>3
  <2>5. /\ Behind(up', 0) <= cl.lag + 1 /\ Behind(up', 0) <= allowed + (now' - lastTick)
        /\ clientTick + Behind(up', 0) <= serverTick + (now' - lastTick)
    <3>1. Behind(up', 0) <= Behind(up, 0) + 1 /\ Behind(up', 0) \in Nat
      BY <2>2
    <3> QED BY <2>1, <2>3, <2>10, <3>1
  <2> QED BY <1>10, <2>4, <2>5
<1> QED BY <1>1, <1>2, <1>5, <1>7, <1>8, <1>11, <1>12 DEF PaceInv

\* Behind the answer to a batch there is no input yet.
LEMMA ReceivePace ==
    ASSUME PaceInv, Receive
    PROVE  PaceInv'
<1> DEFINE n == received + 1
           b == pending[n]
           us == b.changes
           p == [Pk("echo", "") EXCEPT !.id = b.id]
<1>1. BudgetInv'
  BY BudgetInvStep DEF PaceInv, Next
<1>2. cl \in Clients /\ TicksDue /\ BatchesNumbered /\ InStep /\ cl.lag < Cap
  BY DEF PaceInv
<1>3. /\ n \in DOMAIN pending /\ received' = n /\ cl' = Received(cl, us) /\ up' = Append(up, p)
      /\ UNCHANGED <<now, fired, woken, lastTick, serverTick, clientTick, allowed, batch, pending, changes>>
  <2>1. n \in DOMAIN pending
    <3>1. received < Len(pending)
      BY DEF Receive
    <3>2. received \in 0..Len(pending) /\ Len(pending) \in Nat /\ DOMAIN pending = 1..Len(pending)
      BY ClockTyped
    <3> HIDE DEF b
    <3> QED BY <3>1, <3>2
  <2> QED BY <2>1 DEF Receive, tickVars, rateVars
<1>4. p \in Packets /\ p.k = "echo" /\ p.id = b.id /\ ~IsInput(p)
  <2>1. b.id \in Int
    BY <1>3, ClockTyped
  <2>2. "" \in Labels
    BY DEF Labels
  <2> HIDE DEF b
  <2> QED BY <2>1, <2>2, EchoTyped
<1> HIDE DEF p
<1>5. cl' \in Clients /\ cl'.act = cl.act /\ cl'.lag = cl.lag
  <2> DEFINE pos == IF us \cap {"teleport", "smoothed"} # {} THEN cl.pos + 1 ELSE cl.pos
             kb == cl.kb \/ "knockback" \in us
             mode == IF "creative" \in us THEN TRUE ELSE IF "survival" \in us THEN FALSE ELSE cl.creative
  <2>1. pos \in Nat /\ kb \in BOOLEAN /\ mode \in BOOLEAN
    <3>1. cl.pos \in Nat /\ cl.kb \in BOOLEAN /\ cl.creative \in BOOLEAN
      BY <1>2 DEF Clients
    <3>2. pos \in Nat
      BY <3>1
    <3>3. kb \in BOOLEAN /\ mode \in BOOLEAN
      BY <3>1
    <3> QED BY <3>2, <3>3
  <2>2. cl' = [cl EXCEPT !.pos = pos, !.kb = kb, !.creative = mode]
    BY <1>3 DEF Received
  <2> HIDE DEF pos, kb, mode
  <2> QED BY <1>2, <2>1, <2>2 DEF Clients
<1>6. up' \in Seq(Packets) /\ DOMAIN up' = 1..(Len(up) + 1) /\ up'[Len(up) + 1] = p
      /\ (\A j \in DOMAIN up : up'[j] = up[j]) /\ (\A j \in DOMAIN up' : j \in DOMAIN up \/ j = Len(up) + 1)
  BY <1>3, <1>4, ClockTyped
<1>7. TicksDue'
  BY <1>2, <1>3 DEF TicksDue
<1>8. \A i \in DOMAIN pending : Answered(p, pending[i]) => i = n
  BY <1>2, <1>3, <1>4 DEF Answered, BatchesNumbered
<1>9. BatchesNumbered'
  <2>1. \A j \in DOMAIN up' : up'[j].id <= changes /\ (batch # {} => up'[j].id < changes)
    <3>1. p.id <= changes /\ (batch # {} => p.id < changes)
      BY <1>2, <1>3, <1>4, ClockTyped DEF BatchesNumbered
    <3> QED BY <1>2, <1>6, <3>1 DEF BatchesNumbered
  <2>2. \A j \in DOMAIN up' : \A i \in DOMAIN pending : Answered(up'[j], pending[i]) => i <= n
    <3> TAKE j \in DOMAIN up'
    <3> TAKE i \in DOMAIN pending
    <3> HAVE Answered(up'[j], pending[i])
    <3>1. CASE j \in DOMAIN up
      <4>1. i <= received
        BY <1>2, <1>6, <3>1 DEF BatchesNumbered
      <4> QED BY <4>1, ClockTyped
    <3>2. CASE j = Len(up) + 1
      <4>1. i = n
        BY <1>6, <1>8, <3>2
      <4> QED BY <4>1, ClockTyped
    <3> QED BY <1>6, <3>1, <3>2
  <2>3. n \in 0..Len(pending)
    BY <1>3, ClockTyped
  <2>4. received' = n /\ UNCHANGED <<changes, batch, pending, serverTick>>
    BY <1>3
  <2> HIDE DEF n
  <2> QED BY <1>2, <2>1, <2>2, <2>3, <2>4 DEF BatchesNumbered
<1>10. InStep'
  <2> SUFFICES ASSUME cl.act # "flood"
               PROVE  /\ Behind(up', 0) <= cl.lag + 1
                      /\ Behind(up', 0) <= allowed + (now - lastTick)
                      /\ clientTick + Behind(up', 0) <= serverTick + (now - lastTick)
                      /\ \A j \in DOMAIN up' : \A i \in DOMAIN pending :
                           Answered(up'[j], pending[i]) => pending[i].at + Behind(up', j) <= serverTick + (now - lastTick)
    BY <1>3, <1>5 DEF InStep
  <2>1. /\ Behind(up, 0) <= cl.lag + 1
        /\ Behind(up, 0) <= allowed + (now - lastTick)
        /\ clientTick + Behind(up, 0) <= serverTick + (now - lastTick)
        /\ \A j \in DOMAIN up : \A i \in DOMAIN pending :
             Answered(up[j], pending[i]) => pending[i].at + Behind(up, j) <= serverTick + (now - lastTick)
    BY <1>2 DEF InStep
  <2>2. (\A j : Behind(up', j) = Behind(up, j)) /\ Behind(up', Len(up) + 1) = 0
    BY <1>3, <1>4, ClockTyped, BehindAppend
  <2>3. pending[n].at + 0 <= serverTick + (now - lastTick)
    <3>1. pending[n].at <= serverTick /\ pending[n].at \in Int
      BY <1>2, <1>3, ClockTyped DEF BatchesNumbered
    <3> QED BY <1>2, <3>1, ClockTyped DEF TicksDue
  <2>4. ASSUME NEW j \in DOMAIN up', NEW i \in DOMAIN pending, Answered(up'[j], pending[i])
        PROVE  pending[i].at + Behind(up', j) <= serverTick + (now - lastTick)
    <3>1. CASE j \in DOMAIN up
      BY <1>6, <2>1, <2>2, <2>4, <3>1
    <3>2. CASE j = Len(up) + 1
      <4>1. i = n
        BY <1>6, <1>8, <2>4, <3>2
      <4> QED BY <2>2, <2>3, <3>2, <4>1
    <3> QED BY <1>6, <3>1, <3>2
  <2> QED BY <2>1, <2>2, <2>4
<1> QED BY <1>1, <1>2, <1>5, <1>6, <1>7, <1>9, <1>10 DEF PaceInv

\* A change of the backend is noted for the next flush.
LEMMA ServerPacketPace ==
    ASSUME PaceInv, HandleServerPacket(cl.change)
    PROVE  PaceInv'
<1>1. BudgetInv'
  BY BudgetInvStep DEF PaceInv, Next
<1>2. cl \in Clients /\ TicksDue /\ BatchesNumbered /\ InStep /\ cl.lag < Cap
  BY DEF PaceInv
<1>3. /\ changes' = changes + 1
      /\ UNCHANGED <<now, fired, woken, lastTick, serverTick, clientTick, allowed, pending, received, up, cl>>
  BY DEF HandleServerPacket, tickVars, rateVars
<1>4. BatchesNumbered'
  <2>1. changes' \in Nat /\ changes' >= 1
    BY <1>3, ClockTyped
  <2>2. \A i \in DOMAIN pending : pending[i].id \in 1..changes' /\ pending[i].at <= serverTick /\ pending[i].id < changes'
    <3> TAKE i \in DOMAIN pending
    <3>1. pending[i].id \in 1..changes /\ pending[i].at <= serverTick
      BY <1>2 DEF BatchesNumbered
    <3> QED BY <1>3, <3>1, ClockTyped
  <2>3. \A j \in DOMAIN up : up[j].id <= changes' /\ up[j].id < changes'
    <3> TAKE j \in DOMAIN up
    <3>1. up[j].id <= changes /\ up[j].id \in Int
      BY <1>2, ClockTyped DEF BatchesNumbered
    <3> QED BY <1>3, <3>1, ClockTyped
  <2> QED BY <1>2, <1>3, <2>1, <2>2, <2>3 DEF BatchesNumbered
<1>5. InStep'
  BY <1>2, <1>3, SamePace
<1>6. TicksDue'
  BY <1>2, <1>3 DEF TicksDue
<1> QED BY <1>1, <1>2, <1>3, <1>4, <1>5, <1>6, ClockTyped DEF PaceInv

\* The loop wakes for the tick that was due.
LEMMA WakePace ==
    ASSUME PaceInv, Wake
    PROVE  PaceInv'
<1>1. BudgetInv'
  BY BudgetInvStep DEF PaceInv, Next
<1>2. cl \in Clients /\ TicksDue /\ BatchesNumbered /\ InStep /\ cl.lag < Cap
  BY DEF PaceInv
<1>3. /\ woken' = TRUE /\ fired' = FALSE
      /\ UNCHANGED <<now, lastTick, serverTick, clientTick, allowed, batch, pending, changes, received, up, cl>>
  BY DEF Wake, rateVars, ackVars
<1>4. TicksDue'
  BY <1>2, <1>3 DEF TicksDue
<1> QED BY <1>1, <1>2, <1>3, <1>4, SameBatches, SamePace, ClockTyped DEF PaceInv

\* A tick grants what has passed since the last one, or what the client is behind.
LEMMA RefilledEnough ==
    ASSUME NEW n \in Nat, NEW lag \in Int, NEW e \in Nat \ {0}, NEW k \in Nat, k <= n + e, k <= lag + e
    PROVE  k <= Refilled(n, lag, e)
BY DEF Refilled, AtLeast0

\* The tick makes up for all that was due, in the limit as in the ticks of the server.
LEMMA ServerTickPace ==
    ASSUME PaceInv, ServerTick(ElapsedTicks(now - lastTick))
    PROVE  PaceInv'
<1> DEFINE e == ElapsedTicks(now - lastTick)
           t == serverTick + e
           b == [id |-> changes, changes |-> batch, at |-> t]
           k == Behind(up, 0)
<1>1. BudgetInv'
  BY BudgetInvStep DEF PaceInv, Next
<1>2. BudgetInv /\ cl \in Clients /\ TicksDue /\ BatchesNumbered /\ InStep /\ cl.lag < Cap
  BY DEF PaceInv
<1>3. e \in Nat \ {0} /\ now - lastTick <= e /\ now - lastTick \in Nat
  BY <1>2, ClockTyped DEF TicksDue, ElapsedTicks
<1>4. /\ woken' = FALSE /\ lastTick' = now /\ serverTick' = t /\ Limit(e)
      /\ pending' = IF batch = {} THEN pending ELSE Append(pending, b)
      /\ batch' = {}
      /\ UNCHANGED <<now, fired, clientTick, hasFirst, received, changes, up, cl>>
  BY DEF ServerTick
<1> HIDE DEF e
<1>5. t \in Int /\ serverTick + (now - lastTick) <= t
  BY <1>3, ClockTyped
<1>6. TicksDue'
  <2>1. now \in Int /\ lastTick' = now /\ now' = now /\ woken' = FALSE /\ fired' = fired
    BY <1>4, ClockTyped
  <2>2. fired \in BOOLEAN
    BY <1>2 DEF TicksDue
  <2>3. fired' \in BOOLEAN /\ woken' \in BOOLEAN /\ lastTick' = now'
    BY <2>1, <2>2
  <2>4. lastTick' <= now'
    BY <2>1
  <2> QED BY <2>3, <2>4 DEF TicksDue
<1>7. b \in Batches
  BY <1>2, <1>5 DEF Batches, BudgetInv
<1>8. \A i \in DOMAIN pending' : \/ i \in DOMAIN pending /\ pending'[i] = pending[i]
                                 \/ batch # {} /\ i = Len(pending) + 1 /\ pending'[i].id = changes /\ pending'[i].at = t
  <2>1. CASE batch = {}
    BY <1>4, <2>1
  <2>2. CASE batch # {}
    <3> HIDE DEF b
    <3>1. /\ pending' = Append(pending, b) /\ DOMAIN pending' = 1..(Len(pending) + 1)
          /\ pending'[Len(pending) + 1] = b /\ \A i \in DOMAIN pending : pending'[i] = pending[i]
      <4>1. pending' = Append(pending, b) /\ pending \in Seq(Batches) /\ b \in Batches
        BY <1>4, <1>7, <2>2, ClockTyped
      <4> QED BY <4>1, SMTT(40)
    <3>2. \A i \in DOMAIN pending' : i \in DOMAIN pending \/ i = Len(pending) + 1
      BY <3>1, ClockTyped
    <3>3. b.id = changes /\ b.at = t
      BY DEF b
    <3> QED BY <2>2, <3>1, <3>2, <3>3
  <2> QED BY <2>1, <2>2
<1>9. Len(pending') \in Nat /\ Len(pending) <= Len(pending')
  <2> HIDE DEF b
  <2> QED BY <1>4, <1>7, ClockTyped
<1>10. \A j \in DOMAIN up : \A i \in DOMAIN pending' :
         Answered(up[j], pending'[i]) => i \in DOMAIN pending /\ pending'[i] = pending[i]
  <2> TAKE j \in DOMAIN up
  <2> TAKE i \in DOMAIN pending'
  <2> HAVE Answered(up[j], pending'[i])
  <2>1. batch # {} => up[j].id < changes /\ up[j].id \in Int
    BY <1>2, ClockTyped DEF BatchesNumbered
  <2> QED BY <1>8, <2>1, ClockTyped DEF Answered
<1> HIDE DEF b, t
<1>11. BatchesNumbered'
  <2>1. \A i \in DOMAIN pending' : pending'[i].id \in 1..changes /\ pending'[i].at <= t
    <3> TAKE i \in DOMAIN pending'
    <3>1. CASE i \in DOMAIN pending /\ pending'[i] = pending[i]
      <4>1. pending[i].id \in 1..changes /\ pending[i].at <= serverTick /\ pending[i].at \in Int
        BY <1>2, <3>1, ClockTyped DEF BatchesNumbered
      <4>2. serverTick <= t
        BY <1>3, <1>5, ClockTyped
      <4> QED BY <1>5, <3>1, <4>1, <4>2, ClockTyped
    <3>2. CASE batch # {} /\ pending'[i].id = changes /\ pending'[i].at = t
      <4>1. changes \in 1..changes
        BY <1>2, <3>2, ClockTyped DEF BatchesNumbered
      <4> QED BY <1>5, <3>2, <4>1
    <3> QED BY <1>8, <3>1, <3>2
  <2>2. \A i, j \in DOMAIN pending' : pending'[i].id = pending'[j].id => i = j
    <3> TAKE i, j \in DOMAIN pending'
    <3>1. batch # {} => \A x \in DOMAIN pending : pending[x].id # changes
      BY <1>2, ClockTyped, SMTT(40) DEF BatchesNumbered
    <3>2. \A x, y \in DOMAIN pending : pending[x].id = pending[y].id => x = y
      BY <1>2 DEF BatchesNumbered
    <3> QED BY <1>8, <3>1, <3>2
  <2>3. \A j \in DOMAIN up : up[j].id <= changes
    BY <1>2 DEF BatchesNumbered
  <2>4. \A j \in DOMAIN up : \A i \in DOMAIN pending' : Answered(up[j], pending'[i]) => i <= received
    BY <1>2, <1>10 DEF BatchesNumbered
  <2>5. received \in 0..Len(pending')
    BY <1>9, ClockTyped
  <2> QED BY <1>4, <2>1, <2>2, <2>3, <2>4, <2>5, ClockTyped DEF BatchesNumbered
<1>12. InStep'
  <2> SUFFICES ASSUME cl.act # "flood"
               PROVE  /\ k <= cl.lag + 1
                      /\ k <= allowed' + (now - now)
                      /\ clientTick + k <= t + (now - now)
                      /\ \A j \in DOMAIN up : \A i \in DOMAIN pending' :
                           Answered(up[j], pending'[i]) => pending'[i].at + Behind(up, j) <= t + (now - now)
    BY <1>4 DEF InStep
  <2>0. now - now = 0
    BY ClockTyped
  <2>1. /\ k <= cl.lag + 1
        /\ k <= allowed + (now - lastTick)
        /\ clientTick + k <= serverTick + (now - lastTick)
        /\ \A j \in DOMAIN up : \A i \in DOMAIN pending :
             Answered(up[j], pending[i]) => pending[i].at + Behind(up, j) <= serverTick + (now - lastTick)
    BY <1>2 DEF InStep
  <2>2. k \in Nat
    BY ClockTyped
  <2> HIDE DEF k
  <2>3. k <= allowed'
    <3>1. CASE ~hasFirst
      <4>1. allowed' = Cap
        BY <1>4, <3>1 DEF Limit
      <4> QED BY <1>2, <2>1, <2>2, <4>1, ClockTyped, SMTT(40) DEF Cap
    <3>2. CASE hasFirst
      <4> DEFINE lag == serverTick + e - clientTick
      <4>1. allowed' = Refilled(allowed, lag, e)
        <5>1. Limit(e)
          BY <1>4
        <5> QED BY <3>2, <5>1 DEF Limit
      <4>2. lag \in Int /\ k <= lag + e /\ k <= allowed + e
        <5>1. now \in Int /\ lastTick \in Int /\ serverTick \in Int /\ clientTick \in Int /\ allowed \in Nat
          BY ClockTyped
        <5> QED BY <1>3, <2>1, <2>2, <5>1
      <4> HIDE DEF lag
      <4>3. k <= Refilled(allowed, lag, e)
        BY <1>3, <2>2, <4>2, ClockTyped, RefilledEnough
      <4> QED BY <4>1, <4>3
    <3> QED BY <3>1, <3>2
  <2>4. clientTick + k <= t
    BY <1>3, <1>5, <2>1, <2>2, ClockTyped, SMTT(40)
  <2>5. ASSUME NEW j \in DOMAIN up, NEW i \in DOMAIN pending', Answered(up[j], pending'[i])
        PROVE  pending'[i].at + Behind(up, j) <= t
    <3>1. i \in DOMAIN pending /\ pending'[i] = pending[i]
      BY <1>10, <2>5
    <3>2. pending[i].at + Behind(up, j) <= serverTick + (now - lastTick)
      BY <2>1, <2>5, <3>1
    <3>3. pending[i].at \in Int /\ Behind(up, j) \in Nat
      BY <3>1, ClockTyped
    <3> QED BY <1>5, <3>1, <3>2, <3>3, ClockTyped, SMTT(40)
  <2>6. allowed' \in Nat
    BY <1>1 DEF BudgetInv
  <2> QED BY <1>5, <2>0, <2>1, <2>2, <2>3, <2>4, <2>5, <2>6, ClockTyped, SMTT(40)
<1> QED BY <1>1, <1>2, <1>4, <1>6, <1>11, <1>12, ClockTyped DEF PaceInv

\* What the handling of a packet does to the queue it is taken from.
LEMMA TakenBehind ==
    ASSUME PaceInv, up # <<>>
    PROVE  /\ Tail(up) \in Seq(Packets) /\ Head(up) = up[1] /\ 1 \in DOMAIN up
           /\ \A j \in DOMAIN Tail(up) : /\ j + 1 \in DOMAIN up /\ Tail(up)[j] = up[j + 1]
                                         /\ Behind(Tail(up), j) = Behind(up, j + 1)
           /\ Behind(Tail(up), 0) = Behind(up, 1)
           /\ Behind(up, 0) = IF IsInput(Head(up)) THEN Behind(Tail(up), 0) + 1 ELSE Behind(Tail(up), 0)
<1>1. up \in Seq(Packets)
  BY ClockTyped
<1>2. /\ Tail(up) \in Seq(Packets) /\ Head(up) = up[1] /\ 1 \in DOMAIN up
      /\ \A j \in DOMAIN Tail(up) : j \in Nat /\ j + 1 \in DOMAIN up /\ Tail(up)[j] = up[j + 1]
  BY <1>1
<1>3. \A j \in Nat : Behind(Tail(up), j) = Behind(up, j + 1)
  BY <1>1, BehindTail
<1>4. Behind(Tail(up), 0) = Behind(up, 1)
  BY <1>3
<1>5. Behind(up, 0) = IF IsInput(Head(up)) THEN Behind(up, 1) + 1 ELSE Behind(up, 1)
  BY <1>1, BehindHead
<1> QED BY <1>2, <1>3, <1>4, <1>5

\* A packet that is not an answer leaves the batches alone; only an input that is accepted counts.
LEMMA OtherPace ==
    ASSUME PaceInv, up # <<>>, up' = Tail(up), BudgetInv',
           UNCHANGED <<now, fired, woken, lastTick, serverTick, cl, batch, pending, received, changes>>,
           \/ /\ IsInput(Head(up)) /\ allowed > 0
              /\ allowed' = allowed - 1 /\ clientTick' = clientTick + 1
           \/ /\ IsInput(Head(up)) /\ allowed = 0
              /\ allowed' = allowed /\ clientTick' = clientTick
           \/ /\ ~IsInput(Head(up))
              /\ allowed' = allowed /\ clientTick' = clientTick
    PROVE  PaceInv'
<1> DEFINE k == Behind(up, 0)
           k2 == Behind(Tail(up), 0)
<1>1. cl \in Clients /\ TicksDue /\ BatchesNumbered /\ InStep /\ cl.lag < Cap
  BY DEF PaceInv
<1>2. TicksDue'
  BY <1>1 DEF TicksDue
<1>3. \A j \in DOMAIN Tail(up) : j + 1 \in DOMAIN up /\ Tail(up)[j] = up[j + 1] /\ Behind(Tail(up), j) = Behind(up, j + 1)
  BY TakenBehind
<1>4. Tail(up) \in Seq(Packets)
  BY TakenBehind
<1>5. BatchesNumbered'
  <2>1. \A j \in DOMAIN Tail(up) : Tail(up)[j].id <= changes /\ (batch # {} => Tail(up)[j].id < changes)
    BY <1>1, <1>3 DEF BatchesNumbered
  <2>2. \A j \in DOMAIN Tail(up) : \A i \in DOMAIN pending : Answered(Tail(up)[j], pending[i]) => i <= received
    BY <1>1, <1>3 DEF BatchesNumbered
  <2> QED BY <1>1, <2>1, <2>2 DEF BatchesNumbered
<1>6. k \in Nat /\ k2 \in Nat /\ k = IF IsInput(Head(up)) THEN k2 + 1 ELSE k2
  BY <1>4, TakenBehind, ClockTyped, BehindCounts
<1>7. InStep'
  <2> SUFFICES ASSUME cl.act # "flood"
               PROVE  /\ k2 <= cl.lag + 1
                      /\ k2 <= allowed' + (now - lastTick)
                      /\ clientTick' + k2 <= serverTick + (now - lastTick)
                      /\ \A j \in DOMAIN Tail(up) : \A i \in DOMAIN pending :
                           Answered(Tail(up)[j], pending[i]) =>
                             pending[i].at + Behind(Tail(up), j) <= serverTick + (now - lastTick)
    BY DEF InStep
  <2>1. /\ k <= cl.lag + 1
        /\ k <= allowed + (now - lastTick)
        /\ clientTick + k <= serverTick + (now - lastTick)
        /\ \A j \in DOMAIN up : \A i \in DOMAIN pending :
             Answered(up[j], pending[i]) => pending[i].at + Behind(up, j) <= serverTick + (now - lastTick)
    BY <1>1 DEF InStep
  <2>2. \A j \in DOMAIN Tail(up) : \A i \in DOMAIN pending :
          Answered(Tail(up)[j], pending[i]) =>
            pending[i].at + Behind(Tail(up), j) <= serverTick + (now - lastTick)
    BY <1>3, <2>1
  <2> HIDE DEF k, k2
  <2>3. k2 <= cl.lag + 1
    BY <1>6, <2>1, ClockTyped, SMTT(40)
  <2>4. k2 <= allowed' + (now - lastTick) /\ clientTick' + k2 <= serverTick + (now - lastTick)
    <3>1. now \in Int /\ lastTick \in Int /\ serverTick \in Int /\ clientTick \in Int /\ allowed \in Nat
      BY ClockTyped
    <3>2. CASE IsInput(Head(up)) /\ allowed > 0
      BY <1>6, <2>1, <3>1, <3>2
    <3>3. CASE IsInput(Head(up)) /\ allowed = 0
      BY <1>6, <2>1, <3>1, <3>3
    <3>4. CASE ~IsInput(Head(up))
      BY <1>6, <2>1, <3>1, <3>4
    <3> QED BY <3>2, <3>3, <3>4
  <2> QED BY <2>2, <2>3, <2>4
<1> QED BY <1>1, <1>2, <1>4, <1>5, <1>7 DEF PaceInv

\* The answer to the oldest batch runs it.
LEMMA ExecutePace ==
    ASSUME PaceInv, up # <<>>, up' = Tail(up), BudgetInv', Execute(Head(up)),
           UNCHANGED <<now, fired, woken, lastTick, serverTick, cl>>
    PROVE  PaceInv'
<1> DEFINE k == Behind(up, 0)
           k2 == Behind(Tail(up), 0)
           b == pending[1]
<1>1. cl \in Clients /\ TicksDue /\ BatchesNumbered /\ InStep /\ cl.lag < Cap
  BY DEF PaceInv
<1>2. TicksDue'
  BY <1>1 DEF TicksDue
<1>3. /\ Head(up).k = "echo" /\ pending # <<>> /\ Head(up).id = Head(pending).id
      /\ pending' = Tail(pending) /\ received' = received - 1
      /\ UNCHANGED <<allowed, batch, changes>>
      /\ clientTick' = clientTick \/ clientTick' = Head(pending).at
  <2>1. clientTick' = clientTick \/ clientTick' = Head(pending).at
    BY DEF Execute, LatencyRun
  <2> QED BY <2>1 DEF Execute, Expected
<1>4. /\ Head(pending) = b /\ 1 \in DOMAIN pending /\ Tail(pending) \in Seq(Batches) /\ Len(Tail(pending)) = Len(pending) - 1
      /\ \A i \in DOMAIN Tail(pending) : i \in Nat /\ i + 1 \in DOMAIN pending /\ Tail(pending)[i] = pending[i + 1]
  BY <1>3, ClockTyped
<1>5. \A j \in DOMAIN Tail(up) : j + 1 \in DOMAIN up /\ Tail(up)[j] = up[j + 1] /\ Behind(Tail(up), j) = Behind(up, j + 1)
  BY TakenBehind
<1>6. Tail(up) \in Seq(Packets) /\ 1 \in DOMAIN up /\ Head(up) = up[1] /\ k2 = Behind(up, 1)
  BY TakenBehind
<1>7. ~IsInput(Head(up))
  BY <1>3 DEF IsInput
<1>8. k \in Nat /\ k = k2
  BY <1>7, TakenBehind, ClockTyped
<1>9. Answered(up[1], pending[1])
  BY <1>3, <1>4, <1>6 DEF Answered
<1>10. BatchesNumbered'
  <2>1. \A j \in DOMAIN Tail(up) : Tail(up)[j].id <= changes /\ (batch # {} => Tail(up)[j].id < changes)
    BY <1>1, <1>5 DEF BatchesNumbered
  <2>2. \A j \in DOMAIN Tail(up) : \A i \in DOMAIN Tail(pending) :
          Answered(Tail(up)[j], Tail(pending)[i]) => i <= received - 1
    <3> TAKE j \in DOMAIN Tail(up)
    <3> TAKE i \in DOMAIN Tail(pending)
    <3> HAVE Answered(Tail(up)[j], Tail(pending)[i])
    <3>1. i + 1 <= received
      BY <1>1, <1>4, <1>5 DEF BatchesNumbered
    <3> QED BY <1>4, <3>1, ClockTyped
  <2>3. received - 1 \in 0..Len(Tail(pending))
    <3>1. 1 <= received
      BY <1>1, <1>4, <1>6, <1>9 DEF BatchesNumbered
    <3> QED BY <1>4, <3>1, ClockTyped
  <2>4. \A i \in DOMAIN Tail(pending) : /\ Tail(pending)[i].id \in 1..changes /\ Tail(pending)[i].at <= serverTick
                                        /\ batch # {} => Tail(pending)[i].id < changes
    BY <1>1, <1>4 DEF BatchesNumbered
  <2>5. \A i, j \in DOMAIN Tail(pending) : Tail(pending)[i].id = Tail(pending)[j].id => i = j
    <3> TAKE i, j \in DOMAIN Tail(pending)
    <3> HAVE Tail(pending)[i].id = Tail(pending)[j].id
    <3>1. i + 1 = j + 1
      BY <1>1, <1>4 DEF BatchesNumbered
    <3> QED BY <1>4, <3>1
  <2> QED BY <1>1, <1>3, <2>1, <2>2, <2>3, <2>4, <2>5 DEF BatchesNumbered
<1>11. InStep'
  <2> SUFFICES ASSUME cl.act # "flood"
               PROVE  /\ k2 <= cl.lag + 1
                      /\ k2 <= allowed + (now - lastTick)
                      /\ clientTick' + k2 <= serverTick + (now - lastTick)
                      /\ \A j \in DOMAIN Tail(up) : \A i \in DOMAIN Tail(pending) :
                           Answered(Tail(up)[j], Tail(pending)[i]) =>
                             Tail(pending)[i].at + Behind(Tail(up), j) <= serverTick + (now - lastTick)
    BY <1>3 DEF InStep
  <2>1. /\ k <= cl.lag + 1
        /\ k <= allowed + (now - lastTick)
        /\ clientTick + k <= serverTick + (now - lastTick)
        /\ \A j \in DOMAIN up : \A i \in DOMAIN pending :
             Answered(up[j], pending[i]) => pending[i].at + Behind(up, j) <= serverTick + (now - lastTick)
    BY <1>1 DEF InStep
  <2>2. \A j \in DOMAIN Tail(up) : \A i \in DOMAIN Tail(pending) :
          Answered(Tail(up)[j], Tail(pending)[i]) =>
            Tail(pending)[i].at + Behind(Tail(up), j) <= serverTick + (now - lastTick)
    BY <1>4, <1>5, <2>1
  <2>3. b.at + k2 <= serverTick + (now - lastTick)
    BY <1>4, <1>6, <1>9, <2>1
  <2>4. clientTick' + k2 <= serverTick + (now - lastTick)
    BY <1>3, <1>4, <1>8, <2>1, <2>3
  <2> QED BY <1>8, <2>1, <2>2, <2>4
<1> QED BY <1>1, <1>2, <1>6, <1>10, <1>11 DEF PaceInv

\* Each packet handled is an answer, an input or neither.
LEMMA PacketPace ==
    ASSUME PaceInv, NEW cancelled \in BOOLEAN, NEW spared \in BOOLEAN, HandleClientPacket(cancelled, spared)
    PROVE  PaceInv'
<1>1. BudgetInv'
  BY BudgetInvStep DEF PaceInv, Next
<1>2. /\ up # <<>> /\ up' = Tail(up) /\ UNCHANGED <<now, fired, woken, lastTick, serverTick, cl>>
      /\ \/ Execute(Head(up)) \/ PlayerAuthInput(Head(up), cancelled, spared)
         \/ OtherPacket(Head(up), cancelled, spared)
  BY DEF HandleClientPacket, tickVars
<1>3. CASE Execute(Head(up))
  BY <1>1, <1>2, <1>3, ExecutePace
<1>4. CASE PlayerAuthInput(Head(up), cancelled, spared)
  <2>1. /\ IsInput(Head(up))
        /\ allowed' = IF allowed > 0 THEN allowed - 1 ELSE allowed
        /\ clientTick' = IF allowed > 0 THEN clientTick + 1 ELSE clientTick
        /\ UNCHANGED <<batch, pending, received, changes>>
    BY <1>4 DEF PlayerAuthInput, InputAcceptable, ackVars
  <2>2. allowed > 0 \/ allowed = 0
    BY ClockTyped
  <2>3. \/ allowed > 0 /\ allowed' = allowed - 1 /\ clientTick' = clientTick + 1
        \/ allowed = 0 /\ allowed' = allowed /\ clientTick' = clientTick
    BY <2>1, <2>2
  <2> QED BY <1>1, <1>2, <2>1, <2>3, OtherPace
<1>5. CASE OtherPacket(Head(up), cancelled, spared)
  <2>1. ~IsInput(Head(up)) /\ UNCHANGED <<allowed, clientTick, batch, pending, received, changes>>
    BY <1>5 DEF OtherPacket, rateVars, ackVars
  <2> QED BY <1>1, <1>2, <2>1, OtherPace
<1> QED BY <1>2, <1>3, <1>4, <1>5

\* Every step keeps the pace.
LEMMA PaceInvStep == PaceInv /\ [Next]_vars => PaceInv'
<1> SUFFICES ASSUME PaceInv, [Next]_vars PROVE PaceInv'
  OBVIOUS
<1>1. CASE \E on \in BOOLEAN : Frame(on)
  BY <1>1, FramePace
<1>2. CASE Receive
  BY <1>2, ReceivePace
<1>3. CASE HandleServerPacket(cl.change)
  BY <1>3, ServerPacketPace
<1>4. CASE Wake
  BY <1>4, WakePace
<1>5. CASE ServerTick(ElapsedTicks(now - lastTick))
  BY <1>5, ServerTickPace
<1>6. CASE \E cancelled, spared \in BOOLEAN : HandleClientPacket(cancelled, spared)
  BY <1>6, PacketPace
<1>7. CASE UNCHANGED vars
  <2>1. UNCHANGED <<now, fired, woken, lastTick, serverTick, clientTick, allowed, batch, pending, received, changes, up, cl>>
    BY <1>7 DEF vars
  <2>2. BudgetInv'
    BY BudgetInvStep DEF PaceInv
  <2>3. TicksDue /\ BatchesNumbered /\ InStep
    BY DEF PaceInv
  <2>4. TicksDue' /\ BatchesNumbered' /\ InStep'
    BY <2>1, <2>3, SameBatches, SamePace DEF TicksDue
  <2> QED BY <2>1, <2>2, <2>4 DEF PaceInv
<1> QED BY <1>1, <1>2, <1>3, <1>4, <1>5, <1>6, <1>7 DEF Next

\* At first nothing is under way and a whole allowance is there.
LEMMA PaceInvInit ==
    ASSUME \A s \in Scenarios : s.lag < Cap
    PROVE  Init => PaceInv
<1> SUFFICES ASSUME Init PROVE PaceInv
  OBVIOUS
<1>1. BudgetInv
  BY BudgetInvInit
<1>2. PICK s \in Scenarios :
        cl = [act |-> s.act, change |-> s.change, lag |-> s.lag, frame |-> FirstFrame, on |-> FALSE,
              row |-> 0, kb |-> FALSE, pos |-> 1, creative |-> FALSE]
  BY DEF Init
<1>3. s.act \in Legitimate \cup Modified /\ s.change \in Changes /\ s.lag \in Nat
  BY DetectionsAssumption
<1>4. FirstFrame \in Nat \ {0} /\ 0 \in 0..2 /\ 1 \in Nat
  BY DEF FirstFrame
<1> HIDE DEF FirstFrame
<1>5. cl \in Clients /\ cl.lag = s.lag
  BY <1>2, <1>3, <1>4 DEF Clients
<1>6. /\ now = 0 /\ lastTick = 0 /\ fired = FALSE /\ woken = FALSE /\ serverTick = 0 /\ clientTick = 0
      /\ allowed = Cap /\ batch = {} /\ pending = <<>> /\ received = 0 /\ changes = 0 /\ up = <<>>
  BY DEF Init
<1>7. TicksDue
  <2>1. lastTick <= now
    BY <1>6
  <2>2. lastTick = now /\ fired = FALSE /\ woken = FALSE
    BY <1>6
  <2> QED BY <2>1, <2>2 DEF TicksDue
<1>8. BatchesNumbered
  BY <1>6 DEF BatchesNumbered
<1>9. up \in Seq(Packets) /\ Behind(up, 0) = 0
  <2>1. InputsBehind(up, 0) = {}
    BY <1>6 DEF InputsBehind
  <2> QED BY <1>6, <2>1, FS_EmptySet DEF Behind
<1>10. InStep
  BY <1>3, <1>5, <1>6, <1>9 DEF InStep, Cap
<1> QED BY <1>1, <1>3, <1>5, <1>7, <1>8, <1>9, <1>10 DEF PaceInv

\* InputAcceptable, Tick: whoever sends one input for every tick of time is never refused but while a
\* tick of the loop is due, however late its packets are (less than the first allowance of 65535 inputs,
\* most of an hour), whatever its answers do to the client's tick and however long the loop stalls.
THEOREM InTimeIsAccepted ==
    ASSUME \A s \in Scenarios : s.lag < Cap
    PROVE  Spec => []InTimeAccepted
<1>1. Init => PaceInv
  BY PaceInvInit
<1>2. PaceInv /\ [Next]_vars => PaceInv'
  BY PaceInvStep
<1>3. PaceInv => InTimeAccepted
  <2> SUFFICES ASSUME PaceInv, cl.act # "flood", up # <<>>, IsInput(Head(up)), ~fired, ~woken
               PROVE  allowed > 0
    BY DEF InTimeAccepted
  <2>1. lastTick = now
    BY DEF PaceInv, TicksDue
  <2>2. Behind(up, 0) <= allowed + (now - lastTick)
    BY DEF PaceInv, InStep
  <2>3. Behind(up, 0) = Behind(Tail(up), 0) + 1 /\ Behind(Tail(up), 0) = Behind(up, 1)
    BY TakenBehind
  <2> QED BY <2>1, <2>2, <2>3, ClockTyped
<1> QED BY <1>1, <1>2, <1>3, PTL DEF Spec

-----------------------------------------------------------------------------
(* the record of a detection *)

\* The fields of a record, and what its violations rest on: a flag that was kept is worth one
\* violation at most, and none was in the future.
Fields == {"buffer", "violations", "lastFlagged", "flagged", "kept", "m"}
Counted(r, t) ==
    /\ DOMAIN r = Fields
    /\ r.kept \in Nat /\ r.violations \in Int /\ r.lastFlagged \in Int
    /\ r.violations <= r.kept * Violation /\ r.lastFlagged <= t

\* The detections, by name.
LEMMA DetectorNames ==
    Detectors = {"AutoclickerA", "AimA", "BadPacketA", "BadPacketB", "BadPacketC", "BadPacketD", "BadPacketE",
                 "BadPacketF", "BadPacketG", "BadPacketH", "BadPacketI", "BadPacketJ", "BadPacketK",
                 "BadPacketL", "BadPacketM", "BadPacketN", "BadPacketO", "BadPacketP", "BadPacketQ",
                 "EditionFakerA", "EditionFakerB", "EditionFakerC", "InvMoveA", "NukerA", "KillauraA",
                 "ReachA", "ReachB", "HitboxA", "PhaseA", "ScaffoldA", "SpeedA", "TimerA"}
BY DEF Detectors, Metadata

\* The trust durations of the constructors.
LEMMA TrustDurations == \A d \in Detectors : Metadata[d].trust \in {-1, 0, 400, 1200}
BY DetectorNames DEF Metadata, Limits, Once, Patient

\* The limits are numbers, whatever is configured.
LEMMA LimitsTyped == \A d \in Detectors : MaxViolations(d) \in Int
BY RulesAssumption DEF MaxViolations, Violation

\* FailDetection: a flag adds at most one violation, however long ago the last one was.
LEMMA WeightBounds ==
    ASSUME NEW d \in Detectors, NEW r, NEW t \in Int, r.lastFlagged \in Int, r.lastFlagged <= t
    PROVE  Weight(d, r, t) \in Int /\ Weight(d, r, t) <= Violation
<1> DEFINE trust == Metadata[d].trust
           left == AtLeast0(trust - (t - r.lastFlagged))
<1>1. trust \in {-1, 0, 400, 1200}
  BY TrustDurations
<1> HIDE DEF trust
<1>2. trust > 0 => left \in 0..trust
  BY <1>1 DEF AtLeast0
<1> HIDE DEF left
<1>3. trust = 400 => trust > 0 /\ left * (Violation \div trust) \in 0..Violation
  BY <1>2 DEF Violation
<1>4. trust = 1200 => trust > 0 /\ left * (Violation \div trust) \in 0..Violation
  BY <1>2 DEF Violation
<1>5. Weight(d, r, t) = IF trust > 0 THEN left * (Violation \div trust) ELSE Violation
  BY DEF Weight, trust, left
<1> QED BY <1>1, <1>3, <1>4, <1>5, SMTT(40) DEF Violation

\* A flag of a record that is counted leaves it counted.
LEMMA FlagCounted ==
    ASSUME NEW d \in Detectors, NEW r, NEW t \in Int, Counted(r, t), NEW cancelled
    PROVE  Counted(Flag(d, r, t, cancelled), t)
<1>1. CASE cancelled
  BY <1>1 DEF Flag, Counted, Fields
<1>2. CASE ~cancelled
  <2> DEFINE w == Weight(d, r, t)
             last == IF Metadata[d].trust > 0 THEN t ELSE r.lastFlagged
  <2>1. w \in Int /\ w <= Violation
    BY WeightBounds DEF Counted
  <2>2. last \in Int /\ last <= t
    BY DEF Counted
  <2>3. Flag(d, r, t, cancelled) =
          [r EXCEPT !.flagged = TRUE, !.kept = r.kept + 1, !.violations = r.violations + w, !.lastFlagged = last]
    BY <1>2 DEF Flag
  <2> HIDE DEF w, last
  <2> QED BY <2>1, <2>2, <2>3 DEF Counted, Fields, Violation
<1> QED BY <1>1, <1>2

\* A failure, which flags or only fills the buffer, leaves it counted as well.
LEMMA FailCounted ==
    ASSUME NEW d \in Detectors, NEW r, NEW t \in Int, Counted(r, t), NEW cancelled
    PROVE  Counted(FailDetection(d, r, t, cancelled), t)
<1> DEFINE f == Filled(d, r)
<1>1. Counted(f, t)
  BY DEF Filled, Counted, Fields
<1> HIDE DEF f
<1>2. Counted(Flag(d, f, t, cancelled), t)
  BY <1>1, FlagCounted
<1>3. FailDetection(d, r, t, cancelled) = IF f.buffer < Metadata[d].fail THEN f ELSE Flag(d, f, t, cancelled)
  BY DEF FailDetection, FailFilled, f
<1> QED BY <1>1, <1>2, <1>3

\* PassDetection, FailDetection: whatever the verdict, the violations are no more than the flags that
\* were kept.
LEMMA JudgeCounted ==
    ASSUME NEW d \in Detectors, NEW r, NEW t \in Int, Counted(r, t), NEW v, NEW cancelled
    PROVE  Counted(Judge(d, r, v, t, cancelled), t)
<1> DEFINE one == FailDetection(d, r, t, cancelled)
           two == FailDetection(d, one, t, cancelled)
           passed == PassDetection(d, r, v.pass)
           s == IF v.fails = 0 THEN passed ELSE FailTimes(d, r, v.fails, t, cancelled)
<1>1. Counted(one, t)
  BY FailCounted
<1> HIDE DEF one
<1>2. Counted(two, t)
  BY <1>1, FailCounted
<1>3. Counted(passed, t)
  BY DEF PassDetection, Counted, Fields
<1>4. s \in {passed, one, two}
  BY DEF FailTimes, one
<1> HIDE DEF two, passed, s
<1>5. Counted(s, t)
  BY <1>1, <1>2, <1>3, <1>4
<1>6. Judge(d, r, v, t, cancelled) = [s EXCEPT !.m = v.m]
  BY DEF Judge, s, passed
<1> QED BY <1>5, <1>6 DEF Counted, Fields

-----------------------------------------------------------------------------
(* the removal of a player *)

\* A queue in which no packet is from a touch screen.
Untouched(q) == \E S : q \in Seq(S) /\ \A pk \in S : pk.mode # 2

\* What a removal rests on: every record is counted, the server's tick never goes back, whoever does
\* not touch sends no such packet, and who was removed had it coming.
RemovalInv ==
    /\ BudgetInv
    /\ DOMAIN det = Detectors /\ \A d \in Detectors : Counted(det[d], serverTick)
    /\ "act" \in DOMAIN cl
    /\ cl.act # "touch" => Untouched(up)
    /\ RemovedForCause

\* Queues of such packets, end to end and one shorter.
LEMMA UntouchedConcat ==
    ASSUME NEW q, NEW r, Untouched(q), Untouched(r)
    PROVE  Untouched(q \o r)
<1>1. PICK S : q \in Seq(S) /\ \A pk \in S : pk.mode # 2
  BY DEF Untouched
<1>2. PICK T : r \in Seq(T) /\ \A pk \in T : pk.mode # 2
  BY DEF Untouched
<1> DEFINE U == S \cup T
<1>3. q \in Seq(U) /\ r \in Seq(U)
  BY <1>1, <1>2
<1>4. \A pk \in U : pk.mode # 2
  BY <1>1, <1>2
<1> HIDE DEF U
<1>5. q \o r \in Seq(U)
  BY <1>3
<1> QED BY <1>4, <1>5 DEF Untouched

\* A queue of one packet.
LEMMA UntouchedOne ==
    ASSUME NEW pk, pk.mode # 2
    PROVE  Untouched(<<pk>>)
<1> DEFINE U == {pk}
<1>1. \A x \in U : x.mode # 2
  OBVIOUS
<1>2. <<pk>> \in Seq(U)
  OBVIOUS
<1> HIDE DEF U
<1> QED BY <1>1, <1>2 DEF Untouched

\* A queue and what is appended to it.
LEMMA UntouchedAppend ==
    ASSUME NEW q, NEW pk, Untouched(q), pk.mode # 2
    PROVE  Untouched(Append(q, pk))
<1>1. PICK S : q \in Seq(S) /\ \A x \in S : x.mode # 2
  BY DEF Untouched
<1> DEFINE U == S \cup {pk}
<1>2. \A x \in U : x.mode # 2
  BY <1>1
<1>3. q \in Seq(U) /\ pk \in U
  BY <1>1
<1> HIDE DEF U
<1>4. Append(q, pk) \in Seq(U)
  BY <1>3
<1> QED BY <1>2, <1>4 DEF Untouched

\* The packet in front, and the queue behind it.
LEMMA UntouchedHead ==
    ASSUME NEW q, Untouched(q), q # <<>>
    PROVE  Head(q).mode # 2 /\ Untouched(Tail(q))
<1>1. PICK S : q \in Seq(S) /\ \A x \in S : x.mode # 2
  BY DEF Untouched
<1>2. Head(q) \in S /\ Tail(q) \in Seq(S)
  BY <1>1
<1> QED BY <1>1, <1>2 DEF Untouched

\* The packets of a frame: only the client that touches says so.
LEMMA SentUntouched ==
    ASSUME NEW act, act # "touch", NEW on
    PROVE  Untouched(Sent(act, on))
<1> DEFINE in == Input(act, on)
           id == -cl.frame
           echo == [Pk("echo", act) EXCEPT !.id = id]
<1>1. in.mode # 2
  <2> DEFINE mode == ModeOf(act, on)
             tick == IF on /\ act = "zeroTick" THEN 0 ELSE cl.frame
             pos == IF on /\ act = "nan" THEN -1 ELSE cl.pos
             edge == on /\ (act = "jumpSpam" \/ (act = "jump" /\ ~cl.on))
             kb == cl.kb
             label == Label(act, on)
  <2>1. mode # 2
    BY DEF ModeOf
  <2>2. in = [Pk("input", label) EXCEPT !.tick = tick, !.pos = pos, !.edge = edge, !.mode = mode, !.kb = kb]
    BY DEF Input
  <2> HIDE DEF mode, tick, pos, edge, kb, label, in
  <2>3. in.mode = mode
    BY <2>2 DEF Pk
  <2> QED BY <2>1, <2>3
<1>2. \A k, does : Pk(k, does).mode # 2
  BY DEF Pk
<1>3. echo.mode # 2
  <2> HIDE DEF id
  <2> QED BY DEF Pk
<1> HIDE DEF in, echo
<1>4. Untouched(<<in>>)
  BY <1>1, UntouchedOne
<1>5. ASSUME NEW p, p.mode # 2 PROVE Untouched(<<p, in>>)
  <2> DEFINE U == {p, in}
  <2>1. \A x \in U : x.mode # 2
    BY <1>1, <1>5
  <2>2. <<p, in>> \in Seq(U)
    OBVIOUS
  <2> HIDE DEF U
  <2> QED BY <2>1, <2>2 DEF Untouched
<1>6. ASSUME NEW p, p.mode # 2, NEW r, r.mode # 2 PROVE Untouched(<<p, r, in>>)
  <2> DEFINE U == {p, r, in}
  <2>1. \A x \in U : x.mode # 2
    BY <1>1, <1>6
  <2>2. <<p, r, in>> \in Seq(U)
    OBVIOUS
  <2> HIDE DEF U
  <2> QED BY <2>1, <2>2 DEF Untouched
<1>7. ASSUME NEW p, p.mode # 2, NEW q, q.mode # 2, NEW r, r.mode # 2 PROVE Untouched(<<p, q, r, in>>)
  <2> DEFINE U == {p, q, r, in}
  <2>1. \A x \in U : x.mode # 2
    BY <1>1, <1>7
  <2>2. <<p, q, r, in>> \in Seq(U)
    OBVIOUS
  <2> HIDE DEF U
  <2> QED BY <2>1, <2>2 DEF Untouched
<1>8. \/ Sent(act, on) = <<in>>
      \/ \E k, does : Sent(act, on) = <<Pk(k, does), in>>
      \/ \E k, does, j, to : Sent(act, on) = <<Pk(k, does), Pk(j, to), in>>
      \/ \E k, does, j, to, l, by : Sent(act, on) = <<Pk(k, does), Pk(j, to), Pk(l, by), in>>
      \/ Sent(act, on) = <<echo, in>>
      \/ Sent(act, on) = <<in, in, in>>
  <2>1. Sent(act, on) \in
          {<<in>>, <<Pk("request", "gui"), in>>, <<Pk("request", act), in>>, <<Pk("request", "craft"), in>>,
           <<Pk("swing", ""), Pk("attack", act), in>>, <<Pk("attack", act), Pk("swing", ""), in>>,
           <<Pk("attack", act), in>>, <<Pk("use", act), in>>,
           <<Pk("action", act), in>>, <<Pk("interact", act), in>>,
           <<Pk("swing", ""), Pk("sound", ""), Pk("attack", act), in>>,
           <<Pk("use", act), Pk("use", act), Pk("use", act), in>>, <<echo, in>>, <<in, in, in>>}
    BY Zenon DEF Sent, in, echo
  <2> QED BY <2>1, Zenon
<1> QED BY <1>1, <1>2, <1>3, <1>4, <1>5, <1>6, <1>7, <1>8

\* EditionFakerA and C: only an unknown device or the touch of one without a screen expels at once.
LEMMA ExpelledForDevice ==
    ASSUME NEW pk, NEW act, NEW first, Expelled(pk, Login(act), first), act # "unknown"
    PROVE  pk.mode = 2
<1>1. Login(act).os = "win32"
  BY DEF Login
<1>2. ~TitleUnknown(Login(act))
  BY <1>1 DEF TitleUnknown, TitleOf
<1> QED BY <1>2 DEF Expelled

\* What a packet does to the records: they stay counted, and whoever is removed has reached a limit.
LEMMA DetectionsRemoval ==
    ASSUME RemovalInv, NEW pk, NEW m, NEW cancelled, NEW spared, RunDetections(pk, m, cancelled, spared),
           cl.act # "touch" => pk.mode # 2, UNCHANGED <<serverTick, cl>>
    PROVE  /\ DOMAIN det' = Detectors /\ \A d \in Detectors : Counted(det'[d], serverTick)
           /\ RemovedForCause'
<1>1. /\ det' = [d \in Detectors |-> Judge(d, det[d], Verdict(d, pk, m, det[d].m), serverTick, cancelled)]
      /\ closed' => Expelled(pk, Login(cl.act), det["EditionFakerA"].m) \/ Punished(det, det')
  BY DEF RunDetections
<1>2. serverTick \in Int
  BY DEF RemovalInv, BudgetInv
<1>3. ASSUME NEW d \in Detectors PROVE Counted(det'[d], serverTick)
  <2> DEFINE v == Verdict(d, pk, m, det[d].m)
  <2>1. det'[d] = Judge(d, det[d], v, serverTick, cancelled)
    BY <1>1
  <2>2. Counted(det[d], serverTick)
    BY DEF RemovalInv
  <2> HIDE DEF v
  <2> QED BY <1>2, <2>1, <2>2, JudgeCounted
<1>4. ASSUME closed', cl'.act \notin {"unknown", "touch"}
      PROVE  \E d \in Detectors : det'[d].kept * Violation >= MaxViolations(d)
  <2>1. cl.act # "unknown" /\ pk.mode # 2
    BY <1>4
  <2>2. Punished(det, det')
    BY <1>1, <1>4, <2>1, ExpelledForDevice
  <2>3. PICK d \in Detectors : det'[d].violations >= MaxViolations(d)
    BY <2>2 DEF Punished
  <2>4. det'[d].kept \in Nat /\ det'[d].violations \in Int /\ det'[d].violations <= det'[d].kept * Violation
    BY <1>3 DEF Counted
  <2>5. MaxViolations(d) \in Int
    BY LimitsTyped
  <2> DEFINE limit == MaxViolations(d)
  <2>6. limit \in Int /\ det'[d].violations >= limit
    BY <2>3, <2>5
  <2> HIDE DEF limit
  <2>7. det'[d].kept * Violation >= limit
    BY <2>4, <2>6 DEF Violation
  <2> QED BY <2>7 DEF limit
<1>5. DOMAIN det' = Detectors
  BY <1>1
<1> QED BY <1>3, <1>4, <1>5 DEF RemovedForCause

\* A packet of the client.
LEMMA PacketRemoval ==
    ASSUME RemovalInv, NEW cancelled, NEW spared, HandleClientPacket(cancelled, spared)
    PROVE  RemovalInv'
<1> DEFINE pk == Head(up)
<1>1. /\ up # <<>> /\ up' = Tail(up) /\ ~closed /\ UNCHANGED <<serverTick, cl>>
      /\ Execute(pk) \/ PlayerAuthInput(pk, cancelled, spared) \/ OtherPacket(pk, cancelled, spared)
  BY DEF HandleClientPacket, tickVars
<1>2. cl.act # "touch" => pk.mode # 2 /\ Untouched(up')
  BY <1>1, UntouchedHead DEF RemovalInv
<1> HIDE DEF pk
<1>3. BudgetInv'
  BY PacketKeeps DEF RemovalInv
<1>4. /\ DOMAIN det' = Detectors /\ \A d \in Detectors : Counted(det'[d], serverTick)
      /\ RemovedForCause'
  <2>1. CASE Execute(pk)
    BY <1>1, <2>1 DEF Execute, RemovalInv, RemovedForCause
  <2>2. CASE PlayerAuthInput(pk, cancelled, spared)
    <3>1. PICK m : RunDetections(pk, m, cancelled, spared)
      BY <2>2 DEF PlayerAuthInput
    <3> QED BY <1>1, <1>2, <3>1, DetectionsRemoval
  <2>3. CASE OtherPacket(pk, cancelled, spared)
    <3>1. RunDetections(pk, mv, cancelled, spared)
      BY <2>3 DEF OtherPacket
    <3> QED BY <1>1, <1>2, <3>1, DetectionsRemoval
  <2> QED BY <1>1, <2>1, <2>2, <2>3
<1> QED BY <1>1, <1>2, <1>3, <1>4 DEF RemovalInv

\* Every step of the system.
LEMMA RemovalInvStep == RemovalInv /\ [Next]_vars => RemovalInv'
<1> SUFFICES ASSUME RemovalInv, [Next]_vars PROVE RemovalInv'
  OBVIOUS
<1>1. BudgetInv'
  BY BudgetInvStep DEF RemovalInv
<1>2. ASSUME UNCHANGED <<det, closed, cl, up, serverTick>> PROVE RemovalInv'
  BY <1>1, <1>2 DEF RemovalInv, RemovedForCause, Untouched
<1>3. CASE \E on \in BOOLEAN : Frame(on)
  <2>1. PICK on \in BOOLEAN : Frame(on)
    BY <1>3
  <2>2. /\ UNCHANGED <<det, closed, serverTick>> /\ up' = up \o Sent(cl.act, on)
        /\ "act" \in DOMAIN cl' /\ cl'.act = cl.act
    BY <2>1 DEF Frame, playerVars, RemovalInv
  <2>3. cl'.act # "touch" => Untouched(up')
    BY <2>2, SentUntouched, UntouchedConcat DEF RemovalInv
  <2> QED BY <1>1, <2>2, <2>3 DEF RemovalInv, RemovedForCause
<1>4. CASE Receive
  <2> DEFINE b == pending[received + 1]
             id == b.id
             p == [Pk("echo", "") EXCEPT !.id = id]
  <2>1. /\ UNCHANGED <<det, closed, serverTick>> /\ up' = Append(up, p) /\ cl' = Received(cl, b.changes)
    BY <1>4 DEF Receive, playerVars, tickVars
  <2>2. p.mode # 2
    <3> HIDE DEF id
    <3> QED BY DEF Pk
  <2> HIDE DEF p, b
  <2>3. "act" \in DOMAIN cl' /\ cl'.act = cl.act
    BY <2>1 DEF Received, RemovalInv
  <2>4. cl'.act # "touch" => Untouched(up')
    BY <2>1, <2>2, <2>3, UntouchedAppend DEF RemovalInv
  <2> QED BY <1>1, <2>1, <2>3, <2>4 DEF RemovalInv, RemovedForCause
<1>5. CASE HandleServerPacket(cl.change)
  BY <1>2, <1>5 DEF HandleServerPacket, tickVars
<1>6. CASE Wake
  BY <1>2, <1>6 DEF Wake, playerVars
<1>7. CASE ServerTick(ElapsedTicks(now - lastTick))
  <2> DEFINE e == ElapsedTicks(now - lastTick)
  <2>1. e \in Nat \ {0} /\ serverTick \in Int
    BY ElapsedPositive DEF RemovalInv, BudgetInv
  <2>2. serverTick' = serverTick + e /\ UNCHANGED <<det, closed, cl, up>>
    BY <1>7 DEF ServerTick, playerVars
  <2> HIDE DEF e
  <2>3. \A d \in Detectors : Counted(det'[d], serverTick')
    BY <2>1, <2>2 DEF RemovalInv, Counted
  <2> QED BY <1>1, <2>2, <2>3 DEF RemovalInv, RemovedForCause, Untouched
<1>8. CASE \E cancelled, spared \in BOOLEAN : HandleClientPacket(cancelled, spared)
  BY <1>8, PacketRemoval
<1>9. CASE UNCHANGED vars
  BY <1>2, <1>9 DEF vars
<1> QED BY <1>3, <1>4, <1>5, <1>6, <1>7, <1>8, <1>9 DEF Next

\* At first nobody was flagged.
LEMMA RemovalInvInit == Init => RemovalInv
<1> SUFFICES ASSUME Init PROVE RemovalInv
  OBVIOUS
<1>1. BudgetInv
  BY BudgetInvInit
<1>2. /\ det = [d \in Detectors |-> [buffer |-> 0, violations |-> 0, lastFlagged |-> 0, flagged |-> FALSE,
                                     kept |-> 0, m |-> FirstMemory(d)]]
      /\ closed = FALSE /\ up = <<>> /\ serverTick = 0
  BY DEF Init
<1>3. ASSUME NEW d \in Detectors PROVE Counted(det[d], serverTick)
  <2> DEFINE m == FirstMemory(d)
  <2>1. det[d] = [buffer |-> 0, violations |-> 0, lastFlagged |-> 0, flagged |-> FALSE, kept |-> 0, m |-> m]
    BY <1>2
  <2> HIDE DEF m
  <2> QED BY <1>2, <2>1 DEF Counted, Fields, Violation
<1>4. "act" \in DOMAIN cl
  BY DEF Init
<1>5. Untouched(up)
  <2>1. up \in Seq({}) /\ \A pk \in {} : pk.mode # 2
    BY <1>2
  <2> QED BY <2>1 DEF Untouched
<1>6. DOMAIN det = Detectors
  BY <1>2
<1>7. RemovedForCause
  BY <1>2 DEF RemovedForCause
<1> QED BY <1>1, <1>3, <1>4, <1>5, <1>6, <1>7 DEF RemovalInv

\* FailDetection: whatever a client does and whatever the handler cancels or spares, a player is
\* removed only if one detection flagged it, uncancelled, as often as its configured limit asks for; but for the
\* devices that are not let in.
THEOREM RemovedAtTheLimit == Spec => []RemovedForCause
<1>1. Init => RemovalInv
  BY RemovalInvInit
<1>2. RemovalInv /\ [Next]_vars => RemovalInv'
  BY RemovalInvStep
<1>3. RemovalInv => RemovedForCause
  BY DEF RemovalInv
<1> QED BY <1>1, <1>2, <1>3, PTL DEF Spec
=============================================================================
