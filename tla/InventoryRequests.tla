------------------------- MODULE InventoryRequests -------------------------
(***************************************************************************)
(* The inventory a player is predicted to hold, and the chain of item      *)
(* stack requests it was predicted from: InventoryComponent in             *)
(* player/component/inventory.go and the requests and actions of           *)
(* player/component/inventory_transaction.go.                              *)
(*                                                                         *)
(* A request of the client is executed at once on the predicted inventory  *)
(* and linked into a chain.  The server answers later, in the order of the *)
(* requests: an accepted request is forgotten, a rejected one is undone.   *)
(* All handlers run under the player's procMu, so each is one step; what   *)
(* interleaves are client packets, server packets and acknowledgements.    *)
(*                                                                         *)
(* A slot stands for a (window, index) pair; a stack keeps its kind and    *)
(* its count.  `confirmed' and `mixed', `skipped' are history variables of *)
(* this model: what the server's answers so far amount to.                 *)
(***************************************************************************)
EXTENDS Integers, Sequences

CONSTANTS
    InvSlots,       \* slots of the player's own inventory
    UISlots,        \* slots of the UI inventory (crafting grid, cursor, output)
    BoxSlots,       \* slots of the container the player has open
    OutputSlot,     \* slot 50 of the UI inventory, where crafts appear
    SmallGrid,      \* the crafting slots without an open container, in order
    BigGrid,        \* the crafting slots with one
    Kinds,          \* item types
    WindowIDs,      \* ids the server gives to containers
    Requests,       \* the requests clients send: sequences of wire actions
    InitialItems,   \* what the slots hold at first
    Updates,        \* what the server writes: functions from some slots to stacks
    Drops,          \* drops outside of requests: [slot, count]
    MaxRequests,    \* bound on the requests sent
    MaxUpdates,     \* bound on updates, uses of items and container changes
    MaxBackendChanges,  \* bound on the changes of the backend
    MaxBatch        \* bound on the responses in one packet

Slots == InvSlots \cup UISlots \cup BoxSlots
NoItem == [kind |-> "air", count |-> 0]
ItemStacks == [kind : Kinds \cup {"air"}, count : Nat]
Inventories == [Slots -> ItemStacks]
Ops == {"transfer", "swap", "destroy", "create", "nop", "unknown"}
WireActions == [op : {"transfer", "swap", "destroy", "craft", "creative", "nop", "unknown"},
                src : Slots, dst : Slots, count : Nat, input : Seq(ItemStacks), stack : ItemStacks]

ASSUME SlotAssumption ==
    /\ OutputSlot \in UISlots
    /\ SmallGrid \in Seq(UISlots) /\ BigGrid \in Seq(UISlots)
    /\ InvSlots \cap UISlots = {} /\ BoxSlots \cap (InvSlots \cup UISlots) = {}
    /\ InitialItems \in Inventories

\* What arrives: counts are unsigned on the wire.
ASSUME RequestAssumption ==
    /\ \A request \in Requests : request \in Seq(WireActions)
    /\ \A u \in Updates : DOMAIN u \subseteq Slots /\ \A s \in DOMAIN u : u[s] \in ItemStacks
    /\ Drops \subseteq [slot : Slots, count : Nat]
    /\ MaxRequests \in Nat /\ MaxUpdates \in Nat /\ MaxBackendChanges \in Nat /\ MaxBatch \in Nat

VARIABLES
    items,          \* the predicted contents of every slot
    altOpen,        \* altOpenWindow # nil
    altId,          \* altOpenWindowId
    reqs,           \* the request objects made so far, addressed by their index
    first, current, \* firstRequest and currentRequest, 0 for nil
    sent,           \* the last request id used by the client
    unanswered,     \* ids the server has not answered yet, in order
    acks,           \* server writes waiting for the client's acknowledgement
    syncPending,    \* pendingInventorySync
    mismatches,     \* MismatchTransactionData packets sent to the server
    transfers,      \* number of transfers to another backend so far
    outside,        \* number of updates, uses of items and container changes so far
    panicked,       \* accept() panicked
    confirmed,      \* history: the inventory the answers so far lead to
    mixed,          \* history: something else wrote while requests were pending
    skipped         \* history: a request was rejected while others followed it

inventoryVars == <<items, altOpen, altId, reqs, first, current, sent, unanswered, acks,
          syncPending, mismatches, transfers, outside, panicked,
          confirmed, mixed, skipped>>
chainVars == <<reqs, first, current>>
syncVars == <<syncPending, mismatches>>
historyVars == <<confirmed, mixed, skipped>>

-----------------------------------------------------------------------------
(* Stacks and windows *)

Empty(st) == st.count = 0

\* item.Stack.Grow: the kind stays, and the count stops at zero.
Grow(st, n) == [st EXCEPT !.count = IF @ + n < 0 THEN 0 ELSE @ + n]

\* WindowFromContainerID: every container but the player's own resolves to the
\* window that is open NOW, if there is one.
WindowFromContainerID(s, alt) == s \in InvSlots \cup UISlots \/ (s \in BoxSlots /\ alt)

-----------------------------------------------------------------------------
(* Actions of a request.  destroy and create name one slot: dst = src. *)

Action(op, src, dst, count, stack) ==
    [op |-> op, src |-> src, dst |-> dst, count |-> count, stack |-> stack,
     oldSrc |-> NoItem, oldDst |-> NoItem]

\* An action that writes, both of whose windows are found.
Applies(a, alt) ==
    /\ a.op \in {"transfer", "swap", "destroy", "create"}
    /\ WindowFromContainerID(a.src, alt)
    /\ WindowFromContainerID(a.dst, alt)

transferEffect(a, it) ==
    IF Empty(it[a.src]) \/ a.count > it[a.src].count THEN it
    ELSE LET dst == IF Empty(it[a.dst]) THEN [it[a.src] EXCEPT !.count = 0] ELSE it[a.dst]
         IN  [it EXCEPT ![a.src] = Grow(it[a.src], -a.count),
                        ![a.dst] = Grow(dst, a.count)]

swapEffect(a, it) == [it EXCEPT ![a.src] = it[a.dst], ![a.dst] = it[a.src]]

destroyEffect(a, it) ==
    IF a.count > it[a.src].count THEN it ELSE [it EXCEPT ![a.src] = Grow(@, -a.count)]

createEffect(a, it) == [it EXCEPT ![a.src] = a.stack]

Effect(a, it) ==
    CASE a.op = "transfer" -> transferEffect(a, it)
      [] a.op = "swap"     -> swapEffect(a, it)
      [] a.op = "destroy"  -> destroyEffect(a, it)
      [] a.op = "create"   -> createEffect(a, it)

\* action.execute(): remember what the slots held, then change them.
remember(a, it, alt) ==
    IF Applies(a, alt) THEN [a EXCEPT !.oldSrc = it[a.src], !.oldDst = it[a.dst]] ELSE a
perform(a, it, alt) == IF Applies(a, alt) THEN Effect(a, it) ELSE it

\* The inventory after each of the actions.
Steps(acts, it, alt) ==
    LET after[i \in 0..Len(acts)] == IF i = 0 THEN it ELSE perform(acts[i], after[i - 1], alt)
    IN  after

\* invReq.execute(): the inventory it leads to, and the actions with what they
\* remember.
execute(acts, it, alt) ==
    [items   |-> Steps(acts, it, alt)[Len(acts)],
     actions |-> [i \in 1..Len(acts) |-> remember(acts[i], Steps(acts, it, alt)[i - 1], alt)]]

\* action.revert(): put back what was remembered, wherever the ids lead now.
revertAction(a, it, alt) ==
    IF Applies(a, alt) THEN [it EXCEPT ![a.src] = a.oldSrc, ![a.dst] = a.oldDst] ELSE it

\* Defect: the actions are undone in the order they were done.
revert_Forward(acts, it, alt) ==
    LET undone[k \in 0..Len(acts)] ==
            IF k = 0 THEN it ELSE revertAction(acts[k], undone[k - 1], alt)
    IN  undone[Len(acts)]

\* The loop of invReq.reject(): the last action is undone first.
revert(acts, it, alt) ==
    LET undone[k \in 0..Len(acts)] ==
            IF k = 0 THEN it ELSE revertAction(acts[Len(acts) + 1 - k], undone[k - 1], alt)
    IN  undone[Len(acts)]

\* action.close() takes the player out of the actions of a request that was
\* answered, so that they can do nothing more; the request then leaves the chain
\* and nothing refers to it.  Closed is what is left of it.
Closed == [id |-> 0, prev |-> 0, next |-> 0, actions |-> <<>>]

-----------------------------------------------------------------------------
(* Building a request from the wire actions *)

transferActions(w) ==
    IF WindowFromContainerID(w.src, altOpen) /\ WindowFromContainerID(w.dst, altOpen)
    THEN <<Action(w.op, w.src, w.dst, w.count, NoItem)>> ELSE <<>>

destroyActions(w) ==
    IF WindowFromContainerID(w.src, altOpen)
    THEN <<Action("destroy", w.src, w.src, w.count, NoItem)>> ELSE <<>>

\* Creative crafting needs creative mode and a known creative item.
creativeActions(w, creative) ==
    IF creative THEN <<Action("create", OutputSlot, OutputSlot, 0, w.stack)>> ELSE <<>>

\* handleCraftStackRequest looks for each expected stack among the slots of the
\* grid it has not used yet, and takes the first that holds enough of it.
craftStep(acc, want) ==
    LET grid == IF altOpen THEN BigGrid ELSE SmallGrid
        fits == {i \in 1..Len(grid) : /\ i \notin acc.used
                                      /\ items[grid[i]].kind = want.kind
                                      /\ items[grid[i]].count >= want.count}
        i    == CHOOSE k \in fits : \A j \in fits : k <= j
    IN  IF fits = {} THEN [acc EXCEPT !.allowed = FALSE]
        ELSE [used |-> acc.used \cup {i}, allowed |-> acc.allowed,
              actions |-> Append(acc.actions, Action("destroy", grid[i], grid[i], want.count, NoItem))]

\* The ingredients found are destroyed even when one is missing; the output is
\* created only when none is.
craftActions(w) ==
    LET found[i \in 0..Len(w.input)] ==
            IF i = 0 THEN [used |-> {}, allowed |-> TRUE, actions |-> <<>>]
            ELSE craftStep(found[i - 1], w.input[i])
        all == found[Len(w.input)]
    IN  all.actions \o
        (IF all.allowed THEN <<Action("create", OutputSlot, OutputSlot, 0, w.stack)>> ELSE <<>>)

wireActions(w, creative) ==
    CASE w.op \in {"transfer", "swap"} -> transferActions(w)
      [] w.op = "destroy"              -> destroyActions(w)
      [] w.op = "craft"                -> craftActions(w)
      [] w.op = "creative"             -> creativeActions(w, creative)
      [] OTHER                         -> <<Action(w.op, OutputSlot, OutputSlot, 0, NoItem)>>

buildActions(request, creative) ==
    LET built[i \in 0..Len(request)] ==
            IF i = 0 THEN <<>> ELSE built[i - 1] \o wireActions(request[i], creative)
    IN  built[Len(request)]

-----------------------------------------------------------------------------
(* The chain of requests *)

\* Linking a new request object behind currentRequest.
linkRequest(acts, id) ==
    LET n == Len(reqs) + 1
        new == [id |-> id, prev |-> current, next |-> 0, actions |-> acts]
    IN  /\ current' = n
        /\ IF first = 0
           THEN first' = n /\ reqs' = Append(reqs, new)
           ELSE first' = first /\ reqs' = Append([reqs EXCEPT ![current].next = n], new)

\* A request of the client: HandleSingleRequest, called for PlayerAuthInput and,
\* for each request in turn, by HandleItemStackRequest.  The packet then goes on
\* to the server.  A request without actions is not tracked.
HandleSingleRequest(request, creative) ==
    LET acts == buildActions(request, creative)
        done == execute(acts, items, altOpen)
    IN  /\ ~panicked /\ sent < MaxRequests
        /\ sent' = sent + 1
        /\ unanswered' = Append(unanswered, sent + 1)
        /\ IF acts = <<>>
           THEN UNCHANGED <<items, chainVars>>
           ELSE items' = done.items /\ linkRequest(done.actions, sent + 1)
        /\ UNCHANGED <<altOpen, altId, acks, syncVars, transfers, outside, panicked, historyVars>>

\* The requests of the chain, first to last.
Chain ==
    LET node[i \in 0..Len(reqs)] ==
            IF i = 0 THEN first ELSE IF node[i - 1] = 0 THEN 0 ELSE reqs[node[i - 1]].next
        length == CHOOSE n \in 0..Len(reqs) : \A i \in 0..Len(reqs) : (i < n) = (node[i] # 0)
    IN  [i \in 1..length |-> node[i - 1]]

\* Defect: the flag is not looked at.
ForceSync_Always(s) == [s EXCEPT !.syncPending = TRUE, !.mismatches = @ + 1]

\* ForceSync: one mismatch transaction, and no other until Sync clears the flag.
ForceSync(s) ==
    IF s.syncPending THEN s
    ELSE [s EXCEPT !.syncPending = TRUE, !.mismatches = @ + 1]

\* What HandleItemStackResponse works on.
State == [items |-> items, reqs |-> reqs, first |-> first, current |-> current,
          syncPending |-> syncPending, mismatches |-> mismatches, panicked |-> panicked,
          confirmed |-> confirmed, mixed |-> mixed, skipped |-> skipped, returned |-> FALSE]

\* invReq.accept(): its actions are closed; it must be the head of the chain.
accept(s) ==
    LET r == s.reqs[s.first]
    IN  [s EXCEPT !.panicked = r.prev # 0,
                  !.confirmed = execute(r.actions, s.confirmed, altOpen).items]

\* invReq.reject(): its actions are undone and closed, then the next request,
\* and only that one, is executed again.
reject(s) ==
    LET r == s.reqs[s.first]
        undone == revert(r.actions, s.items, altOpen)
        again == execute(s.reqs[r.next].actions, undone, altOpen)
        closed == [s EXCEPT !.items = undone]
        synced == IF \E i \in DOMAIN r.actions : r.actions[i].op = "unknown"
                  THEN ForceSync(closed) ELSE closed
    IN  IF r.next = 0 THEN synced
        ELSE [synced EXCEPT !.items = again.items, !.skipped = TRUE,
                            !.reqs[r.next].actions = again.actions]

\* Defect: the new head keeps its link to the old one.
popFirst_KeepPrev(s) ==
    IF s.first = s.current
    THEN [s EXCEPT !.reqs[s.first] = Closed, !.first = 0, !.current = 0]
    ELSE LET next == s.reqs[s.first].next
         IN  [s EXCEPT !.reqs[s.first] = Closed, !.first = next]

\* The head leaves the chain.
popFirst(s) ==
    IF s.first = s.current
    THEN [s EXCEPT !.reqs[s.first] = Closed, !.first = 0, !.current = 0]
    ELSE LET next == s.reqs[s.first].next
         IN  [s EXCEPT !.reqs[next].prev = 0, !.reqs[s.first] = Closed, !.first = next]

\* One response.  One that does not answer the head ends the whole packet.
respond(s, response) ==
    IF s.returned \/ s.panicked THEN s
    ELSE IF s.first = 0 THEN ForceSync(s)
    ELSE IF response.id # s.reqs[s.first].id THEN [s EXCEPT !.returned = TRUE]
    ELSE LET judged == IF response.ok THEN accept(s) ELSE reject(s)
         IN  IF judged.panicked THEN judged ELSE popFirst(judged)

\* When nothing is pending the history starts afresh.
HistoryAfter(it, cf, mx, sk, head) ==
    /\ confirmed' = IF head = 0 /\ (mx \/ sk) THEN it ELSE cf
    /\ mixed' = (mx /\ head # 0)
    /\ skipped' = (sk /\ head # 0)

\* An ItemStackResponse packet of the server: it answers the oldest requests
\* that were not answered, in order.
HandleItemStackResponse(n, ok) ==
    LET after[i \in 0..n] ==
            IF i = 0 THEN State
            ELSE respond(after[i - 1], [id |-> unanswered[i], ok |-> ok[i]])
        s == after[n]
    IN  /\ ~panicked /\ n <= Len(unanswered)
        /\ items' = s.items /\ reqs' = s.reqs /\ first' = s.first /\ current' = s.current
        /\ syncPending' = s.syncPending /\ mismatches' = s.mismatches
        /\ panicked' = s.panicked
        /\ HistoryAfter(s.items, s.confirmed, s.mixed, s.skipped, s.first)
        /\ unanswered' = SubSeq(unanswered, n + 1, Len(unanswered))
        /\ UNCHANGED <<altOpen, altId, sent, acks, transfers, outside>>

-----------------------------------------------------------------------------
(* Writes that do not pass through the chain *)

OutsideWrite(it) ==
    /\ items' = it
    /\ IF first = 0 THEN confirmed' = it /\ UNCHANGED mixed
       ELSE mixed' = (mixed \/ it # items) /\ UNCHANGED confirmed
    /\ UNCHANGED <<chainVars, sent, unanswered, syncVars, transfers, panicked, skipped>>

\* InventorySlot and InventoryContent of the server wait for the client's
\* acknowledgement ...
HandleInventorySlot(u) ==
    /\ ~panicked /\ outside < MaxUpdates
    /\ acks' = Append(acks, u)
    /\ outside' = outside + 1
    /\ UNCHANGED <<items, altOpen, altId, chainVars, sent, unanswered, syncVars,
                   transfers, panicked, historyVars>>

\* ... and are written to the window that has the id when it arrives.
SetInventorySlotRun ==
    /\ ~panicked /\ acks # <<>>
    /\ acks' = Tail(acks)
    /\ LET u == Head(acks)
           found == {s \in DOMAIN u : WindowFromContainerID(s, altOpen)}
       IN  OutsideWrite([s \in Slots |-> IF s \in found THEN u[s] ELSE items[s]])
    /\ UNCHANGED <<altOpen, altId, outside>>

\* A drop sent as a normal inventory transaction, without a request.  A projectile
\* thrown and a block placed take one item the same way.
DropTransaction(d) ==
    /\ ~panicked /\ outside < MaxUpdates
    /\ d.count <= items[d.slot].count
    /\ OutsideWrite([items EXCEPT ![d.slot] = Grow(@, -d.count)])
    /\ outside' = outside + 1
    /\ UNCHANGED <<altOpen, altId, acks>>

\* A use of an item that is refused (a projectile or a consumable too early, a
\* block in the way of an entity) makes the server send the inventory again.
UseItemRefused ==
    LET s == ForceSync(State)
    IN  /\ ~panicked /\ outside < MaxUpdates
        /\ syncPending' = s.syncPending /\ mismatches' = s.mismatches
        /\ outside' = outside + 1
        /\ UNCHANGED <<items, altOpen, altId, chainVars, sent, unanswered, acks,
                       transfers, panicked, historyVars>>

\* ContainerOpen: a new, empty window replaces the one that may be open.
CreateWindow(id) ==
    /\ ~panicked /\ outside < MaxUpdates
    /\ altOpen' = TRUE /\ altId' = id
    /\ OutsideWrite([s \in Slots |-> IF s \in BoxSlots THEN NoItem ELSE items[s]])
    /\ outside' = outside + 1
    /\ UNCHANGED acks

\* ContainerClose: ignored unless it names the window opened last.  A window
\* that closes under pending requests changes where their slots lead.
RemoveWindow(id) ==
    /\ ~panicked /\ outside < MaxUpdates
    /\ id = altId
    /\ altOpen' = FALSE
    /\ items' = [s \in Slots |-> IF s \in BoxSlots THEN NoItem ELSE items[s]]
    /\ IF first = 0 THEN confirmed' = items' /\ UNCHANGED mixed
       ELSE mixed' = TRUE /\ UNCHANGED confirmed
    /\ outside' = outside + 1
    /\ UNCHANGED <<altId, acks, chainVars, sent, unanswered, syncVars, transfers,
                   panicked, skipped>>

\* A transfer to another backend: the waiting acknowledgements are dropped, and so are the
\* answers of the old backend; inventory and chain are left as they are.
BackendTransfer ==
    /\ ~panicked /\ transfers < MaxBackendChanges
    /\ transfers' = transfers + 1
    /\ acks' = <<>> /\ unanswered' = <<>>
    /\ UNCHANGED <<items, altOpen, altId, chainVars, sent, syncVars, outside, panicked,
                   historyVars>>

-----------------------------------------------------------------------------

InventoryInit ==
    /\ items = InitialItems
    /\ altOpen = FALSE /\ altId = 0
    /\ reqs = <<>> /\ first = 0 /\ current = 0
    /\ sent = 0 /\ unanswered = <<>> /\ acks = <<>>
    /\ syncPending = FALSE /\ mismatches = 0
    /\ transfers = 0
    /\ outside = 0 /\ panicked = FALSE
    /\ confirmed = InitialItems /\ mixed = FALSE /\ skipped = FALSE

InventoryNext ==
    \/ \E r \in Requests, creative \in BOOLEAN : HandleSingleRequest(r, creative)
    \/ \E n \in 1..MaxBatch : \E ok \in [1..n -> BOOLEAN] : HandleItemStackResponse(n, ok)
    \/ \E u \in Updates : HandleInventorySlot(u)
    \/ SetInventorySlotRun
    \/ \E d \in Drops : DropTransaction(d)
    \/ UseItemRefused
    \/ BackendTransfer
    \/ \E id \in WindowIDs : CreateWindow(id) \/ RemoveWindow(id)

InventorySpec == InventoryInit /\ [][InventoryNext]_inventoryVars

-----------------------------------------------------------------------------
(* Properties *)

\* Every variable keeps its type; in particular no count is ever negative.
InventoryTypeOK ==
    /\ items \in Inventories
    /\ altOpen \in BOOLEAN /\ altId \in WindowIDs \cup {0}
    /\ first \in 0..Len(reqs) /\ current \in 0..Len(reqs)
    /\ \A i \in DOMAIN reqs :
          /\ reqs[i].prev \in 0..Len(reqs) /\ reqs[i].next \in 0..Len(reqs)
          /\ \A k \in DOMAIN reqs[i].actions : reqs[i].actions[k].op \in Ops
    /\ \A i \in DOMAIN unanswered : unanswered[i] \in 1..sent
    /\ transfers \in 0..MaxBackendChanges
    /\ syncPending \in BOOLEAN /\ mismatches \in 0..1 /\ panicked \in BOOLEAN

\* The chain is a list that reads the same in both directions, from firstRequest
\* to currentRequest, in the order the requests were sent, and its head has no
\* predecessor: accept() never reaches its panic "request was accepted out of
\* order", whatever mixture of answers, tracked and untracked requests arrives.
ChainConsistent ==
    /\ InventoryTypeOK /\ ~panicked
    /\ (first = 0) = (current = 0)
    /\ first # 0 =>
          /\ reqs[first].prev = 0 /\ reqs[current].next = 0
          /\ Chain[Len(Chain)] = current
          /\ \A i \in 1..(Len(Chain) - 1) :
                /\ reqs[Chain[i + 1]].prev = Chain[i]
                /\ reqs[Chain[i]].id < reqs[Chain[i + 1]].id

\* Replaying the requests of the chain on what the server has confirmed.
Replay ==
    LET run[i \in 0..Len(Chain)] ==
            IF i = 0 THEN confirmed ELSE execute(reqs[Chain[i]].actions, run[i - 1], altOpen).items
    IN  run[Len(Chain)]

\* The predicted inventory is what the pending requests make of the inventory
\* the server's answers lead to, as long as nothing else wrote to it and no
\* request was rejected under another: executing on arrival, forgetting on
\* acceptance and undoing the last action first cancel exactly.
PredictionIsReplay == (~mixed /\ ~skipped) => items = Replay

=============================================================================
