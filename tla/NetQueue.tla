------------------------------ MODULE NetQueue ------------------------------
(***************************************************************************)
(* Network packet queues (qemu/net/queue.c and the client layer net.c).    *)
(*                                                                         *)
(* Clients are connected in a pair, where each has a queue of the packets  *)
(* sent to it, or all to one VLAN, which has one queue.  A send delivers   *)
(* at once if it can; a packet its receiver refuses (returns 0 for) is     *)
(* kept until the receiver flushes the queue.  Receive handlers and sent   *)
(* callbacks send packets themselves, so a send may run inside another:    *)
(* the calls in progress are kept on a stack, one frame for each call of   *)
(* qemu_net_queue_send or qemu_net_queue_flush.                            *)
(*                                                                         *)
(* The clients are those that use the interface in different ways:         *)
(*   virtio  a virtio-net NIC: sends by iov with a callback, refuses when  *)
(*           the guest has no receive buffer, flushes on the guest's kick  *)
(*   tap     sends plainly with a callback, refuses when the descriptor is *)
(*           full, flushes when it is writable                             *)
(*   slirp   sends plainly with no callback, also from its receive         *)
(*           handler, and never refuses                                    *)
(***************************************************************************)
EXTENDS Integers, Sequences, FiniteSets, SequencesExt

CONSTANTS
  Clients, Hub,  \* Hub stands for the VLAN
  Kind,          \* [Clients -> {"virtio", "tap", "slirp"}]
  Topologies,    \* records: is it a VLAN, its clients in order, and bounds for it:
                 \* the packets each client sends, and which changes ("link", "delete",
                 \* "stop") an operator makes
  MaxRefusals    \* bound: refusals in a behaviour

ASSUME NetAssumption ==
  /\ Hub \notin Clients
  /\ Kind \in [Clients -> {"virtio", "tap", "slirp"}]
  /\ \A t \in Topologies :
       /\ t.vlan \in BOOLEAN /\ t.order \in Seq(Clients)
       /\ ~t.vlan => /\ Len(t.order) = 2 /\ t.order[1] # t.order[2]
                     /\ \E i \in 1 .. 2 : Kind[t.order[i]] = "virtio"  \* netdev= of a NIC
       /\ t.packets \in [Clients -> Nat] /\ t.changes \subseteq {"link", "delete", "stop"}
  /\ MaxRefusals \in Nat

VARIABLES
  vlan, order,    \* the topology; order loses the clients that are deleted
  packets, changes, \* the bounds chosen with it
  peers,          \* pair: the two clients, deleted or not, that are not yet freed
  queue,          \* NetQueue.packets
  delivering,     \* NetQueue.delivering
  disabled,       \* receive_disabled
  link_down,
  waiting,        \* sent a packet that was refused, and awaits its callback
  owes,           \* refused and will flush: write_poll (tap), rx notification (virtio)
  vm_running,
  stack,          \* calls in progress, the innermost first
  sent,           \* packets each client has sent
  got,            \* packets each client has accepted, in order
  dropped,        \* packets of each client that were discarded
  refusals,
  deleted,        \* clients that were deleted
  relinked        \* a NIC's link was set up again after its peer was deleted

topoVars == <<vlan, order, packets, changes, peers>>
queueVars == <<queue, delivering>>
clientVars == <<disabled, link_down, waiting, owes>>
history == <<sent, got, dropped, refusals, deleted, relinked>>
vars == <<topoVars, queueVars, clientVars, vm_running, stack, history>>

Virtio(c) == Kind[c] = "virtio"

Peer(c) == CHOOSE p \in peers : p # c

\* sender->peer->send_queue or sender->vlan->send_queue
Connected(c) == vlan \/ \E p \in peers : p # c
SendQueue(c) == IF vlan THEN Hub ELSE Peer(c)
OwnQueue(c) == IF vlan THEN Hub ELSE c

\* The elements of list that are not in gone.
Without(list, gone) ==
  LET kept[n \in 0 .. Len(list)] ==
        IF n = 0 THEN << >>
        ELSE IF list[n] \in gone THEN kept[n - 1] ELSE Append(kept[n - 1], list[n])
  IN  kept[Len(list)]

\* The clients a packet in queue q from client c is offered to.
Receivers(q, c) == IF vlan THEN Without(order, {c}) ELSE <<q>>

Init ==
  /\ \E t \in Topologies :
       /\ vlan = t.vlan /\ order = t.order
       /\ packets = t.packets /\ changes = t.changes
       /\ peers = IF t.vlan THEN {} ELSE ToSet(t.order)
  /\ queue = [q \in Clients \cup {Hub} |-> << >>]
  /\ delivering = [q \in Clients \cup {Hub} |-> FALSE]
  /\ disabled = [c \in Clients |-> FALSE]
  /\ link_down = [c \in Clients |-> FALSE]
  /\ waiting = [c \in Clients |-> FALSE]
  /\ owes = [c \in Clients |-> FALSE]
  /\ vm_running = TRUE
  /\ stack = << >>
  /\ sent = [c \in Clients |-> 0]
  /\ got = [c \in Clients |-> << >>]
  /\ dropped = [c \in Clients |-> {}]
  /\ refusals = 0 /\ deleted = {} /\ relinked = FALSE

----------------------------------------------------------------------------
(* Frames.  pc: "deliver" between receivers, "receive" in a receive        *)
(* handler, "cb" in a sent callback, "flush" in qemu_net_queue_flush, and  *)
(* "abort" once an assertion failed.                                       *)

Top == Head(stack)

Idle == stack = << >>

AtPc(pc) == ~Idle /\ Top.pc = pc

SetTop(f) == stack' = <<f>> \o Tail(stack)

Pop == stack' = Tail(stack)

Delivery(q, p, iov, queued) ==
  [pc |-> "deliver", q |-> q, pkt |-> p, iov |-> iov, queued |-> queued,
   todo |-> Receivers(q, p.from), ret |-> -1, at |-> Hub]

Flushing(q) == [pc |-> "flush", q |-> q]

----------------------------------------------------------------------------
(* Sending.                                                                *)

\* qemu_can_send_packet
qemu_can_send_packet(c) ==
  LET ready(r) == Virtio(r) => vm_running
  IN  IF vlan THEN \A r \in ToSet(order) \ {c} : ready(r)
      ELSE \A r \in peers \ {c} : ~disabled[r] /\ ready(r)

\* When a client's own code sends: the guest's tx kick or bottom half, tap_send
\* (which stops at a refusal) and slirp's timers run from the main loop; slirp
\* answers from its receive handler; virtio_net_tx_complete goes on sending.
MaySend(c) ==
  /\ c \in ToSet(order)
  /\ sent[c] < packets[c]
  /\ ~waiting[c]
  /\ \/ Idle /\ Virtio(c) /\ vm_running
     \/ Idle /\ Kind[c] = "tap" /\ qemu_can_send_packet(c)
     \/ Idle /\ Kind[c] = "slirp"
     \/ AtPc("receive") /\ Kind[c] = "slirp" /\ Top.at = c
     \/ AtPc("cb") /\ Virtio(c) /\ Top.at = c

\* qemu_send_packet_async, qemu_sendv_packet_async: nothing to send to.
SendDropped(c) ==
  /\ MaySend(c)
  /\ link_down[c] \/ ~Connected(c)
  /\ sent' = [sent EXCEPT ![c] = @ + 1]
  /\ dropped' = [dropped EXCEPT ![c] = @ \cup {sent[c] + 1}]
  /\ UNCHANGED <<topoVars, queueVars, clientVars, vm_running, stack, got, refusals,
                 deleted, relinked>>

\* qemu_net_queue_send, qemu_net_queue_send_iov: while the queue delivers, append
\* (with no callback, and reported as sent); otherwise start a delivery.
Send(c) ==
  /\ MaySend(c)
  /\ ~link_down[c] /\ Connected(c)
  /\ sent' = [sent EXCEPT ![c] = @ + 1]
  /\ LET q == SendQueue(c)
         p == [from |-> c, id |-> sent[c] + 1, cb |-> Kind[c] # "slirp"]
     IN  IF delivering[q]
         THEN /\ queue' = [queue EXCEPT ![q] = Append(@, [p EXCEPT !.cb = FALSE])]
              /\ UNCHANGED <<delivering, stack>>
         ELSE /\ stack' = <<Delivery(q, p, Virtio(c), FALSE)>> \o stack
              /\ delivering' = [delivering EXCEPT ![q] = TRUE]
              /\ queue' = queue
  /\ UNCHANGED <<topoVars, clientVars, vm_running, got, dropped, refusals, deleted, relinked>>

----------------------------------------------------------------------------
(* Delivering.                                                             *)

\* qemu_deliver_packet, qemu_vlan_deliver_packet and their iov variants: the next
\* receiver is passed over (link down counts as sent, a refusal not yet flushed as
\* refused, except by iov), or its receive handler is called.
NextReceiver ==
  /\ AtPc("deliver") /\ Top.todo # << >>
  /\ LET r == Head(Top.todo)
         past == [Top EXCEPT !.todo = Tail(@)]
     IN  CASE link_down[r] -> SetTop([past EXCEPT !.ret = 1])
           [] ~link_down[r] /\ disabled[r] /\ ~Top.iov -> SetTop([past EXCEPT !.ret = 0])
           [] OTHER -> SetTop([past EXCEPT !.pc = "receive", !.at = r])
  /\ UNCHANGED <<topoVars, queueVars, clientVars, vm_running, history>>

\* ret = (ret >= 0) ? ret : len
Return(len) ==
  SetTop([Top EXCEPT !.pc = "deliver", !.ret = IF @ >= 0 THEN @ ELSE len])

\* The handler takes the packet; virtio_net_has_buffers then turns the guest's
\* kicks off.
Accept ==
  /\ AtPc("receive")
  /\ Virtio(Top.at) => vm_running
  /\ got' = [got EXCEPT ![Top.at] = Append(@, [from |-> Top.pkt.from, id |-> Top.pkt.id])]
  /\ owes' = [owes EXCEPT ![Top.at] = @ /\ ~Virtio(Top.at)]
  /\ Return(1)
  /\ UNCHANGED <<topoVars, queueVars, disabled, link_down, waiting, vm_running, sent,
                 dropped, refusals, deleted, relinked>>

\* Mutant: the client does not arrange to be woken.
RefuseSilently ==
  /\ AtPc("receive")
  /\ Kind[Top.at] # "slirp" /\ (Virtio(Top.at) => vm_running)
  /\ refusals < MaxRefusals
  /\ refusals' = refusals + 1
  /\ disabled' = [disabled EXCEPT ![Top.at] = ~Top.iov \/ @]
  /\ Return(0)
  /\ UNCHANGED <<topoVars, queueVars, link_down, waiting, owes, vm_running, sent, got,
                 dropped, deleted, relinked>>

\* No receive buffer (virtio) or EAGAIN (tap): the client arranges to be woken.
Refuse ==
  /\ AtPc("receive")
  /\ Kind[Top.at] # "slirp" /\ (Virtio(Top.at) => vm_running)
  /\ refusals < MaxRefusals
  /\ refusals' = refusals + 1
  /\ owes' = [owes EXCEPT ![Top.at] = TRUE]
  /\ disabled' = [disabled EXCEPT ![Top.at] = ~Top.iov \/ @]
  /\ Return(0)
  /\ UNCHANGED <<topoVars, queueVars, link_down, waiting, vm_running, sent, got,
                 dropped, deleted, relinked>>

\* virtio_net_receive returns -1 while the VM is stopped.
Discard ==
  /\ AtPc("receive")
  /\ Virtio(Top.at) /\ ~vm_running
  /\ Return(-1)
  /\ UNCHANGED <<topoVars, queueVars, clientVars, vm_running, history>>

AllOffered == AtPc("deliver") /\ Top.todo = << >>

EndDelivery == delivering' = [delivering EXCEPT ![Top.q] = FALSE]

\* Mutant: a packet that is refused again goes to the end of the queue.
RequeueLast ==
  /\ AllOffered /\ Top.ret = 0
  /\ queue' = [queue EXCEPT ![Top.q] = Append(@, Top.pkt)]
  /\ waiting' = [waiting EXCEPT ![Top.pkt.from] = @ \/ (Top.pkt.cb /\ ~Top.queued)]
  /\ Pop /\ EndDelivery
  /\ UNCHANGED <<topoVars, disabled, link_down, owes, vm_running, history>>

\* Refused: the packet is appended, and its sender waits if it gave a callback; a
\* packet from the queue goes back to its head and ends the flush.
Requeue ==
  /\ AllOffered /\ Top.ret = 0
  /\ queue' = [queue EXCEPT ![Top.q] = IF Top.queued THEN <<Top.pkt>> \o @
                                       ELSE Append(@, Top.pkt)]
  /\ waiting' = [waiting EXCEPT ![Top.pkt.from] = @ \/ (Top.pkt.cb /\ ~Top.queued)]
  /\ Pop /\ EndDelivery
  /\ UNCHANGED <<topoVars, disabled, link_down, owes, vm_running, history>>

\* Did a receiver of the frame's packet accept it?
Taken(f) ==
  \E r \in Clients : [from |-> f.pkt.from, id |-> f.pkt.id] \in ToSet(got[r])

\* Delivered or discarded: run a queued packet's callback, which ends the sender's
\* wait; then flush the queue.  virtio_net_tx_complete calls virtio_net_flush_tx,
\* which asserts that the VM runs.
Delivered ==
  /\ AllOffered /\ Top.ret # 0
  /\ EndDelivery
  /\ IF Top.queued /\ Top.pkt.cb
     THEN /\ LET asserts == Virtio(Top.pkt.from) /\ ~vm_running
             IN  SetTop([pc |-> IF asserts THEN "abort" ELSE "cb", q |-> Top.q,
                         at |-> Top.pkt.from])
          /\ waiting' = [waiting EXCEPT ![Top.pkt.from] = FALSE]
     ELSE SetTop(Flushing(Top.q)) /\ waiting' = waiting
  /\ dropped' = [dropped EXCEPT ![Top.pkt.from] =
                              @ \cup (IF Taken(Top) THEN {} ELSE {Top.pkt.id})]
  /\ UNCHANGED <<topoVars, queue, disabled, link_down, owes, vm_running, sent, got,
                 refusals, deleted, relinked>>

CallbackReturns ==
  /\ AtPc("cb")
  /\ SetTop(Flushing(Top.q))
  /\ UNCHANGED <<topoVars, queueVars, clientVars, vm_running, history>>

\* qemu_net_queue_flush: deliver the first packet, until there is none.
FlushNext ==
  /\ AtPc("flush") /\ queue[Top.q] # << >>
  /\ queue' = [queue EXCEPT ![Top.q] = Tail(@)]
  /\ delivering' = [delivering EXCEPT ![Top.q] = TRUE]
  /\ SetTop(Delivery(Top.q, Head(queue[Top.q]), FALSE, TRUE))
  /\ UNCHANGED <<topoVars, clientVars, vm_running, history>>

FlushEnds ==
  /\ AtPc("flush") /\ queue[Top.q] = << >>
  /\ Pop
  /\ UNCHANGED <<topoVars, queueVars, clientVars, vm_running, history>>

\* Mutant: receive_disabled is not reset.
FlushStaysDisabled(c) ==
  /\ Idle /\ c \in ToSet(order) /\ owes[c]
  /\ Virtio(c) => vm_running
  /\ owes' = [owes EXCEPT ![c] = FALSE]
  /\ stack' = <<Flushing(OwnQueue(c))>>
  /\ UNCHANGED <<topoVars, queueVars, disabled, link_down, waiting, vm_running, history>>

\* qemu_flush_queued_packets, called by tap_writable or virtio_net_handle_rx.
qemu_flush_queued_packets(c) ==
  /\ Idle /\ c \in ToSet(order) /\ owes[c]
  /\ Virtio(c) => vm_running
  /\ owes' = [owes EXCEPT ![c] = FALSE]
  /\ disabled' = [disabled EXCEPT ![c] = FALSE]
  /\ stack' = <<Flushing(OwnQueue(c))>>
  /\ UNCHANGED <<topoVars, queueVars, link_down, waiting, vm_running, history>>
----------------------------------------------------------------------------
(* The operator: set_link, removal of clients, stop and cont.              *)

\* do_set_link
SetLink(c) ==
  /\ "link" \in changes
  /\ Idle /\ c \in ToSet(order)
  /\ link_down' = [link_down EXCEPT ![c] = ~@]
  /\ relinked' = (relinked \/ (link_down[c] /\ ~vlan /\ deleted # {}))
  /\ UNCHANGED <<topoVars, queueVars, disabled, waiting, owes, vm_running, stack, sent,
                 got, dropped, refusals, deleted>>

\* Mutant: nothing is purged.
PurgedNever(q, c) == queue

\* qemu_net_queue_purge
Purged(q, c) == [queue EXCEPT ![q] = Without(@, {p \in ToSet(@) : p.from = c})]

\* tap_cleanup and virtio_net_exit purge the client's packets; slirp does not.
Cleaned(c) ==
  IF Kind[c] # "slirp" /\ Connected(c) THEN Purged(SendQueue(c), c) ELSE queue

leftAlone == <<vlan, packets, changes, delivering, disabled, owes, vm_running, stack, sent, got,
               refusals, relinked>>

QueuedFrom(qs, c) ==
  {p.id : p \in {p \in UNION {ToSet(qs[q]) : q \in DOMAIN qs} : p.from = c}}

\* The queues become qs; what they no longer hold is dropped.
LoseRest(qs) ==
  /\ queue' = qs
  /\ dropped' = [c \in Clients |->
                   dropped[c] \cup (QueuedFrom(queue, c) \ QueuedFrom(qs, c))]

\* qemu_del_vlan_client of a client on a VLAN.
DeleteOnVlan(c) ==
  /\ "delete" \in changes
  /\ Idle /\ vlan /\ c \in ToSet(order)
  /\ order' = Without(order, {c})
  /\ LoseRest(Cleaned(c))
  /\ deleted' = deleted \cup {c}
  /\ waiting' = [waiting EXCEPT ![c] = FALSE]
  /\ UNCHANGED <<peers, link_down, leftAlone>>

\* Mutant: the NIC's link stays up.
DeleteBackendLinkUp(c) ==
  /\ "delete" \in changes
  /\ Idle /\ ~vlan /\ c \in ToSet(order) /\ ~Virtio(c)
  /\ \E p \in peers : Virtio(p)
  /\ order' = Without(order, {c})
  /\ LoseRest(Cleaned(c))
  /\ deleted' = deleted \cup {c}
  /\ waiting' = [waiting EXCEPT ![c] = FALSE]
  /\ UNCHANGED <<peers, link_down, leftAlone>>

\* qemu_del_vlan_client of a back end whose peer is a NIC: cleaned up, but kept, and
\* the NIC's link goes down.
DeleteBackend(c) ==
  /\ "delete" \in changes
  /\ Idle /\ ~vlan /\ c \in ToSet(order) /\ ~Virtio(c)
  /\ \E p \in peers : Virtio(p)
  /\ link_down' = [link_down EXCEPT ![Peer(c)] = TRUE]
  /\ order' = Without(order, {c})
  /\ LoseRest(Cleaned(c))
  /\ deleted' = deleted \cup {c}
  /\ waiting' = [waiting EXCEPT ![c] = FALSE]
  /\ UNCHANGED <<peers, leftAlone>>

\* qemu_del_vlan_client of a NIC, after virtio_net_exit has purged: its queue is
\* freed, and so is a back end that was deleted before.
DeleteNic(c) ==
  /\ "delete" \in changes
  /\ Idle /\ ~vlan /\ c \in ToSet(order) /\ Virtio(c)
  /\ LET freed == {c} \cup (peers \ ToSet(order))
     IN  /\ LoseRest([q \in DOMAIN queue |-> IF q \in freed THEN << >> ELSE Cleaned(c)[q]])
         /\ peers' = peers \ freed
         /\ order' = Without(order, freed)
  /\ deleted' = deleted \cup {c}
  /\ waiting' = [waiting EXCEPT ![c] = FALSE]
  /\ UNCHANGED <<link_down, leftAlone>>

\* vm_stop and vm_start
StopCont ==
  /\ "stop" \in changes
  /\ Idle
  /\ vm_running' = ~vm_running
  /\ UNCHANGED <<topoVars, queueVars, clientVars, stack, history>>

----------------------------------------------------------------------------
Deliver ==
  \/ NextReceiver \/ Accept \/ Refuse \/ Discard \/ Requeue \/ Delivered
  \/ CallbackReturns \/ FlushNext \/ FlushEnds

Next ==
  \/ Deliver
  \/ \E c \in Clients :
       \/ SendDropped(c) \/ Send(c) \/ qemu_flush_queued_packets(c)
       \/ SetLink(c) \/ DeleteOnVlan(c) \/ DeleteBackend(c) \/ DeleteNic(c)
  \/ StopCont

Spec == Init /\ [][Next]_vars

\* Calls return, and a client that arranged to be woken is: the descriptor becomes
\* writable, or the guest refills its ring.
FairSpec ==
  /\ Spec
  /\ WF_vars(Deliver)
  /\ \A c \in Clients : SF_vars(qemu_flush_queued_packets(c))

----------------------------------------------------------------------------
(* Properties.                                                             *)

Ids == UNION {1 .. packets[c] : c \in Clients}

Packet == [from : Clients, id : Ids, cb : BOOLEAN]

TypeOK ==
  /\ vlan \in BOOLEAN /\ ToSet(order) \subseteq Clients /\ peers \subseteq Clients
  /\ \A q \in DOMAIN queue : ToSet(queue[q]) \subseteq Packet
  /\ delivering \in [Clients \cup {Hub} -> BOOLEAN]
  /\ {disabled, link_down, waiting, owes} \subseteq [Clients -> BOOLEAN]
  /\ \A f \in ToSet(stack) : f.pc \in {"deliver", "receive", "cb", "flush", "abort"}
  /\ \A c \in Clients : sent[c] \in 0 .. packets[c]
  /\ dropped \in [Clients -> SUBSET Ids]
  /\ \A c \in Clients : ToSet(got[c]) \subseteq [from : Clients, id : Ids]
  /\ refusals \in 0 .. MaxRefusals /\ deleted \subseteq Clients
  /\ {vm_running, relinked} \subseteq BOOLEAN

InFlight == {f \in ToSet(stack) : f.pc \in {"deliver", "receive"}}

\* Packets queued by client c with a callback, and those being delivered for the
\* second time.
CallbacksOf(c) ==
  (UNION {{p \in ToSet(queue[q]) : p.from = c /\ p.cb} : q \in DOMAIN queue})
    \cup {f.pkt : f \in {f \in InFlight : f.queued /\ f.pkt.from = c /\ f.pkt.cb}}

\* A callback is only ever due to a client that exists and waits for it, and at most
\* one is; and as long as no client was deleted, a waiting client is due one.
CallbackExact ==
  /\ \A c \in Clients : Cardinality(CallbacksOf(c)) <= (IF waiting[c] THEN 1 ELSE 0)
  /\ \A c \in Clients : CallbacksOf(c) # {} => c \in ToSet(order)
  /\ deleted = {} =>
       \A c \in Clients : waiting[c] => CallbacksOf(c) # {}

\* A receive handler is never entered again while it runs, whatever packets it or
\* the callbacks send: that is what the delivering flag is for.
NoReentry ==
  \A i, j \in DOMAIN stack :
    /\ i # j /\ stack[i].pc = "receive" /\ stack[j].pc = "receive"
    => stack[i].at # stack[j].at

\* A packet is only handed to a client that has not been cleaned up (unless the
\* operator puts the link of the orphaned NIC up again).
ReceiverAlive ==
  ~relinked => \A f \in ToSet(stack) : f.pc = "receive" => f.at \in ToSet(order)

\* A receive handler is only entered when it may be: not from inside itself, and not
\* of a client that is gone (qemu_net_queue_send, qemu_del_vlan_client).
HandlersSound == TypeOK /\ NoReentry /\ ReceiverAlive

\* Between a pair, packets arrive in the order they were sent, none twice, and every
\* packet sent has arrived, is queued, is being delivered, or was dropped
\* for a link that is down, a VM that is stopped, or a client that is deleted.
PairFifo ==
  ~vlan => \A c, r \in Clients : c # r /\ r \in peers /\ c \in peers =>
    LET flying(queued) == {f.pkt : f \in {f \in InFlight :
                             f.queued = queued /\ f.pkt.from = c /\ ~Taken(f)}}
        seq(S) == IF S = {} THEN << >> ELSE <<CHOOSE p \in S : TRUE>>
        all == got[r] \o seq(flying(TRUE)) \o queue[r] \o seq(flying(FALSE))
        ids == [i \in 1 .. Len(all) |-> all[i].id]
    IN  /\ \A i \in 1 .. Len(ids) - 1 : ids[i] < ids[i + 1]
        /\ ToSet(ids) \cup dropped[c] = 1 .. sent[c]
        /\ ToSet(ids) \cap dropped[c] = {}

\* When nothing runs and packets wait, some client that refused will flush their
\* queue (as long as none was deleted): no packet, and no sender, is forgotten.
QueuedOwed ==
  Idle =>
    \A q \in DOMAIN queue :
      queue[q] # << >> /\ deleted = {} =>
        \E r \in ToSet(order) : OwnQueue(r) = q /\ owes[r]

\* A sender whose packet was refused gets its callback, unless a client is deleted or
\* the VM stops first.
CallbackComes ==
  \A c \in {c \in Clients : Kind[c] # "slirp"} :
    waiting[c] ~> (~waiting[c] \/ deleted # {} \/ ~vm_running)
=============================================================================
