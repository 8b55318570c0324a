---------------------------- MODULE TcpServer ----------------------------
(***************************************************************************)
(* The TCP order gateway (src/src/networking/tcp_server.h): the listener   *)
(* thread, one detached thread per client that parses orders and pushes    *)
(* them to the ring buffer, and the main thread that starts and stops the  *)
(* server and pops the orders (src/src/networking/mercury_server.cpp).     *)
(*                                                                         *)
(* SPSCQueue models the ring for one producer, with its memory order.      *)
(* Here every client thread is a producer: push is split where another     *)
(* thread can get in between (tail loaded, head checked, slot written,     *)
(* tail stored), on sequentially consistent memory.  When two threads      *)
(* assign one slot, one of them wins; a torn shared_ptr is not represented.*)
(*                                                                         *)
(* What one recv returns is one or more segments: a segment begins with a  *)
(* complete order ("order") or it does not ("junk": malformed text, or the *)
(* rest of an order TCP has cut in two).                                   *)
(***************************************************************************)
EXTENDS Integers, Sequences, SequencesExt, FiniteSets

CONSTANTS
    Client,       \* the connections, each with a thread of its own
    NoOrder,      \* the null pointer in a fresh slot
    capacity,     \* slots of the ring
    MaxSegments,  \* bound: how much each client sends
    MaxStarts     \* bound: how often the server is started

ASSUME CapacityAssumption == capacity \in Nat \ {0, 1}

VARIABLES
    running,              \* running_
    listener,             \* where listen_loop is; "none": listener_thread_ is NULL
    main,                 \* the thread that owns the server: before start and
                          \* after stop, polling, or waiting in stop
    pc,                   \* where each handle_client is
    wire,                 \* segments each client has sent and recv has not taken
    order_id_counter,     \* one per client thread, all from 5000000
    order,                \* the order each client thread is pushing
    slot,                 \* current_tail of the push in progress
    buffer, tail, head,   \* the ring
    sent, starts,         \* segments sent, starts so far
    acked, pushed,        \* history, for the properties: orders answered and
    clean, overlapped,    \* pushed; those pushed before two pushes overlapped,
    submitted, stopped    \* if they have; those popped; was there a stop?

ring == <<buffer, tail, head>>
threads == <<pc, wire, order_id_counter, order, slot>>
control == <<running, listener, main, starts, stopped>>
history == <<acked, pushed, clean, submitted, overlapped>>
tcpVars == <<control, threads, ring, sent, history>>

Slot == 0..(capacity - 1)
NextSlot(i) == (i + 1) % capacity

(* The orders a client thread makes are told apart by the segment they     *)
(* came from; `id' is what order_id_counter gives them.                    *)
OrderOf(c, n, id) == [client |-> c, segment |-> n, id |-> id]

TcpInit ==
    /\ running = FALSE /\ listener = "none" /\ main = "idle" /\ starts = 0
    /\ pc = [c \in Client |-> "away"]
    /\ wire = [c \in Client |-> <<>>]
    /\ sent = [c \in Client |-> 0]
    /\ order_id_counter = [c \in Client |-> 5000000]
    /\ order = [c \in Client |-> NoOrder]
    /\ slot = [c \in Client |-> 0]
    /\ buffer = [i \in Slot |-> NoOrder] /\ tail = 0 /\ head = 0
    /\ acked = {} /\ pushed = {} /\ clean = <<>> /\ submitted = <<>>
    /\ overlapped = FALSE /\ stopped = FALSE

(* Client thread c goes on at label l. *)
Goto(c, l) == pc' = [pc EXCEPT ![c] = l]

----------------------------------------------------------------------------
(* The main thread. *)

(* start.  While running_ is set it returns at once and nothing happens,   *)
(* even if the listener has died.                                          *)
Start ==
    /\ main = "idle"
    /\ starts < MaxStarts
    /\ starts' = starts + 1
    /\ running' = TRUE
    /\ listener' = "startup"
    /\ main' = "poll"
    /\ UNCHANGED <<stopped, threads, ring, sent, history>>

(* stop, up to the wait for the listener: the polling loop is over. *)
Stop ==
    /\ main = "poll"
    /\ running' = FALSE
    /\ stopped' = TRUE
    /\ main' = "stop"
    /\ UNCHANGED <<listener, starts, threads, ring, sent, history>>

(* WaitForSingleObject returns; client threads are not waited for. *)
StopReturn ==
    /\ main = "stop"
    /\ listener = "exited"
    /\ listener' = "none"
    /\ main' = "idle"
    /\ UNCHANGED <<running, starts, stopped, threads, ring, sent, history>>

(* One turn of the polling loop: pop, then submit_order. *)
Poll ==
    /\ main = "poll"
    /\ head # tail
    /\ submitted' = Append(submitted, buffer[head])
    /\ head' = NextSlot(head)
    /\ UNCHANGED <<control, threads, buffer, tail, sent,
                   acked, pushed, clean, overlapped>>

----------------------------------------------------------------------------
(* listen_loop. *)

Listen(from, to) ==
    /\ listener = from
    /\ listener' = to
    /\ UNCHANGED <<running, main, starts, stopped, ring, sent, history>>

(* WSAStartup, socket, bind and listen; any failure ends the thread and    *)
(* leaves running_ set.                                                    *)
Startup ==
    \E to \in {"check", "exited"} : Listen("startup", to) /\ UNCHANGED threads

(* The loop never looks at running_. *)
Mutant_CheckRunning == Listen("check", "accept") /\ UNCHANGED threads

CheckRunning ==
    Listen("check", IF running THEN "accept" ELSE "exited") /\ UNCHANGED threads

(* accept finds nobody (WSAEWOULDBLOCK, Sleep, continue) or fails (break). *)
AcceptNone ==
    \E to \in {"check", "exited"} : Listen("accept", to) /\ UNCHANGED threads

(* A client is accepted; if CreateThread fails nobody serves it. *)
Accept(c) ==
    /\ pc[c] = "backlog"
    /\ Listen("accept", "check")
    /\ \E to \in {"loop", "unserved"} : Goto(c, to)
    /\ UNCHANGED <<wire, order_id_counter, order, slot>>

----------------------------------------------------------------------------
(* The clients (external). *)

Connect(c) ==
    /\ pc[c] = "away"
    /\ listener \in {"check", "accept"}
    /\ Goto(c, "backlog")
    /\ UNCHANGED <<wire, order_id_counter, order, slot,
                   control, ring, sent, history>>

Send(c, kind) ==
    /\ pc[c] \notin {"away", "closed"}
    /\ sent[c] < MaxSegments[c]
    /\ sent' = [sent EXCEPT ![c] = @ + 1]
    /\ wire' = [wire EXCEPT ![c] = Append(@, [kind |-> kind, n |-> sent[c] + 1])]
    /\ UNCHANGED <<pc, order_id_counter, order, slot, control, ring, history>>

----------------------------------------------------------------------------
(* handle_client. *)

(* The head of the loop. *)
ClientLoop(c) ==
    /\ pc[c] = "loop"
    /\ Goto(c, IF running THEN "recv" ELSE "closed")
    /\ UNCHANGED <<wire, order_id_counter, order, slot,
                   control, ring, sent, history>>

(* recv returns 0 or an error, WSAEWOULDBLOCK among them. *)
RecvFails(c) ==
    /\ pc[c] = "recv"
    /\ Goto(c, "closed")
    /\ UNCHANGED <<wire, order_id_counter, order, slot,
                   control, ring, sent, history>>

(* recv returns k segments.  Only the first is parsed: what follows it in  *)
(* the buffer is dropped, and so is a first segment that is no order.      *)
Recv(c, k) ==
    /\ pc[c] = "recv"
    /\ k \in 1..Len(wire[c])
    /\ wire' = [wire EXCEPT ![c] = SubSeq(@, k + 1, Len(@))]
    /\ IF Head(wire[c]).kind = "order"
       THEN /\ order_id_counter' = [order_id_counter EXCEPT ![c] = @ + 1]
            /\ order' = [order EXCEPT ![c] =
                   OrderOf(c, Head(wire[c]).n, order_id_counter[c] + 1)]
            /\ Goto(c, "push")
       ELSE /\ Goto(c, "loop")
            /\ UNCHANGED <<order_id_counter, order>>
    /\ UNCHANGED <<slot, control, ring, sent, history>>

Pushing(c) == pc[c] \in {"check", "write", "store"}

(* push loads tail_: the slot it will use is fixed, whatever other threads *)
(* store from here on.                                                     *)
PushLoad(c) ==
    /\ pc[c] = "push"
    /\ slot' = [slot EXCEPT ![c] = tail]
    /\ overlapped' = (overlapped \/ \E d \in Client : Pushing(d))
    /\ Goto(c, "check")
    /\ UNCHANGED <<wire, order_id_counter, order, control, ring, sent,
                   acked, pushed, clean, submitted>>

(* push does not look whether there is room. *)
Mutant_PushRoom(c) ==
    /\ pc[c] = "check"
    /\ Goto(c, "write")
    /\ UNCHANGED <<wire, order_id_counter, order, slot,
                   control, ring, sent, history>>

(* It loads head_ and finds room. *)
PushRoom(c) ==
    /\ pc[c] = "check"
    /\ NextSlot(slot[c]) # head
    /\ Goto(c, "write")
    /\ UNCHANGED <<wire, order_id_counter, order, slot,
                   control, ring, sent, history>>

(* push is not tried again. *)
Mutant_PushFull(c) ==
    /\ pc[c] = "check"
    /\ NextSlot(slot[c]) = head
    /\ Goto(c, "ack")
    /\ UNCHANGED <<wire, order_id_counter, order, slot,
                   control, ring, sent, history>>

(* push returns false; the thread has yet to look at running_. *)
PushFull(c) ==
    /\ pc[c] = "check"
    /\ NextSlot(slot[c]) = head
    /\ Goto(c, "retry")
    /\ UNCHANGED <<wire, order_id_counter, order, slot,
                   control, ring, sent, history>>

(* The retry does not end when the server stops. *)
Mutant_Retry(c) ==
    /\ pc[c] = "retry"
    /\ Goto(c, "push")
    /\ UNCHANGED <<wire, order_id_counter, order, slot,
                   control, ring, sent, history>>

(* While running_ push is tried again; else the thread goes on to the ACK, *)
(* even if there is room by now.                                           *)
Retry(c) ==
    /\ pc[c] = "retry"
    /\ Goto(c, IF running THEN "push" ELSE "ack")
    /\ UNCHANGED <<wire, order_id_counter, order, slot,
                   control, ring, sent, history>>

PushWrite(c) ==
    /\ pc[c] = "write"
    /\ buffer' = [buffer EXCEPT ![slot[c]] = order[c]]
    /\ Goto(c, "store")
    /\ UNCHANGED <<wire, order_id_counter, order, slot, control, tail, head,
                   sent, history>>

PushStore(c) ==
    /\ pc[c] = "store"
    /\ tail' = NextSlot(slot[c])
    /\ pushed' = pushed \union {order[c]}
    /\ clean' = IF overlapped THEN clean ELSE Append(clean, order[c])
    /\ Goto(c, "ack")
    /\ UNCHANGED <<wire, order_id_counter, order, slot, control, buffer, head,
                   sent, acked, submitted, overlapped>>

(* send of the ACK. *)
SendAck(c) ==
    /\ pc[c] = "ack"
    /\ acked' = acked \union {order[c]}
    /\ order' = [order EXCEPT ![c] = NoOrder]
    /\ Goto(c, "loop")
    /\ UNCHANGED <<wire, order_id_counter, slot, control, ring, sent,
                   pushed, clean, submitted, overlapped>>

----------------------------------------------------------------------------
ListenerStep == Startup \/ CheckRunning \/ AcceptNone \/ \E c \in Client : Accept(c)

PushStep(c) ==
    \/ PushLoad(c) \/ PushRoom(c) \/ PushFull(c) \/ Retry(c)
    \/ PushWrite(c) \/ PushStore(c) \/ SendAck(c)

ClientStep(c) ==
    \/ ClientLoop(c) \/ RecvFails(c)
    \/ \E k \in 1..MaxSegments[c] : Recv(c, k)
    \/ PushStep(c)

TcpNext ==
    \/ Start \/ Stop \/ StopReturn \/ Poll
    \/ ListenerStep
    \/ \E c \in Client :
          \/ Connect(c)
          \/ \E kind \in {"order", "junk"} : Send(c, kind)
          \/ ClientStep(c)

TcpSpec == TcpInit /\ [][TcpNext]_tcpVars

(* The threads are scheduled, accept and the wait return, the main thread  *)
(* polls.  Nothing is asked of the clients, of recv, or of who calls start *)
(* and stop.                                                               *)
TcpFairness ==
    /\ WF_tcpVars(ListenerStep)
    /\ WF_tcpVars(StopReturn)
    /\ WF_tcpVars(Poll)
    /\ \A c \in Client : WF_tcpVars(PushStep(c))

----------------------------------------------------------------------------
(* What the ring holds, oldest first. *)
contents ==
    [k \in 1..((tail - head) % capacity) |-> buffer[(head + k - 1) % capacity]]

(* The main thread submits the orders in the order of their pushes, each   *)
(* once, whatever clients connect, disconnect or retry and however often   *)
(* the server is stopped and started: exactly that as long as the pushes   *)
(* of two client threads have not overlapped.  They can, each client has   *)
(* its thread, and then tail_ may be stored twice or even moved back.  But *)
(* what was in the ring before that is not lost to it: a stale tail_ lies  *)
(* behind those orders, and they are submitted first and in order.         *)
DeliveredInOrder ==
    IF overlapped THEN IsPrefix(clean, submitted \o contents)
                  ELSE clean = submitted \o contents

(* An ACK means the order is on its way to the engine: an acknowledged     *)
(* order was pushed, unless the server has been stopped, when the retry    *)
(* loop gives up and the ACK is sent all the same.                         *)
AckMeansPushed == ~stopped => acked \subseteq pushed

(* stop() returns: the listener, polling accept, sees the flag even when   *)
(* clients keep connecting, and the threads of connected clients, which    *)
(* may sit in recv or retry a full queue, are not waited for.              *)
StopReturns == main = "stop" ~> main = "idle"

(* stop() frees the client threads: one that is pushing when running_ is   *)
(* cleared comes back to the head of its loop, where it sees that, even if *)
(* the ring is full and nobody polls it any more, and whatever the other   *)
(* clients push.  While the server runs nothing of the kind is promised:   *)
(* other threads may take every slot that gets free.                       *)
StopFreesClients ==
    \A c \in Client : pc[c] = "push" /\ ~running ~> pc[c] = "loop" \/ running

(* tcp_server.h: "Push to the lock-free Ring Buffer to inject into the     *)
(* Matching Engine".  While the server runs, an acknowledged order is in   *)
(* the ring or has been submitted.                                         *)
NoOrderLost ==
    ~stopped => acked \subseteq ToSet(submitted) \union ToSet(contents)
============================================================================
