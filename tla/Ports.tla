-------------------------------- MODULE Ports -------------------------------
(***************************************************************************)
(* From the network card to the traffic classes.  tsn_configure_lports()   *)
(* sets up the physical port, the pflow port and a queue of the pflow port *)
(* for each enabled class (apps/testbench/tsn.c, lport.c); a class that is *)
(* launched registers its VLAN id (tsn_set_vlan_qid()); the packet handler *)
(* polls queue 0 of the pflow driver (patches/0001-add-pflow-...), which   *)
(* hands every frame of the physical port to the ring of the queue that    *)
(* rx_vlan_callback() found for it.  The main thread launches the classes  *)
(* while the packet handler is already running.                            *)
(***************************************************************************)
EXTENDS TrafficClasses, Sequences, FiniteSets

CONSTANTS Classes,       \* the traffic classes that may be enabled
          Vids,          \* the VLAN ids that may be configured
          PflowPorts,    \* what rte_eth_dev_get_port_by_name() may return
          RingCapacity,  \* frames that fit on an Rx ring of pflow
          MaxFrames      \* bound on the frames that arrive

L2 == 9

LLDP_FAKE_VLAN_ID     == 200
UDP_HIGH_FAKE_VLAN_ID == 201
UDP_LOW_FAKE_VLAN_ID  == 202
RTE_ETHER_MAX_VLAN_ID == 4095
PFLOW_MAX_QUEUES      == 256

\* What the constants have to be.
PortsAssumption ==
    /\ Classes \subseteq PnClasses \cup {L2}
    /\ Vids \subseteq 0 .. RTE_ETHER_MAX_VLAN_ID
    /\ PflowPorts \subseteq 1 .. 2
    /\ RingCapacity \in Nat \ {0} /\ MaxFrames \in Nat

AllVids == Vids \cup {LLDP_FAKE_VLAN_ID, UDP_HIGH_FAKE_VLAN_ID, UDP_LOW_FAKE_VLAN_ID}
Untagged == {LLDP, UDP_HIGH, UDP_LOW}
PhysicalPort == 0
ConfigPort == 1          \* the pid that max_queue() gives to every class
MaxQueues == Cardinality(Classes) + 1

VARIABLES enabled, active,  \* the enabled classes, and those with frames
          pkt_handler_enabled,
          vid,        \* vid[c] of the classes with a tag
          pflow,      \* the port of the pflow driver
          pc,         \* "lports", "launch", "run" or "exit"
          todo,       \* the lports to set up, or the classes to launch
          nb_queues,  \* nb_queues[p]: the Rx queues of p, 0 before it is started
          rx_mp,      \* the queues <<p, q>> that have a pool
          vid2qid,
          launched,   \* the classes whose thread runs
          handler,    \* the packet handler runs
          nic,        \* frames in the physical port, each as its header
          arrived,    \* the number of frames that arrived
          burst,      \* the frames that pflow_rx() is to hand out
          rings,      \* rings[q]: the Rx rings of the pflow port
          delivered,  \* <<h, d>>: a frame with header h was received by d
          strays      \* frames that the packet handler freed

config  == <<enabled, active, pkt_handler_enabled, vid, pflow>>
startup == <<pc, todo, nb_queues, rx_mp, vid2qid, launched, handler>>
traffic == <<nic, arrived, burst, rings, delivered, strays>>
vars == <<config, startup, traffic>>

(* The max_queue() calls number the queues of the enabled classes in the   *)
(* order of the classes, L2 last, and all of them on port 1.               *)
qid(c) == 1 + Cardinality({d \in enabled : d < c})

\* qinfo[p].cnt
cnt(p) == CASE p = PhysicalPort -> 1
            [] p = ConfigPort   -> 1 + Cardinality(enabled)
            [] OTHER -> 0

\* The lport_setup() calls of tsn_configure_lports(), as port and queue.
Lports == (IF pkt_handler_enabled THEN <<<<PhysicalPort, 0>>, <<pflow, 0>>>> ELSE <<>>)
          \o [i \in 1 .. Cardinality(enabled) |-> <<ConfigPort, i>>]

\* function_launch_all(): L2_IDX comes before TSN_HIGH_IDX.
LaunchOrder == SelectSeq(<<L2, TSN_HIGH, TSN_LOW, RTC, RTA, DCP, LLDP, UDP_HIGH, UDP_LOW>>,
                         LAMBDA c : c \in enabled)

Init ==
    /\ enabled \in SUBSET Classes /\ active \in SUBSET enabled
    /\ pkt_handler_enabled \in BOOLEAN
    /\ vid \in [Classes \ Untagged -> Vids]
    /\ pflow \in PflowPorts
    /\ pc = "lports" /\ todo = Lports
    /\ nb_queues = [p \in 0 .. 2 |-> 0] /\ rx_mp = {}
    /\ vid2qid = [v \in AllVids |-> 0] /\ launched = {} /\ handler = FALSE
    /\ nic = <<>> /\ arrived = 0 /\ burst = <<>> /\ rings = [q \in 0 .. MaxQueues |-> <<>>]
    /\ delivered = {} /\ strays = {}
-----------------------------------------------------------------------------
(* lport_setup(): the pools of the queue, and with the first queue of a    *)
(* port all its queues and its start.  A failure ends the application.     *)
Queues(p) == IF cnt(p) = 0 THEN 1 ELSE cnt(p)

lport_setup ==
    /\ pc = "lports" /\ todo # <<>>
    /\ LET p == Head(todo)[1] q == Head(todo)[2]
       IN IF q < Queues(p)
          THEN /\ rx_mp' = rx_mp \cup {<<p, q>>}
               /\ nb_queues' = [nb_queues EXCEPT ![p] = IF @ = 0 THEN Queues(p) ELSE @]
               /\ todo' = Tail(todo) /\ pc' = pc
          ELSE pc' = "exit" /\ UNCHANGED <<todo, nb_queues, rx_mp>>
    /\ UNCHANGED <<config, vid2qid, launched, handler, traffic>>

lport_setup_fails ==
    /\ pc = "lports" /\ todo # <<>> /\ pc' = "exit"
    /\ UNCHANGED <<config, todo, nb_queues, rx_mp, vid2qid, launched, handler, traffic>>

(* vid2qid is cleared, pflow_callback_create() installs the callback, and  *)
(* function_launch_all() launches the packet handler first.                *)
pkt_handler_launch ==
    /\ pc = "lports" /\ todo = <<>>
    /\ vid2qid' = [v \in AllVids |-> 0]
    /\ handler' = pkt_handler_enabled
    /\ pc' = "launch" /\ todo' = LaunchOrder
    /\ UNCHANGED <<config, nb_queues, rx_mp, launched, traffic>>

(* The id under which a class registers.                                   *)
RegisteredId(c) == CASE c = LLDP     -> LLDP_FAKE_VLAN_ID
                     [] c = UDP_HIGH -> UDP_HIGH_FAKE_VLAN_ID
                     [] c = UDP_LOW  -> UDP_LOW_FAKE_VLAN_ID
                     [] OTHER        -> vid[c]

tsn_set_vlan_qid(v) == v > 0 /\ v < RTE_ETHER_MAX_VLAN_ID

\* The launch functions: a class without frames is launched but does not
\* register.
class_launch ==
    /\ pc = "launch" /\ todo # <<>>
    /\ LET c == Head(todo)
       IN IF c \notin active
          THEN vid2qid' = vid2qid /\ launched' = launched \cup {c} /\ todo' = Tail(todo) /\ pc' = pc
          ELSE IF tsn_set_vlan_qid(RegisteredId(c))
          THEN /\ vid2qid' = [vid2qid EXCEPT ![RegisteredId(c)] = qid(c)]
               /\ launched' = launched \cup {c} /\ todo' = Tail(todo) /\ pc' = pc
          ELSE pc' = "exit" /\ UNCHANGED <<vid2qid, launched, todo>>
    /\ UNCHANGED <<config, nb_queues, rx_mp, handler, traffic>>

\* No memory, or the lcore of the class is taken.
class_launch_fails ==
    /\ pc = "launch" /\ todo # <<>> /\ pc' = "exit"
    /\ UNCHANGED <<config, todo, nb_queues, rx_mp, vid2qid, launched, handler, traffic>>

launch_done ==
    /\ pc = "launch" /\ todo = <<>> /\ pc' = "run"
    /\ UNCHANGED <<config, todo, nb_queues, rx_mp, vid2qid, launched, handler, traffic>>
-----------------------------------------------------------------------------
Up == pc # "exit"

\* What rx_vlan_callback() looks at: the VLAN id of a tag, otherwise the EtherType,
\* and of an IPv4 frame whether its source port is that of UDP High.
Headers == [kind : {"tagged"}, vid : AllVids]
           \cup [kind : {"high_port", "ipv4", "lldp", "unknown"}, vid : {0}]

\* A frame of the other side, or of any other station.
frame_arrives(h) ==
    /\ Up /\ nb_queues[PhysicalPort] > 0 /\ arrived < MaxFrames
    /\ nic' = Append(nic, h) /\ arrived' = arrived + 1
    /\ UNCHANGED <<config, startup, burst, rings, delivered, strays>>

\* The id under which the queue of a frame is looked up; nobody registers id 0.
LookupId(h) ==
    CASE h.kind = "high_port" -> UDP_HIGH_FAKE_VLAN_ID
      [] h.kind = "ipv4"      -> UDP_LOW_FAKE_VLAN_ID
      [] h.kind = "lldp"      -> LLDP_FAKE_VLAN_ID
      [] OTHER                -> h.vid

\* Mutant: only frames with a tag are looked up.
rx_vlan_callback_tagged(h) == IF h.kind = "tagged" THEN vid2qid[h.vid] ELSE 0

rx_vlan_callback(h) == IF h.kind = "unknown" THEN 0 ELSE vid2qid[LookupId(h)]

\* A class that runs has registered the id.
Known(id) == \E d \in launched \cap active : RegisteredId(d) = id

\* rte_eth_rx_burst() of the physical port inside pflow_rx(): the callback
\* looks up every frame of the burst.
pflow_rx_burst ==
    /\ Up /\ handler /\ burst = <<>> /\ rings[0] = <<>> /\ nic # <<>>
    /\ \E n \in 1 .. Len(nic) :
          /\ burst' = [i \in 1 .. n |->
                [header |-> nic[i], queue |-> rx_vlan_callback(nic[i]),
                 known |-> Known(LookupId(nic[i]))]]
          /\ nic' = SubSeq(nic, n + 1, Len(nic))
    /\ UNCHANGED <<config, startup, arrived, rings, delivered, strays>>

\* pflow_rx() puts the frames on the rings; a full ring frees the frame.  The probe of
\* the driver has created the rings of all queues, those of no class included.
pflow_rx_enqueue ==
    /\ Up /\ handler /\ burst # <<>>
    /\ LET f == Head(burst)
       IN rings' = IF f.queue >= PFLOW_MAX_QUEUES \/ Len(rings[f.queue]) >= RingCapacity
                   THEN rings
                   ELSE [rings EXCEPT ![f.queue] = Append(@, f)]
    /\ burst' = Tail(burst)
    /\ UNCHANGED <<config, startup, nic, arrived, delivered, strays>>

\* The packet handler frees what is left for its own queue.
pkt_handler_frees ==
    /\ Up /\ handler /\ burst = <<>> /\ rings[0] # <<>>
    /\ strays' = strays \cup {[header |-> f.header, known |-> f.known] : f \in {rings[0][i] : i \in 1 .. Len(rings[0])}}
    /\ rings' = [rings EXCEPT ![0] = <<>>]
    /\ UNCHANGED <<config, startup, nic, arrived, burst, delivered>>

\* The thread of a class polls its queue of port 1; if that is the pflow port,
\* pflow_rx() takes from the ring.
class_receives(d) ==
    /\ Up /\ pflow = ConfigPort /\ d \in launched \cap active /\ rings[qid(d)] # <<>>
    /\ delivered' = delivered \cup {<<Head(rings[qid(d)]).header, d>>}
    /\ rings' = [rings EXCEPT ![qid(d)] = Tail(@)]
    /\ UNCHANGED <<config, startup, nic, arrived, burst, strays>>

Next ==
    \/ lport_setup \/ lport_setup_fails \/ pkt_handler_launch \/ class_launch
    \/ class_launch_fails \/ launch_done
    \/ \E h \in Headers : frame_arrives(h)
    \/ pflow_rx_burst \/ pflow_rx_enqueue \/ pkt_handler_frees
    \/ \E d \in Classes : class_receives(d)

Starts == lport_setup \/ pkt_handler_launch \/ class_launch \/ launch_done
HandlerStep == pflow_rx_burst \/ pflow_rx_enqueue \/ pkt_handler_frees

Fairness ==
    /\ WF_vars(Starts) /\ WF_vars(HandlerStep)
    /\ \A d \in Classes : WF_vars(class_receives(d))

Spec == Init /\ [][Next]_vars /\ Fairness
-----------------------------------------------------------------------------
TypeOK ==
    /\ active \subseteq enabled /\ enabled \subseteq Classes
    /\ pc \in {"lports", "launch", "run", "exit"}
    /\ nb_queues \in [0 .. 2 -> 0 .. MaxQueues]
    /\ rx_mp \subseteq (0 .. 2) \X (0 .. MaxQueues)
    /\ vid2qid \in [AllVids -> 0 .. MaxQueues] /\ (0 \in AllVids => vid2qid[0] = 0)
    /\ launched \subseteq enabled
    /\ \A i \in 1 .. Len(nic) : nic[i] \in Headers
    /\ \A q \in 0 .. MaxQueues : Len(rings[q]) <= RingCapacity
    /\ delivered \subseteq Headers \X Classes

(* A class receives only frames with the header that it registered for: the *)
(* tag with its VLAN id, the EtherType of LLDP, the source port of UDP High *)
(* or any other one for UDP Low.  So a frame of another class reaches it    *)
(* only when the configuration gives both the same id, or a VLAN id that    *)
(* stands for LLDP or UDP, or both UDP classes the same port; and a frame   *)
(* of another station only when it looks like one of its own.               *)
OwnFramesOnly == \A p \in delivered : LookupId(p[1]) = RegisteredId(p[2])

(* Frames that reach the packet handler, which drops them, have a header    *)
(* that no running class had registered when they were looked up: no frame  *)
(* of a running class is lost to queue 0 while others are being launched.   *)
StraysExplained == \A f \in strays : ~f.known

(* Every frame the card took is received by a class or dropped: while the   *)
(* application runs with the packet handler, and pflow is port 1 as         *)
(* config.c takes for granted, no ring keeps a frame for ever.  A queue is  *)
(* only registered by a class that then polls it.                           *)
FramesSettle ==
    [](pkt_handler_enabled /\ pflow = ConfigPort /\ nic # <<>> =>
         <>(~Up \/ (nic = <<>> /\ burst = <<>> /\ \A q \in 0 .. MaxQueues : rings[q] = <<>>)))
=============================================================================
