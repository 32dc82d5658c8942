--------------------------------- MODULE Cnp ---------------------------------
(***************************************************************************)
(* The probes of CNP tuning (src/apps/cnp/rxtx.c).  The client sends a     *)
(* numbered probe per interval, the server loops back the probes it        *)
(* accepts, and the client takes a round trip time from each one that      *)
(* comes back: a software time from the clock, a hardware time from the    *)
(* time stamps of the port.  One module serves both sides, as the code     *)
(* does; the link loses frames and carries frames of other stations.       *)
(***************************************************************************)
EXTENDS Integers, Sequences, FiniteSets

CONSTANTS SwTimestamp,   \* _btst(SW_TIMESTAMP)
          HwTimestamp,   \* _btst(HW_TIMESTAMP)
          Interval,      \* pinfo->tx_interval_ns
          MinReset,      \* 1000000UL, what reset_stats() stores in min_ns
          MaxTime,       \* bound: the clock
          MaxProbes,     \* bound: probes sent
          MaxLoss,       \* bound: frames lost
          MaxForeign,    \* bound: frames of other stations
          MaxResets,     \* bound: resets of the statistics
          MaxRestarts,   \* bound: restarts of the client
          PollMayFail    \* the Tx time stamp may be late

\* What the constants have to be.
CnpAssumption ==
  /\ SwTimestamp \in BOOLEAN /\ HwTimestamp \in BOOLEAN /\ PollMayFail \in BOOLEAN
  /\ Interval \in Nat \ {0} /\ MinReset \in Nat
  /\ {MaxTime, MaxProbes, MaxLoss, MaxForeign, MaxResets, MaxRestarts} \subseteq Nat

Client == "client"
Server == "server"
Sides == {Client, Server}
Other(s) == IF s = Client THEN Server ELSE Client

\* What rx_timestamping() tells apart: a probe, and the frames it throws away
\* as too short, of another type, or without the magic number.
Kinds == {"probe", "short", "type", "magic"}

VARIABLES
  now,           \* clock_get_ns()
  tx_begin,      \* tx_begin_ns of the client
  tx_sequence,   \* lport->tx_sequence of the client
  rx_sequence,   \* lport->rx_sequence of each side
  link,          \* link[s]: frames on their way to side s
  sw_rtt,        \* other_stats.sw_rtt of the client
  hw_start,      \* other_stats.hw_rtt.start_ns of the client
  resetting,     \* reset_stats() is between its memset and its stores
  dropped,       \* history: [side, seq] of the probes thrown away
  samples,       \* history: [kind, took, real] of the round trips measured
  sent, lost, foreign, resets, restarts, \* counts, for the bounds
  overlapped,    \* history: a probe was sent with another on its way
  late           \* history: a Tx time stamp was late

cnpVars == <<now, tx_begin, tx_sequence, rx_sequence, link, sw_rtt, hw_start,
             resetting, dropped, samples, sent, lost, foreign, resets, restarts,
             overlapped, late>>
counts == <<sent, lost, foreign, resets, restarts>>

\* The first probe leaves one interval after the start.
Init ==
  /\ now = 1 /\ tx_begin = 1 + Interval
  /\ tx_sequence = 0 /\ rx_sequence = [s \in Sides |-> 0]
  /\ link = [s \in Sides |-> <<>>]
  /\ sw_rtt = [start |-> 0, count |-> 0, min |-> 0, max |-> 0]
  /\ hw_start = 0 /\ resetting = FALSE
  /\ dropped = {} /\ samples = {}
  /\ sent = 0 /\ lost = 0 /\ foreign = 0 /\ resets = 0 /\ restarts = 0
  /\ overlapped = FALSE /\ late = FALSE

-----------------------------------------------------------------------------
tick ==
  /\ now < MaxTime
  /\ now' = now + 1
  /\ UNCHANGED <<tx_begin, tx_sequence, rx_sequence, link, sw_rtt, hw_start,
                 resetting, dropped, samples, counts, overlapped, late>>

\* Mutant: the timer keeps the start of the first probe.
tx_timestamping_first(ok) ==
  /\ now >= tx_begin /\ sent < MaxProbes /\ (ok \/ (HwTimestamp /\ PollMayFail))
  /\ tx_begin' = now + Interval
  /\ link' = [link EXCEPT ![Server] =
                Append(@, [kind |-> "probe", seq |-> tx_sequence, t1 |-> now])]
  /\ tx_sequence' = IF SwTimestamp THEN tx_sequence + 1 ELSE tx_sequence
  /\ sw_rtt' = IF SwTimestamp /\ sw_rtt.start = 0
               THEN [sw_rtt EXCEPT !.start = now] ELSE sw_rtt
  /\ hw_start' = IF HwTimestamp /\ ok THEN now ELSE hw_start
  /\ late' = (late \/ ~ok)
  /\ overlapped' = (overlapped \/ link[Client] # <<>> \/ link[Server] # <<>>)
  /\ sent' = sent + 1
  /\ UNCHANGED <<now, rx_sequence, resetting, dropped, samples, lost, foreign,
                 resets, restarts>>

\* A turn of rxtx_routine() whose interval is over: the next one starts now,
\* and tx_timestamping() sends a probe.  With hardware time stamps it polls for
\* the one of the probe (ok); without it hw_rtt keeps the start it had.
tx_timestamping(ok) ==
  /\ now >= tx_begin /\ sent < MaxProbes /\ (ok \/ (HwTimestamp /\ PollMayFail))
  /\ tx_begin' = now + Interval
  /\ link' = [link EXCEPT ![Server] =
                Append(@, [kind |-> "probe", seq |-> tx_sequence, t1 |-> now])]
  /\ tx_sequence' = IF SwTimestamp THEN tx_sequence + 1 ELSE tx_sequence
  /\ sw_rtt' = IF SwTimestamp THEN [sw_rtt EXCEPT !.start = now] ELSE sw_rtt
  /\ hw_start' = IF HwTimestamp /\ ok THEN now ELSE hw_start
  /\ late' = (late \/ ~ok)
  /\ overlapped' = (overlapped \/ link[Client] # <<>> \/ link[Server] # <<>>)
  /\ sent' = sent + 1
  /\ UNCHANGED <<now, rx_sequence, resetting, dropped, samples, lost, foreign,
                 resets, restarts>>

\* A poll of rx_timestamping() takes the frame at the head; a poll that returns
\* several is as many of these steps.
Take(s) == link[s] # <<>> /\ link' = [link EXCEPT ![s] = Tail(@)]

\* A frame that is too short, of another type or, with software time stamps,
\* without the magic number is counted and freed.  Without software time stamps
\* the last kind passes for a probe.
Unwanted(f) == f.kind \in {"short", "type"} \/ (SwTimestamp /\ f.kind = "magic")

rx_unwanted(s) ==
  /\ Take(s) /\ Unwanted(Head(link[s]))
  /\ UNCHANGED <<now, tx_begin, tx_sequence, rx_sequence, sw_rtt, hw_start,
                 resetting, dropped, samples, counts, overlapped, late>>

\* A probe with an unexpected number is freed, and its number is expected next.
rx_out_of_order(s) ==
  LET f == Head(link[s])
  IN /\ Take(s) /\ ~Unwanted(f)
     /\ SwTimestamp /\ f.seq # rx_sequence[s]
     /\ rx_sequence' = [rx_sequence EXCEPT ![s] = f.seq]
     /\ dropped' = dropped \cup {[side |-> s, seq |-> f.seq]}
     /\ UNCHANGED <<now, tx_begin, tx_sequence, sw_rtt, hw_start, resetting,
                    samples, counts, overlapped, late>>

\* end_stats_timer(): nothing without a start, else a sample.
end_stats_timer(timer, took) ==
  IF timer.start = 0 THEN timer
  ELSE [timer EXCEPT !.count = @ + 1,
                     !.min = IF took < @ THEN took ELSE @,
                     !.max = IF took > @ THEN took ELSE @]

\* The times rx_timestamping() takes of probe f; the port may have no Rx time
\* stamp for it.
Started == [sw |-> sw_rtt.start, hw |-> hw_start]
SamplesOf(f, rx_stamp) ==
  LET on == (IF SwTimestamp THEN {"sw"} ELSE {})
              \cup (IF HwTimestamp /\ rx_stamp THEN {"hw"} ELSE {})
  IN {[kind |-> k, took |-> now - Started[k], real |-> now - f.t1] :
        k \in {k \in on : Started[k] # 0}}

\* The guards a probe passes, and the number expected after it.
Accepted(s) ==
  LET f == Head(link[s])
  IN /\ link[s] # <<>> /\ ~Unwanted(f)
     /\ SwTimestamp => f.seq = rx_sequence[s]
     /\ rx_sequence' = IF SwTimestamp
                       THEN [rx_sequence EXCEPT ![s] = @ + 1] ELSE rx_sequence

\* Mutant: the server answers, but forgets to count.
rx_server_stuck ==
  LET f == Head(link[Server])
  IN /\ link[Server] # <<>> /\ ~Unwanted(f)
     /\ SwTimestamp => f.seq = rx_sequence[Server]
     /\ link' = [link EXCEPT ![Server] = Tail(@), ![Client] = Append(@, f)]
     /\ UNCHANGED <<now, tx_begin, tx_sequence, rx_sequence, sw_rtt, hw_start,
                    resetting, dropped, samples, counts, overlapped, late>>

\* The server accepts a probe and loops it back.
rx_server ==
  LET f == Head(link[Server])
  IN /\ Accepted(Server)
     /\ link' = [link EXCEPT ![Server] = Tail(@), ![Client] = Append(@, f)]
     /\ UNCHANGED <<now, tx_begin, tx_sequence, sw_rtt, hw_start, resetting,
                    dropped, samples, counts, overlapped, late>>

\* The client accepts a probe, takes the times and frees it.
rx_client(rx_stamp) ==
  LET f == Head(link[Client])
  IN /\ Accepted(Client) /\ Take(Client)
     /\ sw_rtt' = IF SwTimestamp THEN end_stats_timer(sw_rtt, now - sw_rtt.start)
                  ELSE sw_rtt
     /\ samples' = samples \cup SamplesOf(f, rx_stamp)
     /\ UNCHANGED <<now, tx_begin, tx_sequence, hw_start, resetting, dropped,
                    counts, overlapped, late>>

-----------------------------------------------------------------------------
(* The main lcore resets the statistics while the worker runs. *)

reset_stats ==
  /\ ~resetting /\ resets < MaxResets
  /\ resets' = resets + 1
  /\ resetting' = TRUE
  /\ sw_rtt' = [start |-> 0, count |-> 0, min |-> 0, max |-> 0]
  /\ hw_start' = 0
  /\ UNCHANGED <<now, tx_begin, tx_sequence, rx_sequence, link, dropped, samples,
                 sent, lost, foreign, restarts, overlapped, late>>

reset_stats_min ==
  /\ resetting
  /\ resetting' = FALSE
  /\ sw_rtt' = [sw_rtt EXCEPT !.min = MinReset]
  /\ UNCHANGED <<now, tx_begin, tx_sequence, rx_sequence, link, hw_start, dropped,
                 samples, counts, overlapped, late>>

\* The client is stopped and started again; the server goes on.
client_restarts ==
  /\ restarts < MaxRestarts
  /\ restarts' = restarts + 1
  /\ tx_begin' = now + Interval
  /\ tx_sequence' = 0 /\ rx_sequence' = [rx_sequence EXCEPT ![Client] = 0]
  /\ sw_rtt' = [start |-> 0, count |-> 0, min |-> 0, max |-> 0]
  /\ hw_start' = 0 /\ resetting' = FALSE
  /\ UNCHANGED <<now, link, dropped, samples, sent, lost, foreign, resets,
                 overlapped, late>>

-----------------------------------------------------------------------------
(* The link *)

link_loses(s) ==
  /\ link[s] # <<>> /\ lost < MaxLoss
  /\ lost' = lost + 1
  /\ link' = [link EXCEPT ![s] = Tail(@)]
  /\ UNCHANGED <<now, tx_begin, tx_sequence, rx_sequence, sw_rtt, hw_start,
                 resetting, dropped, samples, sent, foreign, resets, restarts,
                 overlapped, late>>

foreign_arrives(s, k) ==
  /\ foreign < MaxForeign
  /\ foreign' = foreign + 1
  /\ link' = [link EXCEPT ![s] = Append(@, [kind |-> k, seq |-> 0, t1 |-> now])]
  /\ UNCHANGED <<now, tx_begin, tx_sequence, rx_sequence, sw_rtt, hw_start,
                 resetting, dropped, samples, sent, lost, resets, restarts,
                 overlapped, late>>

-----------------------------------------------------------------------------
Receive ==
  \/ \E s \in Sides : rx_unwanted(s) \/ rx_out_of_order(s)
  \/ rx_server
  \/ \E rx_stamp \in BOOLEAN : rx_client(rx_stamp)

Next ==
  \/ tick
  \/ \E ok \in BOOLEAN : tx_timestamping(ok)
  \/ Receive
  \/ reset_stats \/ reset_stats_min \/ client_restarts
  \/ \E s \in Sides : link_loses(s)
  \/ \E s \in Sides, k \in Kinds \ {"probe"} : foreign_arrives(s, k)

\* Both sides poll for ever.
Spec == Init /\ [][Next]_cnpVars /\ WF_cnpVars(Receive)

-----------------------------------------------------------------------------
TypeOK ==
  /\ now \in 1 .. MaxTime /\ tx_sequence \in 0 .. MaxProbes
  /\ rx_sequence \in [Sides -> 0 .. MaxProbes]
  /\ \A s \in Sides : \A i \in DOMAIN link[s] :
       /\ link[s][i].kind \in Kinds /\ link[s][i].seq \in 0 .. MaxProbes - 1
       /\ link[s][i].t1 \in 1 .. now
  /\ sw_rtt.start \in 0 .. now /\ hw_start \in 0 .. now
  /\ sent <= MaxProbes

\* On a link that loses nothing, with a client that is not restarted, neither
\* side throws a probe away, whatever other frames arrive in between.
NothingDropped == lost = 0 /\ restarts = 0 => dropped = {}

\* A side that threw a probe away never accepts another one: it expects the
\* number of the probe it threw away, and what comes next is past that.
NeverRecovers ==
  [][\A s \in Sides :
       (\E d \in dropped : d.side = s) /\ restarts = 0 =>
         rx_sequence'[s] = rx_sequence[s] \/ dropped' # dropped]_cnpVars

\* A software round trip time is never longer than the round trip was, resets
\* of the statistics by the main lcore in between included.
NeverOverstated == \A r \in samples : r.kind = "sw" => r.took <= r.real

\* A round trip time is exact as long as no probe is sent before the last one
\* has come back and no Tx time stamp is late.
ExactOneByOne ==
  ~overlapped /\ ~late /\ restarts = 0 /\ foreign = 0 =>
    \A r \in samples : r.took = r.real

\* On such a link every probe sent comes back and is accepted.
ProbesReturn ==
  \A n \in 1 .. MaxProbes :
    (tx_sequence = n) ~> (rx_sequence[Client] >= n \/ lost > 0 \/ restarts > 0)

=============================================================================
