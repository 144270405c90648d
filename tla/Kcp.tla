-------------------------------- MODULE Kcp --------------------------------
(***************************************************************************)
(* 3rd/src-c/kcp/ikcp.c, the ARQ protocol that 3rd/src-c/lkcp.c gives to   *)
(* Lua: two control blocks of one conversation over a datagram link that   *)
(* loses, duplicates and reorders.                                         *)
(*                                                                         *)
(* A control block is a record with the fields of IKCPCB; each C function  *)
(* is an operator on that record and each call of lkcp.c an action.  The   *)
(* lists snd_buf and rcv_buf are kept in the order of sn by the code and   *)
(* are sets of segments here.  Left out: the clock (a timer that may have  *)
(* expired is a choice of the step that reads it), the wrap of sn at 2^32, *)
(* and the bytes of the payload.                                           *)
(***************************************************************************)
EXTENDS Integers, Sequences, FiniteSets, FiniteSetsExt

CONSTANTS
    End,         \* the two ends
    Script,      \* End -> the sizes of the messages its program sends
    Modes,       \* the settings lkcp_nodelay may choose
    Overhead,    \* IKCP_OVERHEAD
    Mtu,         \* kcp->mtu
    SndWnd,      \* sndwnd of lkcp_wndsize
    RcvWnd,      \* rcvwnd of lkcp_wndsize
    DefaultWnd,  \* IKCP_WND_RCV: the window a new block believes the peer has
    MaxLink,     \* bound: End -> the datagrams under way to it
    MaxAcks,     \* bound: acknowledgements that wait for a flush
    MaxFaults    \* bound: datagrams the link loses or duplicates

\* lkcp_wndsize ignores a window that is not positive, ikcp_setmtu an mtu of less
\* than a header, and a header carries a natural number as window.
ASSUME TwoEnds == \E a, b \in End : a # b /\ End = {a, b}
ASSUME ScriptIsSizes == Script \in [End -> Seq(Nat)]
ASSUME ModesAreSettings == Modes \subseteq [resend : Nat, nc : BOOLEAN]
ASSUME SizesFit ==
    /\ Overhead \in Nat /\ Mtu \in Nat /\ Mtu > Overhead
    /\ SndWnd \in Nat /\ RcvWnd \in Nat \ {0} /\ DefaultWnd \in Nat

VARIABLES
    kcp,     \* End -> control block
    link,    \* End -> the datagrams under way to it
    faults,  \* datagrams lost or duplicated so far
    sent,    \* End -> the messages passed to lkcp_send
    got      \* End -> the messages lkcp_recv returned

vars == <<kcp, link, faults, sent, got>>

Mss == Mtu - Overhead
ThreshMin == 2    \* IKCP_THRESH_MIN
ThreshInit == 2   \* IKCP_THRESH_INIT
Least(a, b) == IF a <= b THEN a ELSE b
Most(a, b) == IF a >= b THEN a ELSE b
Peer(e) == CHOOSE p \in End : p # e

-----------------------------------------------------------------------------
\* Segments of snd_buf and rcv_buf.

Sns(buf) == {s.sn : s \in buf}
BySn(buf) ==
    [i \in 1 .. Cardinality(buf) |->
        CHOOSE s \in buf : Cardinality({t \in buf : t.sn < s.sn}) = i - 1]

\* ikcp_wnd_unused: the window to announce.
WndUnused(k) == Most(0, RcvWnd - Len(k.rcv_queue))

\* ikcp_create, and the calls of lkcp_wndsize and lkcp_nodelay that follow it.
Create(mode) ==
    [snd_una |-> 0, snd_nxt |-> 0, rcv_nxt |-> 0,
     rmt_wnd |-> DefaultWnd, cwnd |-> 0, incr |-> 0, ssthresh |-> ThreshInit,
     probe |-> {}, probe_wait |-> FALSE,
     snd_queue |-> <<>>, snd_buf |-> {}, rcv_buf |-> {}, rcv_queue |-> <<>>,
     acklist |-> <<>>,
     fastresend |-> mode.resend, nocwnd |-> mode.nc]

\* ikcp_send: the fragments of a message of size len; frg counts those that
\* are still to come.
Fragments(m, len) ==
    LET count == IF len <= Mss THEN 1 ELSE (len + Mss - 1) \div Mss
    IN  [i \in 1 .. count |->
            [frg |-> count - i, data |-> <<m, i>>,
             len |-> Least(Mss, len - (i - 1) * Mss)]]

Payload(segs) == [i \in DOMAIN segs |-> segs[i].data]

-----------------------------------------------------------------------------
\* The receiving half.

\* ikcp_shrink_buf
ShrinkBuf(k) ==
    [k EXCEPT !.snd_una = IF k.snd_buf = {} THEN k.snd_nxt ELSE Min(Sns(k.snd_buf))]

\* Mutant of ParseUna: the segment the peer waits for is confirmed as well.
ParseUnaNext(k, una) == [k EXCEPT !.snd_buf = {s \in @ : s.sn > una}]

\* ikcp_parse_una: everything the peer has passed on is confirmed.
ParseUna(k, una) == [k EXCEPT !.snd_buf = {s \in @ : s.sn >= una}]

\* ikcp_parse_ack: removes segment sn, counting the ones that it overtook; all
\* the segments when sn is not there any more.  fastack saturates where the
\* flush stops telling values apart.
ParseAck(k, sn) ==
    LET overtaken(s) == s.sn < sn \/ sn \notin Sns(k.snd_buf)
        count(s) == IF overtaken(s)
                    THEN [s EXCEPT !.fastack = Least(@ + 1, k.fastresend)]
                    ELSE s
    IN  IF sn < k.snd_una \/ sn >= k.snd_nxt
        THEN k
        ELSE [k EXCEPT !.snd_buf = {count(s) : s \in {t \in @ : t.sn # sn}}]

\* Mutant of MoveReady: the first segments move although others are missing.
MoveReadyAny(k) ==
    LET n == Least(Cardinality(k.rcv_buf), Most(0, RcvWnd - Len(k.rcv_queue)))
        moved == SubSeq(BySn(k.rcv_buf), 1, n)
    IN  [k EXCEPT !.rcv_buf = @ \ {moved[i] : i \in 1 .. n},
                  !.rcv_queue = @ \o moved,
                  !.rcv_nxt = IF n = 0 THEN @ ELSE moved[n].sn + 1]

\* The loop that ends ikcp_parse_data and ikcp_recv moves the first segment of
\* rcv_buf to rcv_queue as long as it is the next one and there is room: ReadyRun
\* says how often it goes round.
ReadyRun(k) ==
    CHOOSE n \in 0 .. Most(0, RcvWnd - Len(k.rcv_queue)) :
        /\ \A j \in 0 .. n - 1 : k.rcv_nxt + j \in Sns(k.rcv_buf)
        /\ \/ n = Most(0, RcvWnd - Len(k.rcv_queue))
           \/ k.rcv_nxt + n \notin Sns(k.rcv_buf)

MoveReady(k) ==
    LET n == ReadyRun(k)
        next(i) == CHOOSE s \in k.rcv_buf : s.sn = k.rcv_nxt + i - 1
    IN  [k EXCEPT !.rcv_buf = {s \in @ : s.sn \notin k.rcv_nxt .. k.rcv_nxt + n - 1},
                  !.rcv_queue = @ \o [i \in 1 .. n |-> next(i)],
                  !.rcv_nxt = @ + n]

\* ikcp_parse_data
ParseData(k, seg) ==
    IF \/ seg.sn >= k.rcv_nxt + RcvWnd
       \/ seg.sn < k.rcv_nxt
    THEN k
    ELSE MoveReady(IF seg.sn \in Sns(k.rcv_buf)
                   THEN k
                   ELSE [k EXCEPT !.rcv_buf = @ \cup {seg}])

\* ikcp_ack_push
AckPush(k, sn) == [k EXCEPT !.acklist = Append(@, sn)]

\* One round of the loop of ikcp_input.
InputSegment(k, seg) ==
    LET heard == ShrinkBuf(ParseUna([k EXCEPT !.rmt_wnd = seg.wnd], seg.una))
        noted == AckPush(heard, seg.sn)
    IN  CASE seg.cmd = "ACK"  -> ShrinkBuf(ParseAck(heard, seg.sn))
          [] seg.cmd = "PUSH" ->
                IF seg.sn >= k.rcv_nxt + RcvWnd THEN heard
                ELSE ParseData(noted, [sn |-> seg.sn, frg |-> seg.frg,
                                       data |-> seg.data])
          [] seg.cmd = "WASK" -> [heard EXCEPT !.probe = @ \cup {"TELL"}]
          [] seg.cmd = "WINS" -> heard

\* The end of ikcp_input: the congestion window grows when una moved.
Grow(k, una) ==
    LET incr0 == Most(k.incr, Mss)
        incr1 == incr0 + (Mss * Mss) \div incr0 + Mss \div 16
        grown == IF k.cwnd < k.ssthresh
                 THEN [k EXCEPT !.cwnd = @ + 1, !.incr = @ + Mss]
                 ELSE [k EXCEPT !.cwnd = IF (@ + 1) * Mss >= incr1 THEN @ + 1 ELSE @,
                                !.incr = incr1]
    IN  IF k.snd_una <= una \/ k.cwnd >= k.rmt_wnd THEN k
        ELSE IF grown.cwnd > k.rmt_wnd
        THEN [grown EXCEPT !.cwnd = k.rmt_wnd, !.incr = k.rmt_wnd * Mss]
        ELSE grown

\* ikcp_input of a datagram: a sequence of segments.
InputSegments(k, segs) ==
    LET after[i \in 0 .. Len(segs)] ==
            IF i = 0 THEN k ELSE InputSegment(after[i - 1], segs[i])
    IN  after[Len(segs)]

Input(k, datagram) == Grow(InputSegments(k, datagram), k.snd_una)

-----------------------------------------------------------------------------
\* The sending half.

\* The segments of a flush are packed into datagrams of at most Mtu bytes: a
\* datagram goes out when the next segment does not fit.
Pack(segs) ==
    LET after[i \in 0 .. Len(segs)] ==
            IF i = 0
            THEN [out |-> <<>>, datagram |-> <<>>, room |-> Mtu]
            ELSE LET before == after[i - 1]
                     need == Overhead + segs[i].len
                 IN  IF need <= before.room
                     THEN [out |-> before.out, datagram |-> Append(before.datagram, segs[i]),
                           room |-> before.room - need]
                     ELSE [out |-> Append(before.out, before.datagram),
                           datagram |-> <<segs[i]>>, room |-> Mtu - need]
        last == after[Len(segs)]
    IN  IF last.datagram = <<>> THEN last.out ELSE Append(last.out, last.datagram)

\* The window ikcp_flush may fill.
SendWindow(k) ==
    LET wnd == Least(SndWnd, k.rmt_wnd)
    IN  IF k.nocwnd THEN wnd ELSE Least(k.cwnd, wnd)

\* snd_queue -> snd_buf, as far as the window allows.
Enqueue(k) ==
    LET n == Least(Len(k.snd_queue), Most(0, k.snd_una + SendWindow(k) - k.snd_nxt))
        numbered == {[frg |-> k.snd_queue[i].frg, len |-> k.snd_queue[i].len,
                      data |-> k.snd_queue[i].data, sn |-> k.snd_nxt + i - 1,
                      fastack |-> 0, sent |-> FALSE] : i \in 1 .. n}
    IN  [k EXCEPT !.snd_queue = SubSeq(@, n + 1, Len(@)),
                  !.snd_buf = @ \cup numbered,
                  !.snd_nxt = @ + n]

\* Mutant of Probe: the question is asked once and not repeated.
ProbeOnce(k, expired) ==
    IF k.rmt_wnd # 0 THEN [k EXCEPT !.probe_wait = FALSE]
    ELSE IF ~k.probe_wait THEN [k EXCEPT !.probe_wait = TRUE, !.probe = @ \cup {"SEND"}]
    ELSE k

\* The probe a sender arms when the peer's window is zero, and sends each time
\* its timer has expired.
Probe(k, expired) ==
    IF k.rmt_wnd # 0 THEN [k EXCEPT !.probe_wait = FALSE]
    ELSE IF ~k.probe_wait THEN [k EXCEPT !.probe_wait = TRUE]
    ELSE IF expired THEN [k EXCEPT !.probe = @ \cup {"SEND"}]
    ELSE k

\* The congestion window after a flush that retransmitted.
Shrink(k, window, change, lost) ==
    LET halved(n) == Most(ThreshMin, n \div 2)
        slowed == IF ~change THEN k
                  ELSE LET t == halved(k.snd_nxt - k.snd_una)
                       IN  [k EXCEPT !.ssthresh = t, !.cwnd = t + k.fastresend,
                                     !.incr = (t + k.fastresend) * Mss]
        timedOut == IF ~lost THEN slowed
                    ELSE [slowed EXCEPT !.ssthresh = halved(window), !.cwnd = 1,
                                        !.incr = Mss]
    IN  IF timedOut.cwnd < 1
        THEN [timedOut EXCEPT !.cwnd = 1, !.incr = Mss]
        ELSE timedOut

\* Which segments a flush sends again: due are those whose retransmission timer
\* has expired, the others may have been overtaken by enough acknowledgements.
TimedOut(s, due) == s.sent /\ s.sn \in due
Overtaken(k, s, due) ==
    s.sent /\ s.sn \notin due /\ k.fastresend > 0 /\ s.fastack >= k.fastresend

\* What ikcp_flush puts out: acknowledgements, probe, answer, segments.
Output(k, due) ==
    LET control(cmd, sn) == [cmd |-> cmd, sn |-> sn, frg |-> 0, len |-> 0, data |-> <<>>,
                             wnd |-> WndUnused(k), una |-> k.rcv_nxt]
        push(s) == [cmd |-> "PUSH", sn |-> s.sn, frg |-> s.frg, len |-> s.len,
                    data |-> s.data, wnd |-> WndUnused(k), una |-> k.rcv_nxt]
        again == BySn({s \in k.snd_buf :
                          ~s.sent \/ TimedOut(s, due) \/ Overtaken(k, s, due)})
    IN  [i \in DOMAIN k.acklist |-> control("ACK", k.acklist[i])]
        \o (IF "SEND" \in k.probe THEN <<control("WASK", 0)>> ELSE <<>>)
        \o (IF "TELL" \in k.probe THEN <<control("WINS", 0)>> ELSE <<>>)
        \o [i \in DOMAIN again |-> push(again[i])]

\* The block after a flush.
Flushed(k, due) ==
    LET touch(s) == [s EXCEPT !.sent = TRUE,
                              !.fastack = IF Overtaken(k, s, due) THEN 0 ELSE @]
    IN  Shrink([k EXCEPT !.acklist = <<>>, !.probe = {},
                         !.snd_buf = {touch(s) : s \in @}],
               SendWindow(k),
               \E s \in k.snd_buf : Overtaken(k, s, due),
               \E s \in k.snd_buf : TimedOut(s, due))

-----------------------------------------------------------------------------
\* The calls of the program that owns an end.

Init ==
    /\ \E mode \in Modes : kcp = [e \in End |-> Create(mode)]
    /\ link = [e \in End |-> <<>>]
    /\ faults = 0
    /\ sent = [e \in End |-> <<>>]
    /\ got = [e \in End |-> <<>>]

Send(e) ==
    LET m == Len(sent[e]) + 1
        segs == Fragments(m, Script[e][m])
    IN  /\ m <= Len(Script[e])
        /\ kcp' = [kcp EXCEPT ![e].snd_queue = @ \o segs]
        /\ sent' = [sent EXCEPT ![e] = Append(@, Payload(segs))]
        /\ UNCHANGED <<link, faults, got>>

\* ikcp_peeksize: whether rcv_queue starts with a whole message.
Complete(queue) ==
    queue # <<>> /\ Len(queue) >= Head(queue).frg + 1

\* The number of segments of the first message.
FirstMessage(k) ==
    CHOOSE i \in DOMAIN k.rcv_queue :
        k.rcv_queue[i].frg = 0 /\ \A j \in 1 .. i - 1 : k.rcv_queue[j].frg # 0

\* ikcp_recv: takes the first message, refills rcv_queue, and has the window
\* announced when it was closed.
Taken(k) ==
    LET refilled == MoveReady([k EXCEPT
                        !.rcv_queue = SubSeq(@, FirstMessage(k) + 1, Len(@))])
        recover == Len(k.rcv_queue) >= RcvWnd /\ Len(refilled.rcv_queue) < RcvWnd
    IN  IF recover THEN [refilled EXCEPT !.probe = @ \cup {"TELL"}] ELSE refilled

\* lkcp_recv when there is a whole message.
Recv(e) ==
    LET k == kcp[e]
    IN  /\ Complete(k.rcv_queue)
        /\ kcp' = [kcp EXCEPT ![e] = Taken(k)]
        /\ got' = [got EXCEPT ![e] = Append(@, Payload(SubSeq(k.rcv_queue, 1, FirstMessage(k))))]
        /\ UNCHANGED <<link, faults, sent>>

\* ikcp_update when a flush is due, or lkcp_flush.
Update(e, due, probeDue) ==
    \E k \in {Enqueue(Probe(kcp[e], probeDue))} :
        \E out \in {Pack(Output(k, due))} :
            /\ Len(link[Peer(e)]) + Len(out) <= MaxLink[Peer(e)]
            /\ link' = [link EXCEPT ![Peer(e)] = @ \o out]
            /\ kcp' = [kcp EXCEPT ![e] = Flushed(k, due)]
            /\ UNCHANGED <<faults, sent, got>>

Without(datagrams, i) == SubSeq(datagrams, 1, i - 1) \o SubSeq(datagrams, i + 1, Len(datagrams))

\* The retransmission timers that can have expired.
Timers(e) == {s.sn : s \in {t \in kcp[e].snd_buf : t.sent}}

Tick(e) == \E due \in SUBSET Timers(e), probeDue \in BOOLEAN : Update(e, due, probeDue)

\* lkcp_input of the i-th datagram under way.
Deliver(e, i) ==
    /\ i \in DOMAIN link[e]
    /\ Len(kcp[e].acklist) < MaxAcks
    /\ UNCHANGED <<faults, sent, got>>
    /\ link' = [link EXCEPT ![e] = Without(@, i)]
    /\ \E k \in {Input(kcp[e], link[e][i])} : kcp' = [kcp EXCEPT ![e] = k]

-----------------------------------------------------------------------------
\* The link.

Lose(e, i) ==
    /\ i \in DOMAIN link[e]
    /\ faults < MaxFaults
    /\ faults' = faults + 1
    /\ link' = [link EXCEPT ![e] = Without(@, i)]
    /\ UNCHANGED <<kcp, sent, got>>

Duplicate(e, i) ==
    /\ i \in DOMAIN link[e]
    /\ faults < MaxFaults
    /\ Len(link[e]) < MaxLink[e]
    /\ faults' = faults + 1
    /\ link' = [link EXCEPT ![e] = Append(@, @[i])]
    /\ UNCHANGED <<kcp, sent, got>>

Next == \E e \in End :
    \/ Send(e)
    \/ Recv(e)
    \/ Tick(e)
    \/ \E i \in 1 .. MaxLink[e] : Deliver(e, i) \/ Lose(e, i) \/ Duplicate(e, i)

Spec == Init /\ [][Next]_vars

\* The call of update at which the timer of the oldest segment has expired, and
\* the one at which the probe's has.
Retransmit(e) == \E due \in SUBSET Timers(e), probeDue \in BOOLEAN :
    /\ kcp[e].snd_buf # {} => Min(Sns(kcp[e].snd_buf)) \in due
    /\ Update(e, due, probeDue)
ProbeAgain(e) == \E due \in SUBSET Timers(e) : Update(e, due, TRUE)

\* Both programs call update and recv again and again, as ikcp.h asks, so the
\* timers expire again and again; the link hands on what it does not lose.
Fairness == \A e \in End :
    /\ WF_vars(Send(e))
    /\ WF_vars(Recv(e))
    /\ WF_vars(Deliver(e, 1))
    /\ SF_vars(Retransmit(e))
    /\ SF_vars(ProbeAgain(e))

FairSpec == Spec /\ Fairness

-----------------------------------------------------------------------------
\* A segment below snd_nxt is either still kept for retransmission or has
\* reached the peer: no acknowledgement, in whatever order and however often it
\* arrives, makes the sender forget a segment that is still missing there
\* (ikcp_parse_una and ikcp_parse_ack against ikcp_parse_data).
AckedIsReceived == \A e \in End :
    \A n \in 0 .. kcp[e].snd_nxt - 1 :
        \/ n \in Sns(kcp[e].snd_buf)
        \/ n < kcp[Peer(e)].rcv_nxt
        \/ n \in Sns(kcp[Peer(e)].rcv_buf)

\* The two programs see a reliable channel: whatever the link does, lkcp_recv
\* returns the messages of the other end whole, once and in order.
Channel == INSTANCE ReliableChannel WITH
    Message <- UNION {{Payload(Fragments(m, Script[e][m])) : m \in DOMAIN Script[e]}
                      : e \in End}
ImplementsChannel == Channel!Spec

\* Every message arrives, although the window of the receiver closes, the
\* datagram that opens it again is lost or overtaken by an older one, and only
\* the probe of ikcp_flush can ask for it.
Delivered == \A e \in End : <>(Len(got[e]) = Len(Script[Peer(e)]))
=============================================================================
