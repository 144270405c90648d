------------------------------ MODULE KcpClock ------------------------------
(***************************************************************************)
(* The clock of 3rd/src-c/kcp/ikcp.c: when ikcp_update flushes, when       *)
(* ikcp_check asks to be called again, and when a segment is sent again.   *)
(* Kcp leaves all of this open.                                            *)
(*                                                                         *)
(* Timestamps are unsigned and wrap (2^32 milliseconds in the code); the   *)
(* code compares them by the sign of their difference.  The control block  *)
(* has the time that ikcp_update was last called with; lkcp_flush, which   *)
(* may be called at any later time, sends by that one.  What does not      *)
(* depend on a timer is a choice here: that a segment is sent, overtaken   *)
(* or acknowledged, and which timeout an acknowledgement gives.  Left out: *)
(* kcp.state, which nobody reads.                                          *)
(***************************************************************************)
EXTENDS Integers

CONSTANTS
    Wrap,          \* 2^32, even
    Jump,          \* 10000: a difference the clock is set anew for
    Interval,      \* what ikcp_interval lets through
    RTO_NDL,       \* IKCP_RTO_NDL, least timeout without delay
    RTO_MIN,       \* IKCP_RTO_MIN, least timeout otherwise
    RTO_DEF,       \* IKCP_RTO_DEF, the timeout before the first estimate
    RTO_MAX,       \* IKCP_RTO_MAX
    MaxXmit        \* bound: times a segment is sent, so that its rto < Half

VARIABLES
    kcp,           \* the control block
    seg,           \* the segment that is to be sent or in snd_buf, an option
    (* History, as of the last ikcp_update, in numbers that do not wrap. *)
    since,         \* time since the last flush of ikcp_update
    planned,       \* kcp.interval at that flush
    left           \* time until the segment's timer runs out

vars == <<kcp, seg, since, planned, left>>

Half == Wrap \div 2
Time == 0 .. Wrap - 1

\* The difference as a signed number of the same width.
itimediff(later, earlier) ==
    LET d == (later - earlier) % Wrap IN IF d < Half THEN d ELSE d - Wrap

Init ==
    /\ \E i \in Interval :
          kcp = [current |-> 0, updated |-> FALSE, ts_flush |-> i % Wrap, interval |-> i,
                 nodelay |-> FALSE, rx_minrto |-> RTO_MIN, rx_rto |-> RTO_DEF]
    /\ seg = {}
    /\ since = 0
    /\ planned = kcp.interval
    /\ left = 0

-----------------------------------------------------------------------------
\* Mutant of Expected: only a clock far ahead sets the flush anew.
ExpectedAhead(k, now) ==
    IF ~k.updated \/ itimediff(now, k.ts_flush) >= Jump THEN now ELSE k.ts_flush

\* ikcp_update at a time: the flush that would have been due, set anew when the
\* clock is far from it in either direction.
Expected(k, now) ==
    LET slap == itimediff(now, k.ts_flush)
    IN  IF ~k.updated \/ slap >= Jump \/ slap < -Jump THEN now ELSE k.ts_flush

Flushes(k, now) == itimediff(now, Expected(k, now)) >= 0

Updated(k, now) ==
    LET next == (Expected(k, now) + k.interval) % Wrap
    IN  [k EXCEPT !.current = now, !.updated = TRUE,
                  !.ts_flush = IF ~Flushes(k, now) THEN Expected(k, now)
                               ELSE IF itimediff(now, next) >= 0
                               THEN (now + k.interval) % Wrap
                               ELSE next]

\* Mutant of TimerDue: timestamps are compared as they are.
TimerDuePlain(s, now) == s.xmit > 0 /\ now >= s.resendts

\* ikcp_flush: a segment is sent for the first time, again when its timer has
\* run out, or when enough acknowledgements overtook it.
TimerDue(s, now) == s.xmit > 0 /\ itimediff(now, s.resendts) >= 0

Sent(s, k, now) ==
    LET margin == IF k.nodelay THEN 0 ELSE k.rx_rto \div 8
        backoff == s.rto + (IF k.nodelay THEN k.rx_rto \div 2 ELSE k.rx_rto)
        rto == IF s.xmit = 0 THEN k.rx_rto ELSE IF TimerDue(s, now) THEN backoff ELSE s.rto
    IN  [xmit |-> s.xmit + 1, rto |-> rto, fast |-> s.fast /\ TimerDue(s, now),
         resendts |-> (now + rto + IF s.xmit = 0 THEN margin ELSE 0) % Wrap]

MustSend(s, now) == s.xmit = 0 \/ TimerDue(s, now) \/ s.fast

\* The segments are sent by a time; `rest` is left of a timer that goes on.
ikcp_flush(now, rest) ==
    /\ \A s \in seg : MustSend(s, now) => s.xmit < MaxXmit
    /\ seg' = {IF MustSend(s, now) THEN Sent(s, kcp, now) ELSE s : s \in seg}
    /\ left' = IF \E s \in seg : MustSend(s, now)
               THEN (CHOOSE d \in Time : \E s \in seg' : (now + d) % Wrap = s.resendts)
               ELSE rest

\* History: what is left of the timer; half a wrap late is late for good.
Later(gap) ==
    IF \E s \in seg : s.xmit > 0 /\ left - gap > -Half THEN left - gap
    ELSE IF \E s \in seg : s.xmit > 0 THEN -Half
    ELSE 0

\* lkcp_update, a true time of `gap` after the one before.
Update(gap) ==
    LET now == (kcp.current + gap) % Wrap
    IN  /\ kcp' = Updated(kcp, now)
        /\ IF Flushes(kcp, now)
           THEN /\ since' = 0 /\ planned' = kcp.interval
                /\ ikcp_flush(now, Later(gap))
           ELSE /\ since + gap <= Wrap
                /\ since' = since + gap
                /\ left' = Later(gap)
                /\ UNCHANGED <<seg, planned>>

\* lkcp_flush, any time after the last lkcp_update.
Flush ==
    /\ kcp.updated
    /\ ikcp_flush(kcp.current, left)
    /\ UNCHANGED <<kcp, since, planned>>

\* lkcp_send: a segment waits to be sent.
Enqueue ==
    /\ seg = {}
    /\ seg' = {[xmit |-> 0, rto |-> 0, fast |-> FALSE, resendts |-> 0]}
    /\ left' = 0
    /\ UNCHANGED <<kcp, since, planned>>

\* ikcp_update_ack: the timeout estimated anew, within its bounds, or as before
\* if the packet has no acknowledgement, or one of later than the clock.
Estimates == {kcp.rx_rto} \cup kcp.rx_minrto .. RTO_MAX

\* lkcp_input of an acknowledgement: of other segments, the last that overtook
\* this one perhaps, or of the segment itself.
Acknowledge ==
    /\ \E rto \in Estimates : kcp' = [kcp EXCEPT !.rx_rto = rto]
    /\ \/ UNCHANGED <<seg, left>>
       \/ \E s \in seg : s.xmit > 0 /\ seg' = {[s EXCEPT !.fast = TRUE]} /\ UNCHANGED left
       \/ \E s \in seg : s.xmit > 0 /\ seg' = {} /\ left' = 0
    /\ UNCHANGED <<since, planned>>

\* lkcp_nodelay with nodelay and interval given.
Nodelay(on, interval) ==
    /\ kcp' = [kcp EXCEPT !.nodelay = on, !.interval = interval,
                          !.rx_minrto = IF on THEN RTO_NDL ELSE RTO_MIN]
    /\ UNCHANGED <<seg, since, planned, left>>

Next ==
    \/ \E gap \in Time : Update(gap)
    \/ Flush
    \/ Enqueue
    \/ Acknowledge
    \/ \E on \in BOOLEAN, i \in Interval : Nodelay(on, i)

Spec == Init /\ [][Next]_vars

-----------------------------------------------------------------------------
\* ikcp_check
CheckExpected(k, now) ==
    LET slap == itimediff(now, k.ts_flush)
    IN  IF slap >= Jump \/ slap < -Jump THEN now ELSE k.ts_flush

\* snd_buf: what waits to be sent is not in it.
InFlight(s) == {x \in s : x.xmit > 0}

\* Mutant of Wait: the flush is not looked at, only the segments.
WaitForPackets(k, s, now) ==
    LET packets == {itimediff(x.resendts, now) : x \in InFlight(s)} \cup {k.interval}
    IN  IF ~k.updated \/ \E d \in packets : d <= 0 THEN 0
        ELSE CHOOSE d \in packets : \A e \in packets : d <= e

\* How long the program may wait until it calls ikcp_update again.
Wait(k, s, now) ==
    LET flush == itimediff(CheckExpected(k, now), now)
        times == {itimediff(x.resendts, now) : x \in InFlight(s)} \cup {flush, k.interval}
    IN  IF ~k.updated \/ \E d \in times : d <= 0 THEN 0
        ELSE CHOOSE d \in times : \A e \in times : d <= e

-----------------------------------------------------------------------------
\* The connection does not fall silent: after a flush of ikcp_update every call of it
\* flushes once the interval is over, also when the clock wrapped in between or
\* the program paused for longer than a signed difference can tell.  (Only in
\* the last ten seconds before a whole wrap, 49 days later, it need not.)
FlushInTime == kcp.updated => since < planned \/ since >= Wrap - Jump

\* "you can call ikcp_update in that time, instead of call update repeatly":
\* no call before the time ikcp_check answered would have flushed, whenever it
\* was asked.
NothingMissed ==
    \A now \in Time : \A x \in 0 .. Wait(kcp, seg, now) - 1 :
        ~Flushes(kcp, (now + x) % Wrap)

\* The timer of a segment that nothing overtook runs by the time the program gives
\* ikcp_update, unless it paused for half a wrap: no flush sends the segment
\* again before, and every flush of ikcp_update after.
SentInTime ==
    \A s \in seg :
        LET passed == (kcp'.current - kcp.current) % Wrap
            again == \E t \in seg' : t.xmit > s.xmit
        IN  s.xmit > 0 /\ ~s.fast /\ left - passed > -Half =>
              /\ again => left - passed <= 0
              /\ left - passed <= 0 /\ Flushes(kcp, kcp'.current) => again

\* Every step sends in time: neither across a wrap of the clock, nor by a flush
\* between two updates, nor after a new estimate does a segment go out again
\* before its timeout is over, or miss a flush of ikcp_update when it is.  The
\* time is that of the updates: lkcp_flush takes the last one for the present,
\* so that a segment it sends goes out again too early by as much as that one is
\* past, and one that became due since is not sent again before the next update.
TimersExact == [][SentInTime]_vars

-----------------------------------------------------------------------------
\* The inductive invariant behind the three.
ControlBlock == [current : Time, updated : BOOLEAN, ts_flush : Time, interval : Interval,
                 nodelay : BOOLEAN, rx_minrto : {RTO_NDL, RTO_MIN}, rx_rto : 0 .. RTO_MAX]

Segment == [xmit : 0 .. MaxXmit, rto : Nat, fast : BOOLEAN, resendts : Time]

\* The next flush is not due yet, and is at most what was planned after the last.
FlushAhead ==
    /\ itimediff(kcp.current, kcp.ts_flush) \in -Jump .. -1
    /\ \E d \in 1 .. planned : (kcp.current - kcp.ts_flush) % Wrap = (since - d) % Wrap

\* The timer of a segment that was sent runs out when left says.
TimerAhead(s) ==
    /\ s.rto <= s.xmit * RTO_MAX
    /\ -Half <= left /\ left <= s.xmit * RTO_MAX + (RTO_MAX \div 8)
    /\ left > -Half => s.resendts = (kcp.current + left) % Wrap

IInv ==
    /\ kcp \in ControlBlock
    /\ seg \subseteq Segment
    /\ \A s, t \in seg : s = t
    /\ since \in 0 .. Wrap /\ planned \in Interval /\ left \in Int
    /\ kcp.updated => FlushAhead
    /\ \A s \in seg : s.xmit > 0 => kcp.updated /\ TimerAhead(s)
=============================================================================
