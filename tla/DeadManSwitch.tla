---------------------------- MODULE DeadManSwitch ----------------------------
(***************************************************************************)
(* rest.cancel_on_disconnect: OrderEntry keeps asking the exchange to      *)
(* cancel the account's orders when a countdown has run out, and restarts  *)
(* the countdown by asking again.                                          *)
(*                                                                         *)
(* Time passes in steps of 1 / Second seconds, so that a third of the ping *)
(* frequency can be told apart from its whole seconds.                     *)
(***************************************************************************)
EXTENDS Naturals, Sequences

CONSTANTS
  Second,       \* steps per second
  PingFreq,     \* settings.rest.ping_freq, in steps
  TimerPeriod,  \* the framework's timer fires at least this often
  Latency,      \* a request arrives within this time, or its connection is lost
  MaxOutage,    \* the REST connection is down for at most this long
  MaxDrops,     \* bound: losses of the connection
  MaxTime       \* bound: steps

ASSUME SwitchAssumption ==
  /\ Second \in Nat \ {0} /\ PingFreq \in Nat
  /\ TimerPeriod \in Nat \ {0} /\ Latency \in Nat /\ MaxOutage \in Nat
  /\ MaxDrops \in Nat /\ MaxTime \in Nat

VARIABLES
  now,
  oe,       \* OrderEntry: "ready" or "down"
  next,     \* OrderEntry::next_heartbeat_
  timer,    \* when the timer last fired, or the connection last changed
  flight,   \* when the heartbeats were sent that are on their way, in order
  expires,  \* the exchange: when it cancels the orders, 0 before the first heartbeat
  fresh,    \* history: when the last heartbeat was sent that has arrived
  losses,   \* history: losses since that one was sent, at least
  since,    \* history: when the last of them was
  drops     \* how often the connection was lost, or a heartbeat not sent

hist == <<losses, since, drops>>
vars == <<now, oe, next, timer, flight, expires, fresh, hist>>

Interval == PingFreq \div 3

\* Encoder::countdown_cancel_all, given the whole seconds of the ping frequency.
Clamp(count)  == IF count < 5 THEN 5 ELSE IF count > 60 THEN 60 ELSE count
Countdown     == Clamp(PingFreq \div Second) * Second

Armed == expires > 0

\* Mutant of Timer: the next heartbeat is due after the whole ping frequency.
TimerSlow ==
  /\ oe = "ready" /\ timer < now
  /\ timer' = now
  /\ IF next < now
     THEN /\ next' = now + PingFreq
          /\ flight' = Append(flight, now)
     ELSE UNCHANGED <<next, flight>>
  /\ UNCHANGED <<now, oe, expires, fresh, hist>>

\* OrderEntry's timer: send_heartbeat.
Timer ==
  /\ oe = "ready" /\ timer < now
  /\ timer' = now
  /\ IF next < now
     THEN /\ next' = now + Interval
          /\ flight' = Append(flight, now)
     ELSE UNCHANGED <<next, flight>>
  /\ UNCHANGED <<now, oe, expires, fresh, hist>>

Lose ==
  /\ drops < MaxDrops
  /\ losses' = losses + 1
  /\ since' = now
  /\ drops' = drops + 1

\* The request throws NotConnected, which the timer swallows.  next_heartbeat_
\* was set before.
TimerThrows ==
  /\ oe = "ready" /\ timer < now /\ next < now
  /\ timer' = now
  /\ next' = now + Interval
  /\ Lose
  /\ UNCHANGED <<now, oe, flight, expires, fresh>>

Connected ==
  /\ oe = "down"
  /\ oe' = "ready"
  /\ timer' = now
  /\ UNCHANGED <<now, next, flight, expires, fresh, hist>>

\* The heartbeats on their way are lost, and the next one is due at once.
Disconnected ==
  /\ oe = "ready"
  /\ oe' = "down"
  /\ next' = 0
  /\ timer' = now
  /\ flight' = <<>>
  /\ Lose
  /\ UNCHANGED <<now, expires, fresh>>

\* The exchange restarts the countdown.
Arrive ==
  /\ flight # <<>>
  /\ expires' = now + Countdown
  /\ fresh' = Head(flight)
  /\ flight' = Tail(flight)
  /\ losses' = IF Head(flight) > since THEN 0 ELSE losses
  /\ UNCHANGED <<now, oe, next, timer, since, drops>>

\* Time passes, but not beyond what the constants promise.
Tick ==
  /\ now < MaxTime
  /\ oe = "ready" => now < timer + TimerPeriod
  /\ oe = "down" => now < timer + MaxOutage
  /\ flight # <<>> => now < Head(flight) + Latency
  /\ now' = now + 1
  /\ UNCHANGED <<oe, next, timer, flight, expires, fresh, hist>>

Init ==
  /\ now = 1 /\ oe = "down" /\ next = 0 /\ timer = 1
  /\ flight = <<>> /\ expires = 0 /\ fresh = 0 /\ losses = 0 /\ since = 0 /\ drops = 0

Next == Timer \/ TimerThrows \/ Connected \/ Disconnected \/ Arrive \/ Tick

Spec == Init /\ [][Next]_vars

-----------------------------------------------------------------------------
(* Properties *)

TypeOK ==
  /\ now \in Nat \ {0} /\ next \in Nat /\ timer \in Nat /\ expires \in Nat
  /\ oe \in {"ready", "down"}
  /\ flight \in Seq(Nat)
  /\ fresh \in Nat /\ losses \in Nat /\ since \in Nat /\ drops \in Nat

\* The countdown does not run out while the gateway is connected, nor when one
\* heartbeat fails or the connection is lost once and back within MaxOutage.
NeverCancelled == Armed /\ losses <= 1 => now < expires

\* When that can be promised: the settings leave the countdown room for two
\* intervals, or for one and an outage.
Timely ==
  /\ 2 * (Interval + TimerPeriod) + Latency < Countdown
  /\ Interval + 2 * TimerPeriod + 2 * Latency + MaxOutage < Countdown

\* What NeverCancelled rests on; inductive if Timely (DeadManSwitchProofs).  First
\* the bounds on time that Tick keeps, and the order of the heartbeats.
Last == IF flight = <<>> THEN fresh ELSE flight[Len(flight)]

InTime ==
  /\ timer <= now /\ since <= timer /\ fresh <= timer
  /\ oe = "ready" => now <= timer + TimerPeriod
  /\ oe = "down" => now <= timer + MaxOutage /\ flight = <<>>
  /\ flight # <<>> => now <= flight[1] + Latency
  /\ \A k \in 1 .. Len(flight) : fresh < flight[k] /\ flight[k] <= timer
  /\ \A j, k \in 1 .. Len(flight) : j < k => flight[j] < flight[k]
  /\ Armed => fresh > 0 /\ expires >= fresh + Countdown
  /\ fresh > 0 => Armed

\* The heartbeats since the last loss follow each other in time.
Gap == Interval + TimerPeriod

Regular ==
  /\ losses = 0 /\ Armed => fresh > since
  /\ losses = 0 /\ ~Armed => since = 0
  /\ fresh > since /\ flight # <<>> => flight[1] <= fresh + Gap
  /\ \A k \in 1 .. Len(flight) :
       flight[k] > since /\ k + 1 <= Len(flight) => flight[k + 1] <= flight[k] + Gap
  /\ Last > since => oe = "ready" /\ next = Last + Interval /\ timer <= next

\* After one loss: either a heartbeat failed, and the next comes an interval late, ...
OneFailed ==
  /\ oe = "ready"
  /\ Armed /\ flight # <<>> => flight[1] <= fresh + 2 * Gap
  /\ \A k \in 1 .. Len(flight) : k + 1 <= Len(flight) => flight[k + 1] <= flight[k] + 2 * Gap
  /\ Last > 0 /\ Last <= since =>
       since <= Last + Gap /\ next = since + Interval /\ timer <= next

\* ... or the connection was lost, and the next comes as soon as it is back.
OneOutage ==
  /\ \A k \in 1 .. Len(flight) : since < flight[k]
  /\ Armed => since <= fresh + Gap + Latency
  /\ oe = "down" => timer = since /\ next = 0
  /\ oe = "ready" /\ flight = <<>> => next = 0 /\ timer <= since + MaxOutage
  /\ flight # <<>> => flight[1] <= since + MaxOutage + TimerPeriod

HeartbeatInv ==
  /\ TypeOK
  /\ InTime
  /\ Regular
  /\ losses = 1 => OneFailed \/ OneOutage

\* rest.json:84: "Auto-cancel orders on disconnect?"
CancelledOnDisconnectOnly == drops = 0 => NeverCancelled
=============================================================================
