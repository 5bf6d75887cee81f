------------------------- MODULE DeadManSwitchProofs -------------------------
(***************************************************************************)
(* The countdown is restarted in time, for all settings that are Timely.   *)
(***************************************************************************)
EXTENDS DeadManSwitch, SequenceTheorems, TLAPS

\* The derived times are natural numbers.
LEMMA DerivedTimes == Interval \in Nat /\ Gap \in Nat /\ Countdown \in Nat
<1>1. Interval \in Nat  BY SwitchAssumption DEF Interval
<1>2. Gap \in Nat  BY <1>1, SwitchAssumption DEF Gap
<1>3. PingFreq \div Second \in Nat  BY SwitchAssumption
<1>4. Clamp(PingFreq \div Second) \in Nat  BY <1>3 DEF Clamp
<1>5. Countdown \in Nat  BY <1>4, SwitchAssumption DEF Countdown
<1> QED BY <1>1, <1>2, <1>5

\* What Append and Tail do to a sequence of times.
LEMMA AppendTime ==
  ASSUME NEW f \in Seq(Nat), NEW t \in Nat
  PROVE  /\ Append(f, t) \in Seq(Nat) /\ Append(f, t) # <<>>
         /\ Len(Append(f, t)) = Len(f) + 1
         /\ \A k \in 1 .. Len(f) : Append(f, t)[k] = f[k]
         /\ Append(f, t)[Len(f) + 1] = t
BY AppendProperties

LEMMA TailTime ==
  ASSUME NEW f \in Seq(Nat), f # <<>>
  PROVE  /\ Tail(f) \in Seq(Nat) /\ Len(f) \in Nat \ {0}
         /\ Len(Tail(f)) = Len(f) - 1
         /\ \A k \in 1 .. Len(f) - 1 : Tail(f)[k] = f[k + 1]
         /\ Head(f) = f[1]
         /\ Tail(f) = <<>> <=> Len(f) = 1
<1>1. Len(f) \in Nat \ {0}  BY EmptySeq
<1>2. /\ Tail(f) \in Seq(Nat) /\ Len(Tail(f)) = Len(f) - 1
      /\ \A k \in 1 .. Len(f) - 1 : Tail(f)[k] = f[k + 1]
  BY HeadTailProperties
<1>3. Tail(f) = <<>> => Len(f) = 1  BY <1>1, <1>2, EmptySeq
<1>4. Len(f) = 1 => Tail(f) = <<>>
  <2> SUFFICES ASSUME Len(f) = 1, Tail(f) # <<>> PROVE FALSE  OBVIOUS
  <2>1. Len(Tail(f)) \in Nat \ {0}  BY <1>2, EmptySeq
  <2> QED BY <1>2, <2>1
<1>5. Head(f) = f[1]  OBVIOUS
<1> QED BY <1>1, <1>2, <1>3, <1>4, <1>5

\* The state is well typed.
LEMMA TypeStep == TypeOK /\ [Next]_vars => TypeOK'
<1> SUFFICES ASSUME TypeOK, [Next]_vars PROVE TypeOK'  OBVIOUS
<1> USE DerivedTimes, SwitchAssumption DEF TypeOK
<1>1. CASE Timer
  <2>1. CASE next < now
    <3>1. /\ flight' = Append(flight, now) /\ timer' = now /\ next' = now + Interval
          /\ UNCHANGED <<now, oe, expires, fresh, losses, since, drops>>
      BY <1>1, <2>1 DEF Timer, hist
    <3>2. Append(flight, now) \in Seq(Nat)  BY AppendTime
    <3>3. now + Interval \in Nat  OBVIOUS
    <3> QED BY <3>1, <3>2, <3>3
  <2>2. CASE ~(next < now)  BY <1>1, <2>2 DEF Timer, hist
  <2> QED BY <2>1, <2>2
<1>2. CASE TimerThrows  BY <1>2 DEF TimerThrows, Lose
<1>3. CASE Connected  BY <1>3 DEF Connected, hist
<1>4. CASE Disconnected  BY <1>4 DEF Disconnected, Lose
<1>5. CASE Arrive
  <2>1. Head(flight) \in Nat /\ Tail(flight) \in Seq(Nat)
    BY <1>5, HeadTailProperties DEF Arrive
  <2>2. now + Countdown \in Nat  OBVIOUS
  <2> QED BY <1>5, <2>1, <2>2 DEF Arrive
<1>6. CASE Tick  BY <1>6 DEF Tick, hist
<1>7. CASE UNCHANGED vars  BY <1>7 DEF vars, hist
<1> QED BY <1>1, <1>2, <1>3, <1>4, <1>5, <1>6, <1>7 DEF Next

\* The bounds on time are kept.
LEMMA InTimeStep == HeartbeatInv /\ [Next]_vars => InTime'
<1> SUFFICES ASSUME HeartbeatInv, [Next]_vars PROVE InTime'  OBVIOUS
<1> USE DerivedTimes, SwitchAssumption DEF HeartbeatInv, TypeOK, InTime, Armed
<1>1. CASE Timer
  <2>1. CASE next < now
    <3>1. /\ flight' = Append(flight, now) /\ timer' = now /\ timer < now /\ oe = "ready"
          /\ UNCHANGED <<now, oe, expires, fresh, losses, since, drops>>
      BY <1>1, <2>1 DEF Timer, hist
    <3>2. /\ Len(flight') = Len(flight) + 1 /\ Len(flight) \in Nat
          /\ \A k \in 1 .. Len(flight) : flight'[k] = flight[k]
          /\ flight'[Len(flight) + 1] = now
      BY <3>1, AppendTime, LenProperties
    <3>3. \A k \in 1 .. Len(flight') :
            k \in 1 .. Len(flight) \/ k = Len(flight) + 1
      BY <3>2
    <3>4. \A k \in 1 .. Len(flight') : fresh' < flight'[k] /\ flight'[k] <= timer'
      BY <3>1, <3>2, <3>3
    <3>5. \A j, k \in 1 .. Len(flight') : j < k => flight'[j] < flight'[k]
      <4> SUFFICES ASSUME NEW j \in 1 .. Len(flight'), NEW k \in 1 .. Len(flight'), j < k
                   PROVE  flight'[j] < flight'[k]
        OBVIOUS
      <4>1. j \in 1 .. Len(flight) /\ flight'[j] = flight[j]  BY <3>2
      <4>2. CASE k \in 1 .. Len(flight)  BY <3>2, <4>1, <4>2
      <4>3. CASE k = Len(flight) + 1
        <5>1. flight[j] <= timer /\ flight[j] \in Nat  BY <4>1, ElementOfSeq
        <5> QED BY <3>1, <3>2, <4>1, <4>3, <5>1
      <4> QED BY <3>3, <4>2, <4>3
    <3>6. now' <= flight'[1] + Latency
      <4>1. CASE flight = <<>>  BY <3>1, <3>2, <4>1
      <4>2. CASE flight # <<>>
        <5>1. 1 \in 1 .. Len(flight)  BY <4>2, EmptySeq
        <5> QED BY <3>1, <3>2, <4>2, <5>1
      <4> QED BY <4>1, <4>2
    <3> QED BY <3>1, <3>4, <3>5, <3>6
  <2>2. CASE ~(next < now)  BY <1>1, <2>2 DEF Timer, hist
  <2> QED BY <2>1, <2>2
<1>2. CASE TimerThrows  BY <1>2 DEF TimerThrows, Lose
<1>3. CASE Connected  BY <1>3 DEF Connected, hist
<1>4. CASE Disconnected  BY <1>4 DEF Disconnected, Lose
<1>5. CASE Arrive
  <2>1. /\ flight # <<>> /\ flight' = Tail(flight) /\ fresh' = flight[1]
        /\ expires' = now + Countdown
        /\ UNCHANGED <<now, oe, next, timer, since>>
    BY <1>5, TailTime DEF Arrive
  <2>2. /\ Len(flight) \in Nat \ {0} /\ Len(flight') = Len(flight) - 1
        /\ \A k \in 1 .. Len(flight) - 1 : flight'[k] = flight[k + 1]
    BY <2>1, TailTime
  <2>3. \A k \in 1 .. Len(flight) : flight[k] \in Nat  BY ElementOfSeq
  <2>4. \A j, k \in 1 .. Len(flight') : j < k => flight'[j] < flight'[k]
    <3> SUFFICES ASSUME NEW j \in 1 .. Len(flight'), NEW k \in 1 .. Len(flight'), j < k
                 PROVE  flight'[j] < flight'[k]
      OBVIOUS
    <3>1. j + 1 \in 1 .. Len(flight) /\ k + 1 \in 1 .. Len(flight) /\ j + 1 < k + 1
      BY <2>2
    <3>2. flight[j + 1] < flight[k + 1]  BY <3>1
    <3> QED BY <2>2, <3>2
  <2>5. \A k \in 2 .. Len(flight) : flight[1] < flight[k]
    <3> SUFFICES ASSUME NEW k \in 2 .. Len(flight) PROVE flight[1] < flight[k]  OBVIOUS
    <3>1. 1 \in 1 .. Len(flight) /\ k \in 1 .. Len(flight) /\ 1 < k  BY <2>2
    <3> QED BY <3>1
  <2>6. \A k \in 1 .. Len(flight') : fresh' < flight'[k] /\ flight'[k] <= timer'
    BY <2>1, <2>2, <2>5
  <2>7. fresh' <= timer' /\ fresh' > 0 /\ expires' >= fresh' + Countdown
    BY <2>1, <2>2, <2>3
  <2>8. flight' # <<>> => now' <= flight'[1] + Latency
    <3> SUFFICES ASSUME flight' # <<>> PROVE now' <= flight'[1] + Latency  OBVIOUS
    <3>1. 1 \in 1 .. Len(flight')  BY <2>1, <2>2, TailTime
    <3>2. flight'[1] = flight[2] /\ flight[1] < flight[2] /\ flight[2] \in Nat
      BY <2>2, <2>3, <2>5, <3>1
    <3> QED BY <2>1, <2>2, <2>3, <3>2
  <2> QED BY <2>1, <2>4, <2>6, <2>7, <2>8
<1>6. CASE Tick  BY <1>6 DEF Tick, hist
<1>7. CASE UNCHANGED vars  BY <1>7 DEF vars, hist
<1> QED BY <1>1, <1>2, <1>3, <1>4, <1>5, <1>6, <1>7 DEF Next

\* Last is the time a heartbeat was sent, and Arrive does not change it.
LEMMA LastSent ==
  ASSUME TypeOK, InTime
  PROVE  /\ Last \in Nat /\ fresh <= Last /\ Last <= timer
         /\ flight # <<>> => Len(flight) \in 1 .. Len(flight) /\ Last = flight[Len(flight)]
         /\ Len(flight) \in Nat
         /\ \A k \in 1 .. Len(flight) : flight[k] \in Nat
<1>1. Len(flight) \in Nat /\ \A k \in 1 .. Len(flight) : flight[k] \in Nat
  BY LenProperties, ElementOfSeq DEF TypeOK
<1>2. CASE flight = <<>>  BY <1>1, <1>2 DEF Last, TypeOK, InTime
<1>3. CASE flight # <<>>
  <2>1. Len(flight) \in 1 .. Len(flight)  BY <1>3, EmptySeq DEF TypeOK
  <2> QED BY <1>1, <1>3, <2>1 DEF Last, TypeOK, InTime
<1> QED BY <1>1, <1>2, <1>3

LEMMA LastArrive ==
  ASSUME TypeOK, flight # <<>>, fresh' = Head(flight), flight' = Tail(flight)
  PROVE  Last' = Last
<1>1. /\ Len(flight) \in Nat \ {0} /\ Len(flight') = Len(flight) - 1
      /\ \A k \in 1 .. Len(flight) - 1 : flight'[k] = flight[k + 1]
      /\ fresh' = flight[1]
      /\ flight' = <<>> <=> Len(flight) = 1
  BY TailTime DEF TypeOK
<1>2. CASE Len(flight) = 1  BY <1>1, <1>2 DEF Last
<1>3. CASE Len(flight) # 1
  <2>1. Len(flight) - 1 \in 1 .. Len(flight) - 1  BY <1>1, <1>3
  <2>2. flight'[Len(flight')] = flight[Len(flight)]  BY <1>1, <2>1
  <2> QED BY <1>1, <1>3, <2>2 DEF Last
<1> QED BY <1>2, <1>3

\* A heartbeat is sent before a timer period has passed since it was due.
LEMMA SentInTime ==
  ASSUME TypeOK, InTime, Regular, oe = "ready", Last > since
  PROVE  now <= Last + Gap
BY LastSent, DerivedTimes, SwitchAssumption DEF TypeOK, InTime, Regular, Gap

\* What a timer that sends a heartbeat does to the sequence of them.
LEMMA SentHeartbeat ==
  ASSUME TypeOK, flight' = Append(flight, now)
  PROVE  /\ Len(flight) \in Nat /\ Len(flight') = Len(flight) + 1 /\ flight' # <<>>
         /\ \A k \in 1 .. Len(flight) : flight'[k] = flight[k]
         /\ flight'[Len(flight) + 1] = now
         /\ \A k \in 1 .. Len(flight') : k \in 1 .. Len(flight) \/ k = Len(flight) + 1
         /\ flight = <<>> => flight'[1] = now
         /\ flight # <<>> => Len(flight) # 0 /\ flight'[1] = flight[1]
         /\ Last' = now
<1>1. /\ Len(flight) \in Nat /\ Len(flight') = Len(flight) + 1 /\ flight' # <<>>
      /\ \A k \in 1 .. Len(flight) : flight'[k] = flight[k]
      /\ flight'[Len(flight) + 1] = now
  BY AppendTime, LenProperties DEF TypeOK
<1>2. \A k \in 1 .. Len(flight') : k \in 1 .. Len(flight) \/ k = Len(flight) + 1
  BY <1>1
<1>3. flight = <<>> => flight'[1] = now  BY <1>1
<1>4. flight # <<>> => Len(flight) # 0 /\ flight'[1] = flight[1]
  <2> SUFFICES ASSUME flight # <<>> PROVE Len(flight) # 0 /\ flight'[1] = flight[1]
    OBVIOUS
  <2>1. Len(flight) \in Nat \ {0}  BY EmptySeq DEF TypeOK
  <2> QED BY <1>1, <2>1
<1>5. Last' = now  BY <1>1 DEF Last
<1> QED BY <1>1, <1>2, <1>3, <1>4, <1>5

\* After a loss, or none, every heartbeat follows the one before it in time.
LEMMA RegularStep == HeartbeatInv /\ [Next]_vars => Regular'
<1> SUFFICES ASSUME HeartbeatInv, [Next]_vars PROVE Regular'  OBVIOUS
<1> USE DerivedTimes, SwitchAssumption DEF HeartbeatInv, TypeOK
<1>0. TypeOK /\ InTime /\ Regular  OBVIOUS
<1>l. /\ Last \in Nat /\ fresh <= Last /\ Last <= timer /\ Len(flight) \in Nat
      /\ flight # <<>> => Len(flight) \in 1 .. Len(flight) /\ Last = flight[Len(flight)]
      /\ \A k \in 1 .. Len(flight) : flight[k] \in Nat
  BY <1>0, LastSent
<1>1. CASE Timer
  <2>1. CASE next < now
    <3>1. /\ flight' = Append(flight, now) /\ timer' = now /\ timer < now /\ oe = "ready"
          /\ next' = now + Interval
          /\ UNCHANGED <<now, oe, expires, fresh, losses, since, drops>>
      BY <1>1, <2>1 DEF Timer, hist
    <3>2. /\ Len(flight') = Len(flight) + 1
          /\ \A k \in 1 .. Len(flight) : flight'[k] = flight[k]
          /\ flight'[Len(flight) + 1] = now
          /\ \A k \in 1 .. Len(flight') : k \in 1 .. Len(flight) \/ k = Len(flight) + 1
          /\ flight = <<>> => flight'[1] = now
          /\ flight # <<>> => flight'[1] = flight[1]
          /\ Last' = now
      BY <1>0, <3>1, SentHeartbeat
    <3>3. Last > since => now <= Last + Gap  BY <1>0, <3>1, SentInTime
    <3>4. fresh' > since' => flight'[1] <= fresh' + Gap
      <4>1. CASE flight = <<>>  BY <3>1, <3>2, <3>3, <4>1 DEF Last
      <4>2. CASE flight # <<>>  BY <3>1, <3>2, <4>2 DEF Regular
      <4> QED BY <4>1, <4>2
    <3>5. \A k \in 1 .. Len(flight') :
            flight'[k] > since' /\ k + 1 <= Len(flight') => flight'[k + 1] <= flight'[k] + Gap
      <4> SUFFICES ASSUME NEW k \in 1 .. Len(flight'), flight'[k] > since', k + 1 <= Len(flight')
                   PROVE  flight'[k + 1] <= flight'[k] + Gap
        OBVIOUS
      <4>1. k \in 1 .. Len(flight) /\ flight'[k] = flight[k]  BY <1>l, <3>2
      <4>2. CASE k + 1 <= Len(flight)
        <5>1. flight'[k + 1] = flight[k + 1]  BY <1>l, <3>2, <4>1, <4>2
        <5> QED BY <3>1, <4>1, <4>2, <5>1 DEF Regular
      <4>3. CASE k = Len(flight)
        <5>1. flight # <<>>  BY <4>1, <4>3
        <5> QED BY <1>l, <3>1, <3>2, <3>3, <4>1, <4>3, <5>1
      <4> QED BY <1>l, <3>2, <4>1, <4>2, <4>3
    <3>6. oe' = "ready" /\ next' = Last' + Interval /\ timer' <= next'  BY <3>1, <3>2
    <3>7. /\ losses' = 0 /\ Armed' => fresh' > since'
          /\ losses' = 0 /\ ~Armed' => since' = 0
      BY <3>1 DEF Regular, Armed
    <3> QED BY <3>4, <3>5, <3>6, <3>7 DEF Regular
  <2>2. CASE ~(next < now)
    <3>1. /\ timer' = now
          /\ UNCHANGED <<now, oe, next, flight, expires, fresh, losses, since, drops>>
      BY <1>1, <2>2 DEF Timer, hist
    <3> QED BY <2>2, <3>1 DEF Regular, Last, Armed
  <2> QED BY <2>1, <2>2
<1>2. CASE TimerThrows
  <2>1. /\ since' = now /\ timer < now /\ losses' = losses + 1
        /\ UNCHANGED <<flight, fresh, expires>>
    BY <1>2 DEF TimerThrows, Lose
  <2>2. Last' = Last  BY <2>1 DEF Last
  <2>3. losses' # 0  BY <2>1
  <2>4. ~(fresh' > since') /\ ~(Last' > since')  BY <1>l, <2>1, <2>2
  <2>5. \A k \in 1 .. Len(flight') : ~(flight'[k] > since')
    BY <1>l, <2>1 DEF InTime
  <2> QED BY <2>3, <2>4, <2>5 DEF Regular
<1>3. CASE Connected
  <2>1. oe = "down" /\ UNCHANGED <<now, next, flight, expires, fresh, losses, since, drops>>
    BY <1>3 DEF Connected, hist
  <2> QED BY <2>1 DEF Regular, Last, Armed
<1>4. CASE Disconnected
  <2>1. since' = now /\ losses' = losses + 1 /\ flight' = <<>> /\ UNCHANGED <<fresh, expires>>
    BY <1>4 DEF Disconnected, Lose
  <2>2. losses' # 0  BY <2>1
  <2>3. ~(fresh' > since')  BY <2>1 DEF InTime
  <2>4. Last' = fresh'  BY <2>1 DEF Last
  <2>5. 1 .. Len(flight') = {}
    <3>1. Len(flight') = 0  BY <2>1
    <3> QED BY <3>1
  <2> QED BY <2>2, <2>3, <2>4, <2>5 DEF Regular
<1>5. CASE Arrive
  <2>1. /\ flight # <<>> /\ flight' = Tail(flight) /\ fresh' = Head(flight)
        /\ fresh' = flight[1] /\ expires' = now + Countdown
        /\ losses' = IF flight[1] > since THEN 0 ELSE losses
        /\ UNCHANGED <<now, oe, next, timer, since>>
    BY <1>5, TailTime DEF Arrive
  <2>2. /\ Len(flight) \in Nat \ {0} /\ Len(flight') = Len(flight) - 1
        /\ \A k \in 1 .. Len(flight) - 1 : flight'[k] = flight[k + 1]
        /\ flight' = <<>> <=> Len(flight) = 1
    BY <2>1, TailTime
  <2>3. fresh < flight[1] /\ flight[1] \in Nat  BY <1>l, <2>2 DEF InTime
  <2>4. losses' = 0 => fresh' > since'
    <3>1. CASE flight[1] > since  BY <2>1, <3>1
    <3>2. CASE ~(flight[1] > since)  BY <2>1, <2>3, <3>2 DEF Regular
    <3> QED BY <3>1, <3>2
  <2>5. Armed'  BY <2>1 DEF Armed
  <2>6. fresh' > since' /\ flight' # <<>> => flight'[1] <= fresh' + Gap
    <3> SUFFICES ASSUME fresh' > since', flight' # <<>> PROVE flight'[1] <= fresh' + Gap
      OBVIOUS
    <3>1. 1 \in 1 .. Len(flight) - 1 /\ 1 \in 1 .. Len(flight) /\ 1 + 1 <= Len(flight)
      BY <2>2
    <3>2. flight[1 + 1] <= flight[1] + Gap  BY <2>1, <3>1 DEF Regular
    <3> QED BY <2>1, <2>2, <3>1, <3>2
  <2>7. \A k \in 1 .. Len(flight') :
          flight'[k] > since' /\ k + 1 <= Len(flight') => flight'[k + 1] <= flight'[k] + Gap
    <3> SUFFICES ASSUME NEW k \in 1 .. Len(flight'), flight'[k] > since', k + 1 <= Len(flight')
                 PROVE  flight'[k + 1] <= flight'[k] + Gap
      OBVIOUS
    <3>1. k + 1 \in 1 .. Len(flight) /\ (k + 1) + 1 <= Len(flight)  BY <2>2
    <3>2. flight'[k] = flight[k + 1] /\ flight'[k + 1] = flight[(k + 1) + 1]  BY <2>2
    <3> QED BY <2>1, <3>1, <3>2 DEF Regular
  <2>8. Last' = Last  BY <1>0, <2>1, LastArrive
  <2> QED BY <2>1, <2>4, <2>5, <2>6, <2>7, <2>8 DEF Regular
<1>6. CASE Tick
  <2>1. UNCHANGED <<oe, next, timer, flight, expires, fresh, losses, since, drops>>
    BY <1>6 DEF Tick, hist
  <2> QED BY <2>1 DEF Regular, Last, Armed
<1>7. CASE UNCHANGED vars  BY <1>7 DEF vars, hist, Regular, Last, Armed
<1> QED BY <1>1, <1>2, <1>3, <1>4, <1>5, <1>6, <1>7 DEF Next

\* After one loss the next heartbeat comes an interval or an outage late.
Once == losses = 1 => OneFailed \/ OneOutage

LEMMA OnceStep == HeartbeatInv /\ [Next]_vars => Once'
<1> SUFFICES ASSUME HeartbeatInv, [Next]_vars, losses' = 1 PROVE OneFailed' \/ OneOutage'
  BY DEF Once
<1> USE DerivedTimes, SwitchAssumption DEF HeartbeatInv, TypeOK
<1>0. TypeOK /\ InTime /\ Regular  OBVIOUS
<1>l. /\ Last \in Nat /\ fresh <= Last /\ Last <= timer /\ Len(flight) \in Nat
      /\ flight # <<>> => Len(flight) \in 1 .. Len(flight) /\ Last = flight[Len(flight)]
      /\ \A k \in 1 .. Len(flight) : flight[k] \in Nat
  BY <1>0, LastSent
<1>1. CASE Timer
  <2>1. CASE next < now
    <3>1. /\ flight' = Append(flight, now) /\ timer' = now /\ timer < now /\ oe = "ready"
          /\ next' = now + Interval /\ losses = 1
          /\ UNCHANGED <<now, oe, expires, fresh, losses, since, drops>>
      BY <1>1, <2>1 DEF Timer, hist
    <3>2. /\ Len(flight') = Len(flight) + 1 /\ flight' # <<>>
          /\ \A k \in 1 .. Len(flight) : flight'[k] = flight[k]
          /\ flight'[Len(flight) + 1] = now
          /\ \A k \in 1 .. Len(flight') : k \in 1 .. Len(flight) \/ k = Len(flight) + 1
          /\ flight = <<>> => flight'[1] = now
          /\ flight # <<>> => flight'[1] = flight[1]
          /\ Last' = now
      BY <1>0, <3>1, SentHeartbeat
    <3>3. CASE OneFailed
      <4>1. Last > 0 => now <= Last + 2 * Gap
        <5>1. CASE Last > since  BY <1>0, <1>l, <3>1, <5>1, SentInTime
        <5>2. CASE Last <= since  BY <1>l, <3>1, <3>3, <5>2 DEF OneFailed, InTime, Gap
        <5> QED BY <1>l, <5>1, <5>2
      <4>2. Armed' => flight'[1] <= fresh' + 2 * Gap
        <5>1. CASE flight = <<>>  BY <3>1, <3>2, <4>1, <5>1 DEF Last, InTime, Armed
        <5>2. CASE flight # <<>>  BY <3>1, <3>2, <3>3, <5>2 DEF OneFailed, Armed
        <5> QED BY <5>1, <5>2
      <4>3. \A k \in 1 .. Len(flight') :
              k + 1 <= Len(flight') => flight'[k + 1] <= flight'[k] + 2 * Gap
        <5> SUFFICES ASSUME NEW k \in 1 .. Len(flight'), k + 1 <= Len(flight')
                     PROVE  flight'[k + 1] <= flight'[k] + 2 * Gap
          OBVIOUS
        <5>1. k \in 1 .. Len(flight) /\ flight'[k] = flight[k]  BY <1>l, <3>2
        <5>2. CASE k + 1 <= Len(flight)
          <6>1. flight'[k + 1] = flight[k + 1]  BY <1>l, <3>2, <5>1, <5>2
          <6> QED BY <3>3, <5>1, <5>2, <6>1 DEF OneFailed
        <5>3. CASE k = Len(flight)
          <6>1. flight # <<>> /\ Last = flight[k]  BY <1>l, <5>1, <5>3
          <6>2. Last > 0  BY <1>l, <5>1, <6>1 DEF InTime
          <6> QED BY <1>l, <3>2, <4>1, <5>1, <5>3, <6>1, <6>2
        <5> QED BY <1>l, <3>2, <5>1, <5>2, <5>3
      <4>4. ~(Last' <= since')  BY <1>l, <3>1, <3>2 DEF InTime
      <4>5. OneFailed'  BY <3>1, <4>2, <4>3, <4>4 DEF OneFailed
      <4> QED BY <4>5
    <3>4. CASE OneOutage
      <4>1. \A k \in 1 .. Len(flight') : since' < flight'[k]
        BY <1>l, <3>1, <3>2, <3>4 DEF OneOutage, InTime
      <4>2. flight'[1] <= since' + MaxOutage + TimerPeriod
        <5>1. CASE flight = <<>>  BY <3>1, <3>2, <3>4, <5>1 DEF OneOutage, InTime
        <5>2. CASE flight # <<>>  BY <3>1, <3>2, <3>4, <5>2 DEF OneOutage
        <5> QED BY <5>1, <5>2
      <4>3. OneOutage'  BY <3>1, <3>2, <3>4, <4>1, <4>2 DEF OneOutage, Armed
      <4> QED BY <4>3
    <3> QED BY <3>1, <3>3, <3>4
  <2>2. CASE ~(next < now)
    <3>1. /\ timer' = now /\ oe = "ready" /\ losses = 1
          /\ UNCHANGED <<now, oe, next, flight, expires, fresh, losses, since, drops>>
      BY <1>1, <2>2 DEF Timer, hist
    <3>2. CASE OneFailed
      <4>1. OneFailed'  BY <2>2, <3>1, <3>2 DEF OneFailed, Last, Armed
      <4> QED BY <4>1
    <3>3. CASE OneOutage
      <4>1. OneOutage'  BY <2>2, <3>1, <3>3 DEF OneOutage, Armed
      <4> QED BY <4>1
    <3> QED BY <3>1, <3>2, <3>3
  <2> QED BY <2>1, <2>2
<1>2. CASE TimerThrows
  <2>1. /\ since' = now /\ timer < now /\ losses = 0 /\ oe = "ready"
        /\ next' = now + Interval /\ timer' = now
        /\ UNCHANGED <<oe, flight, fresh, expires>>
    BY <1>2 DEF TimerThrows, Lose
  <2>2. Last' = Last  BY <2>1 DEF Last
  <2>3. \A k \in 1 .. Len(flight) : flight[k] > since
    BY <1>l, <2>1 DEF Regular, InTime
  <2>4. Last > 0 => Last > since
    <3>1. CASE flight = <<>>  BY <2>1, <3>1 DEF Last, Regular, InTime
    <3>2. CASE flight # <<>>  BY <1>l, <2>3, <3>2
    <3> QED BY <3>1, <3>2
  <2>5. Last > 0 => since' <= Last' + Gap  BY <1>0, <2>1, <2>2, <2>4, SentInTime
  <2>6. Armed' /\ flight' # <<>> => flight'[1] <= fresh' + 2 * Gap
    <3> SUFFICES ASSUME Armed', flight' # <<>> PROVE flight'[1] <= fresh' + 2 * Gap
      OBVIOUS
    <3>1. flight[1] <= fresh + Gap /\ flight[1] \in Nat
      BY <1>l, <2>1 DEF Regular, Armed
    <3> QED BY <2>1, <3>1
  <2>7. \A k \in 1 .. Len(flight) :
          k + 1 <= Len(flight) => flight[k + 1] <= flight[k] + 2 * Gap
    <3> SUFFICES ASSUME NEW k \in 1 .. Len(flight), k + 1 <= Len(flight)
                 PROVE  flight[k + 1] <= flight[k] + 2 * Gap
      OBVIOUS
    <3>1. k + 1 \in 1 .. Len(flight)  BY <1>l
    <3>2. flight[k + 1] <= flight[k] + Gap  BY <2>3 DEF Regular
    <3> QED BY <1>l, <3>1, <3>2
  <2>8. OneFailed'  BY <2>1, <2>2, <2>5, <2>6, <2>7 DEF OneFailed
  <2> QED BY <2>8
<1>3. CASE Connected
  <2>1. /\ oe = "down" /\ oe' = "ready" /\ timer' = now /\ losses = 1
        /\ UNCHANGED <<now, next, flight, expires, fresh, losses, since, drops>>
    BY <1>3 DEF Connected, hist
  <2>2. OneOutage  BY <2>1 DEF OneFailed
  <2>3. OneOutage'  BY <2>1, <2>2 DEF OneOutage, InTime, Armed
  <2> QED BY <2>3
<1>4. CASE Disconnected
  <2>1. /\ since' = now /\ losses = 0 /\ flight' = <<>> /\ oe = "ready" /\ oe' = "down"
        /\ next' = 0 /\ timer' = now /\ UNCHANGED <<now, fresh, expires>>
    BY <1>4 DEF Disconnected, Lose
  <2>2. Armed => now <= fresh + Gap + Latency
    <3> SUFFICES ASSUME Armed PROVE now <= fresh + Gap + Latency  OBVIOUS
    <3>1. fresh > since  BY <2>1 DEF Regular
    <3>2. CASE flight = <<>>  BY <1>0, <2>1, <3>1, <3>2, SentInTime DEF Last
    <3>3. CASE flight # <<>>
      <4>1. flight[1] \in Nat  BY <1>l, <3>3
      <4> QED BY <3>1, <3>3, <4>1 DEF Regular, InTime
    <3> QED BY <3>2, <3>3
  <2>3. \A k \in 1 .. Len(flight') : since' < flight'[k]  BY <2>1
  <2>4. OneOutage'  BY <2>1, <2>2, <2>3 DEF OneOutage, Armed
  <2> QED BY <2>4
<1>5. CASE Arrive
  <2>1. /\ flight # <<>> /\ flight' = Tail(flight) /\ fresh' = Head(flight)
        /\ fresh' = flight[1] /\ expires' = now + Countdown
        /\ losses' = IF flight[1] > since THEN 0 ELSE losses
        /\ UNCHANGED <<now, oe, next, timer, since>>
    BY <1>5, TailTime DEF Arrive
  <2>2. /\ Len(flight) \in Nat \ {0} /\ Len(flight') = Len(flight) - 1
        /\ \A k \in 1 .. Len(flight) - 1 : flight'[k] = flight[k + 1]
        /\ flight' = <<>> <=> Len(flight) = 1
    BY <2>1, TailTime
  <2>3. losses = 1 /\ ~(flight[1] > since)  BY <2>1
  <2>4. OneFailed  BY <1>l, <2>2, <2>3 DEF OneOutage
  <2>5. flight' # <<>> => flight'[1] <= fresh' + 2 * Gap
    <3> SUFFICES ASSUME flight' # <<>> PROVE flight'[1] <= fresh' + 2 * Gap  OBVIOUS
    <3>1. 1 \in 1 .. Len(flight) - 1 /\ 1 \in 1 .. Len(flight) /\ 1 + 1 <= Len(flight)
      BY <2>2
    <3>2. flight[1 + 1] <= flight[1] + 2 * Gap  BY <2>4, <3>1 DEF OneFailed
    <3> QED BY <2>1, <2>2, <3>1, <3>2
  <2>6. \A k \in 1 .. Len(flight') :
          k + 1 <= Len(flight') => flight'[k + 1] <= flight'[k] + 2 * Gap
    <3> SUFFICES ASSUME NEW k \in 1 .. Len(flight'), k + 1 <= Len(flight')
                 PROVE  flight'[k + 1] <= flight'[k] + 2 * Gap
      OBVIOUS
    <3>1. k + 1 \in 1 .. Len(flight) /\ (k + 1) + 1 <= Len(flight)  BY <2>2
    <3>2. flight'[k] = flight[k + 1] /\ flight'[k + 1] = flight[(k + 1) + 1]  BY <2>2
    <3> QED BY <2>4, <3>1, <3>2 DEF OneFailed
  <2>7. Last' = Last  BY <1>0, <2>1, LastArrive
  <2>8. OneFailed'  BY <2>1, <2>4, <2>5, <2>6, <2>7 DEF OneFailed
  <2> QED BY <2>8
<1>6. CASE Tick
  <2>1. UNCHANGED <<oe, next, timer, flight, expires, fresh, losses, since, drops>>
    BY <1>6 DEF Tick, hist
  <2>2. OneFailed => OneFailed'  BY <2>1 DEF OneFailed, Last, Armed
  <2>3. OneOutage => OneOutage'  BY <2>1 DEF OneOutage, Armed
  <2> QED BY <2>1, <2>2, <2>3
<1>7. CASE UNCHANGED vars
  <2>1. UNCHANGED <<oe, next, timer, flight, expires, fresh, losses, since, drops>>
    BY <1>7 DEF vars, hist
  <2>2. OneFailed => OneFailed'  BY <2>1 DEF OneFailed, Last, Armed
  <2>3. OneOutage => OneOutage'  BY <2>1 DEF OneOutage, Armed
  <2> QED BY <2>1, <2>2, <2>3
<1> QED BY <1>1, <1>2, <1>3, <1>4, <1>5, <1>6, <1>7 DEF Next

LEMMA HeartbeatInvariant == Spec => []HeartbeatInv
<1>1. Init => HeartbeatInv
  BY SwitchAssumption
     DEF Init, HeartbeatInv, TypeOK, InTime, Regular, Last, Armed
<1>2. HeartbeatInv /\ [Next]_vars => HeartbeatInv'
  BY TypeStep, InTimeStep, RegularStep, OnceStep DEF HeartbeatInv, Once
<1> QED BY <1>1, <1>2, PTL DEF Spec

\* The state is well typed.
THEOREM TypeCorrect == Spec => []TypeOK
<1>1. HeartbeatInv => TypeOK  BY DEF HeartbeatInv
<1> QED BY <1>1, HeartbeatInvariant, PTL

\* With settings that are Timely the orders are not cancelled while OrderEntry is
\* connected, nor by one failed heartbeat or one short outage, however timers,
\* heartbeats and the loss fall.
THEOREM NotCancelled == ASSUME Timely PROVE Spec => []NeverCancelled
<1>1. HeartbeatInv => NeverCancelled
  <2> SUFFICES ASSUME HeartbeatInv, Armed, losses <= 1 PROVE now < expires
    BY DEF NeverCancelled
  <2> USE DerivedTimes, SwitchAssumption DEF HeartbeatInv, TypeOK
  <2>0. TypeOK /\ InTime /\ Regular  OBVIOUS
  <2>l. /\ Last \in Nat /\ Len(flight) \in Nat
        /\ flight # <<>> => Len(flight) \in 1 .. Len(flight)
        /\ \A k \in 1 .. Len(flight) : flight[k] \in Nat
    BY <2>0, LastSent
  <2>1. flight # <<>> => flight[1] \in Nat /\ now <= flight[1] + Latency
    BY <2>l DEF InTime
  <2>2. expires >= fresh + Countdown /\ fresh > 0  BY DEF InTime
  <2>3. /\ 2 * Gap + Latency < Countdown
        /\ Gap + TimerPeriod + 2 * Latency + MaxOutage < Countdown
    BY Timely DEF Timely, Gap
  <2>4. CASE losses = 0
    <3>1. fresh > since  BY <2>4 DEF Regular
    <3>2. CASE flight = <<>>
      <4>1. now <= fresh + Gap  BY <2>0, <3>1, <3>2, SentInTime DEF Last, Regular
      <4> QED BY <2>2, <2>3, <4>1
    <3>3. CASE flight # <<>>  BY <2>1, <2>2, <2>3, <3>1, <3>3 DEF Regular
    <3> QED BY <3>2, <3>3
  <2>5. CASE losses = 1 /\ OneFailed
    <3>1. CASE flight = <<>>
      <4>1. now <= fresh + 2 * Gap
        <5>1. CASE fresh > since  BY <2>0, <2>5, <3>1, <5>1, SentInTime DEF Last, OneFailed
        <5>2. CASE fresh <= since  BY <2>2, <2>5, <3>1, <5>2 DEF Last, OneFailed, InTime, Gap
        <5> QED BY <5>1, <5>2
      <4> QED BY <2>2, <2>3, <4>1
    <3>2. CASE flight # <<>>  BY <2>1, <2>2, <2>3, <2>5, <3>2 DEF OneFailed
    <3> QED BY <3>1, <3>2
  <2>6. CASE losses = 1 /\ OneOutage
    <3>1. since <= fresh + Gap + Latency  BY <2>6 DEF OneOutage
    <3>2. CASE oe = "down"  BY <2>2, <2>3, <2>6, <3>1, <3>2 DEF OneOutage, InTime
    <3>3. CASE oe = "ready" /\ flight = <<>>
      BY <2>2, <2>3, <2>6, <3>1, <3>3 DEF OneOutage, InTime
    <3>4. CASE flight # <<>>  BY <2>1, <2>2, <2>3, <2>6, <3>1, <3>4 DEF OneOutage
    <3> QED BY <3>2, <3>3, <3>4
  <2>7. losses = 0 \/ losses = 1  OBVIOUS
  <2> QED BY <2>4, <2>5, <2>6, <2>7
<1> QED BY <1>1, HeartbeatInvariant, PTL
=============================================================================
