------------------------------ MODULE StreamsProofs ------------------------------
(***************************************************************************)
(* The streaks of Streams, for any number of users, adapters, streams,     *)
(* boots and failing writes: they are earned, paid as counted, and saved.  *)
(***************************************************************************)
EXTENDS Streams, FiniteSetTheorems, TLAPS

Rows == UNION {writes[w] : w \in Writer}

\* What memory, table and pending rows say of a user.
Known(u) == {streaks[u], table[u]} \cup {r.streak : r \in {x \in Rows : x.user = u}}

(***************************************************************************)
(* Streams are numbered in the order in which they open, and end in it: an *)
(* open stream is the newest one, and every other one has ended.           *)
(***************************************************************************)
Order ==
  /\ current # NoStream => /\ current = opened /\ current \notin over
                           /\ current >= since /\ previous < current
  /\ \A s \in over : s <= opened
  /\ since <= opened + 1
  /\ phase = "down" => current = NoStream /\ previous = NoStream

\* A count is not above the number of its stream, and its stream has ended.
Fits(k) == k.count <= k.stream /\ k.stream \in over \cup {NoStream}

CountsFit == \A u \in User : \A k \in Known(u) : Fits(k)

\* The stream a streak continues from is the last one this process has seen end,
\* and the streaks say who was in it.
Baseline ==
  /\ previous # NoStream =>
       /\ previous \in over /\ previous >= since
       /\ \A s \in over : s <= previous
       /\ \A u \in User : u \in seen[previous] <=> streaks[u].stream = previous
  /\ previous = NoStream /\ phase # "down" => \A s \in over : s < since

AtMostEarned == \A u \in User : \A k \in Known(u) : k.count <= Cardinality(Run(u, 1, k.stream))

AtLeastEarned ==
  \A u \in User :
    streaks[u].stream >= since =>
      streaks[u].count >= Cardinality(Run(u, since, streaks[u].stream))

\* A count that has been asked for is still the one the stream would end with.
CacheHolds == \A u \in User : cache[u] # 0 => cache[u] = next_count(u)

IInv == TypeOK /\ Order /\ CountsFit /\ Baseline /\ AtMostEarned /\ AtLeastEarned /\ CacheHolds

--------------------------------------------------------------------------------
\* The rows of stream_streaks and the counts of a boot fit what has been seen.
LEMMA InitOK == Init => TypeOK /\ Order /\ CountsFit /\ Baseline /\ CacheHolds
<1> SUFFICES ASSUME Init PROVE TypeOK /\ Order /\ CountsFit /\ Baseline /\ CacheHolds
  OBVIOUS
<1> USE StreamsAssumption DEF Init, NoStream, NoStreak
<1>1. TypeOK
  BY DEF TypeOK, Streak, Row, Stream, Writer
<1>2. Rows = {}
  BY DEF Rows
<1>3. \A u \in User : Known(u) = {NoStreak}
  BY <1>2 DEF Known
<1> QED
  BY <1>1, <1>3 DEF Order, CountsFit, Fits, Baseline, CacheHolds

\* The streams of a run are finitely many, before a step and after it.
LEMMA RunIsFinite ==
  ASSUME NEW u, NEW f \in Nat, NEW s \in Nat
  PROVE  /\ IsFiniteSet(Run(u, f, s)) /\ Cardinality(Run(u, f, s)) \in Nat
         /\ IsFiniteSet(Run(u, f, s)') /\ Cardinality(Run(u, f, s)') \in Nat
<1>1. Run(u, f, s) \in SUBSET (f .. s) /\ Run(u, f, s)' \in SUBSET (f .. s)
  BY DEF Run
<1>2. IsFiniteSet(f .. s)
  BY FS_Interval
<1>3. IsFiniteSet(Run(u, f, s)) /\ IsFiniteSet(Run(u, f, s)')
  BY <1>1, <1>2, FS_Subset
<1> QED
  BY <1>3, FS_CardinalityType

--------------------------------------------------------------------------------
(***************************************************************************)
(* The end of a stream.                                                    *)
(***************************************************************************)
\* The types of what close_stream assigns.
LEMMA CloseTypes ==
  ASSUME TypeOK, Order, CountsFit, close_stream
  PROVE  /\ streaks' \in [User -> Streak] /\ Advanced \in [User -> Streak]
         /\ previous' \in {NoStream} \cup Stream
         /\ attendance' = {} /\ cache' = [u \in User |-> 0]
         /\ seen' \in [Stream -> SUBSET User] /\ over' \subseteq Stream
         /\ Updated \subseteq Row
<1> USE StreamsAssumption DEF NoStream, Stream
<1>1. ASSUME NEW u \in User, u \in attendance
      PROVE  [stream |-> current, count |-> next_count(u)] \in Streak
  <2>1. streaks[u] \in Streak /\ Fits(streaks[u])
    BY DEF TypeOK, CountsFit, Known
  <2>2. current \in Stream /\ previous < current /\ previous \in Nat /\ current <= MaxStreams
    BY <1>1 DEF TypeOK, Order
  <2>3. next_count(u) \in 0 .. MaxStreams
    BY <2>1, <2>2 DEF next_count, continues, Streak, Fits
  <2> QED
    BY <2>2, <2>3 DEF Streak
<1>2. Advanced \in [User -> Streak]
  BY <1>1 DEF Advanced, TypeOK
<1>3. Updated \subseteq Row
  BY <1>2 DEF Updated, Row, TypeOK
<1> QED
  BY <1>2, <1>3 DEF TypeOK, close_stream, Forgotten

\* Of the runs up to an older stream, the end of the newest changes nothing.
LEMMA OldRuns ==
  ASSUME TypeOK, Order, CountsFit, close_stream, current # NoStream,
         NEW u \in User, NEW f \in Nat, NEW s \in Nat, s < current
  PROVE  Run(u, f, s)' = Run(u, f, s)
<1> USE StreamsAssumption DEF NoStream, Stream
<1>1. over' = over \cup {current} /\ \A t \in over : t \in Nat /\ seen'[t] = seen[t]
  BY DEF close_stream, TypeOK, Order
<1>2. current \in Nat
  BY DEF TypeOK
<1> QED
  BY <1>1, <1>2 DEF Run

\* The stream that ends prolongs a streak of the one before, or begins anew.
LEMMA NewRun ==
  ASSUME TypeOK, Order, CountsFit, Baseline, close_stream, current # NoStream,
         phase # "down", NEW u \in attendance, NEW c, c = current, NEW f \in {1, since}
  PROVE  /\ continues(u) => Run(u, f, c)' = Run(u, f, previous) \cup {c}
         /\ ~continues(u) /\ f = since => Run(u, f, c)' = {c}
         /\ c \in Run(u, f, c)'
         /\ c \notin Run(u, f, previous)
<1> USE StreamsAssumption DEF NoStream, Stream
<1>1. /\ over' = over \cup {c}
      /\ \A t \in over : t \in Nat /\ t < c /\ seen'[t] = seen[t]
      /\ u \in seen'[c]
  BY DEF close_stream, TypeOK, Order
<1>2. /\ c \in Nat /\ f \in Nat /\ 1 <= f /\ f <= c
      /\ previous \in Nat /\ previous < c
      /\ u \in User
  BY DEF TypeOK, Order
<1>3. ASSUME continues(u)
      PROVE  Run(u, f, c)' = Run(u, f, previous) \cup {c}
  <2>1. previous \in over /\ \A t \in over : t <= previous
    BY <1>3 DEF continues, Baseline
  <2>2. ASSUME NEW t, t \in Run(u, f, c)', t # c
        PROVE  t \in Run(u, f, previous)
    <3>1. t \in over /\ t \in f .. c /\ \A x \in over' : x \in t .. c => u \in seen'[x]
      BY <1>1, <2>2 DEF Run
    <3>2. t \in f .. previous /\ t \in Nat
      BY <1>1, <1>2, <2>1, <3>1
    <3>3. \A x \in over : x \in t .. previous => u \in seen[x]
      BY <1>1, <1>2, <3>1, <3>2
    <3> QED
      BY <3>1, <3>2, <3>3 DEF Run
  <2>3. ASSUME NEW t, t \in Run(u, f, previous)
        PROVE  t \in Run(u, f, c)'
    <3>1. t \in over /\ t \in f .. previous /\ \A x \in over : x \in t .. previous => u \in seen[x]
      BY <2>3 DEF Run
    <3>2. t \in over' /\ t \in f .. c /\ t \in Nat
      BY <1>1, <1>2, <3>1
    <3>3. \A x \in over' : x \in t .. c => u \in seen'[x]
      BY <1>1, <1>2, <2>1, <3>1, <3>2
    <3> QED
      BY <3>2, <3>3 DEF Run
  <2>4. c \in Run(u, f, c)'
    BY <1>1, <1>2 DEF Run
  <2> QED
    BY <2>2, <2>3, <2>4
<1>4. ASSUME ~continues(u), f = since
      PROVE  Run(u, f, c)' = {c}
  <2>1. CASE previous = NoStream
    <3>1. \A t \in over : t < f
      BY <1>4, <2>1 DEF Baseline
    <3> QED
      BY <1>1, <1>2, <3>1 DEF Run
  <2>2. CASE previous # NoStream
    <3>1. /\ previous \in over /\ \A t \in over : t <= previous
          /\ u \notin seen[previous]
      BY <1>2, <1>4, <2>2 DEF continues, Baseline
    <3>2. \A t \in over : t \notin Run(u, f, c)'
      BY <1>1, <1>2, <3>1 DEF Run
    <3> QED
      BY <1>1, <1>2, <3>2 DEF Run
  <2> QED
    BY <2>1, <2>2
<1>5. c \in Run(u, f, c)'
  BY <1>1, <1>2 DEF Run
<1>6. c \notin Run(u, f, previous)
  BY <1>2 DEF Run
<1> QED
  BY <1>3, <1>4, <1>5, <1>6

\* The size of the run that ends with the stream that ends.
LEMMA NewRunSize ==
  ASSUME TypeOK, Order, CountsFit, Baseline, close_stream, current # NoStream,
         phase # "down", NEW u \in attendance, NEW c, c = current, NEW f \in {1, since}
  PROVE  /\ continues(u) => Cardinality(Run(u, f, c)') = Cardinality(Run(u, f, previous)) + 1
         /\ ~continues(u) /\ f = since => Cardinality(Run(u, f, c)') = 1
         /\ Cardinality(Run(u, f, c)') >= 1
<1> USE StreamsAssumption DEF NoStream, Stream
<1>1. c \in Nat /\ f \in Nat /\ previous \in Nat
  BY DEF TypeOK
<1>2. \A p \in Nat : IsFiniteSet(Run(u, f, p))
  BY <1>1, RunIsFinite
<1>3. IsFiniteSet(Run(u, f, c)')
  BY <1>1, RunIsFinite
<1>4. Cardinality({c}) = 1
  BY FS_Singleton
<1>5. c \in Run(u, f, c)' /\ c \notin Run(u, f, previous)
  BY NewRun
<1>6. continues(u) => Run(u, f, c)' = Run(u, f, previous) \cup {c}
  BY NewRun
<1>7. continues(u) => Cardinality(Run(u, f, c)') = Cardinality(Run(u, f, previous)) + 1
  BY <1>1, <1>2, <1>5, <1>6, FS_AddElement
<1>8. ~continues(u) /\ f = since => Cardinality(Run(u, f, c)') = 1
  BY <1>4, NewRun
<1>9. Cardinality({c}) <= Cardinality(Run(u, f, c)')
  BY <1>3, <1>5, FS_Subset
<1> QED
  BY <1>4, <1>7, <1>8, <1>9

\* At the end of a stream, what was known still fits, and so does the new count.
LEMMA CloseFits ==
  ASSUME TypeOK, Order, CountsFit, Baseline, AtMostEarned, close_stream, phase # "down",
         NEW u \in User, NEW k, k \in Known(u) \/ k = Advanced[u]
  PROVE  Fits(k)' /\ k.count <= Cardinality(Run(u, 1, k.stream)')
<1> USE StreamsAssumption DEF NoStream, Stream
<1>1. CASE k \in Known(u)
  <2>1. Fits(k) /\ k.count <= Cardinality(Run(u, 1, k.stream))
    BY <1>1 DEF CountsFit, AtMostEarned
  <2>2. over \subseteq over'
    BY DEF close_stream
  <2>3. CASE current = NoStream
    <3>1. Run(u, 1, k.stream)' = Run(u, 1, k.stream)
      BY <2>3 DEF Run, close_stream
    <3> QED
      BY <2>1, <2>2, <3>1 DEF Fits
  <2>4. CASE current # NoStream
    <3>1. k.stream \in Nat /\ k.stream < current
      <4>1. current \in Nat /\ current > 0 /\ \A t \in over : t \in Nat /\ t < current
        BY <2>4 DEF TypeOK, Order
      <4> QED
        BY <2>1, <4>1 DEF Fits
    <3>2. Run(u, 1, k.stream)' = Run(u, 1, k.stream)
      BY <2>4, <3>1, OldRuns
    <3> QED
      BY <2>1, <2>2, <3>2 DEF Fits
  <2> QED
    BY <2>3, <2>4
<1>2. CASE k = Advanced[u] /\ u \in attendance
  <2>1. current # NoStream /\ k = [stream |-> current, count |-> next_count(u)]
    BY <1>2 DEF TypeOK, Advanced
  <2>2. PICK c : c = current
    OBVIOUS
  <2>3. /\ continues(u) => Cardinality(Run(u, 1, c)') = Cardinality(Run(u, 1, previous)) + 1
        /\ Cardinality(Run(u, 1, c)') >= 1
    BY <1>2, <2>1, <2>2, NewRunSize
  <2>4. /\ streaks[u].count <= Cardinality(Run(u, 1, streaks[u].stream))
        /\ Fits(streaks[u]) /\ streaks[u] \in Streak
    BY DEF AtMostEarned, CountsFit, Known, TypeOK
  <2>5. Cardinality(Run(u, 1, previous)) \in Nat /\ Cardinality(Run(u, 1, c)') \in Nat
    BY <2>2, RunIsFinite DEF TypeOK
  <2>6. next_count(u) <= Cardinality(Run(u, 1, c)')
    BY <2>3, <2>4, <2>5 DEF next_count, continues, Streak
  <2>7. next_count(u) <= c /\ c \in over'
    BY <2>1, <2>2, <2>4 DEF next_count, continues, Streak, TypeOK, Order, Fits, close_stream
  <2> QED
    BY <2>1, <2>2, <2>6, <2>7 DEF Fits
<1>3. CASE k = Advanced[u] /\ u \notin attendance
  <2>1. k \in Known(u)
    BY <1>3 DEF Advanced, Known
  <2> QED
    BY <1>1, <2>1
<1> QED
  BY <1>1, <1>2, <1>3

\* At the end of a stream, a count of this process is not below what it has seen.
LEMMA CloseAtLeast ==
  ASSUME TypeOK, Order, CountsFit, Baseline, AtLeastEarned, close_stream, phase # "down",
         since' = since
  PROVE  AtLeastEarned'
<1> USE StreamsAssumption DEF NoStream, Stream
<1> PICK f : f = since
  OBVIOUS
<1> SUFFICES ASSUME NEW u \in User, NEW k, k = Advanced[u], k.stream >= f
             PROVE  k.count >= Cardinality(Run(u, f, k.stream)')
  BY DEF AtLeastEarned, close_stream
<1>1. f \in Nat /\ f \in {1, since} /\ f >= 1
  BY DEF TypeOK
<1>2. /\ streaks[u].stream >= f =>
           streaks[u].count >= Cardinality(Run(u, f, streaks[u].stream))
      /\ Fits(streaks[u]) /\ streaks[u] \in Streak
  BY DEF AtLeastEarned, CountsFit, Known, TypeOK
<1>3. CASE u \notin attendance
  <2>1. k = streaks[u]
    BY <1>3 DEF Advanced
  <2>2. CASE current = NoStream
    <3>1. Run(u, f, k.stream)' = Run(u, f, k.stream)
      BY <2>2 DEF Run, close_stream
    <3> QED
      BY <1>2, <2>1, <3>1
  <2>3. CASE current # NoStream
    <3>1. current \in Nat /\ current > 0 /\ \A t \in over : t \in Nat /\ t < current
      BY <2>3 DEF TypeOK, Order
    <3>2. k.stream \in Nat /\ k.stream < current
      BY <1>2, <2>1, <3>1 DEF Fits
    <3>3. Run(u, f, k.stream)' = Run(u, f, k.stream)
      BY <1>1, <2>3, <3>2, OldRuns
    <3> QED
      BY <1>2, <2>1, <3>3
  <2> QED
    BY <2>2, <2>3
<1>4. CASE u \in attendance
  <2>1. current # NoStream /\ k = [stream |-> current, count |-> next_count(u)]
    BY <1>4 DEF TypeOK, Advanced
  <2> PICK c : c = current
    OBVIOUS
  <2>2. /\ continues(u) => Cardinality(Run(u, f, c)') = Cardinality(Run(u, f, previous)) + 1
        /\ ~continues(u) => Cardinality(Run(u, f, c)') = 1
    BY <1>1, <1>4, <2>1, NewRunSize
  <2>3. Cardinality(Run(u, f, previous)) \in Nat
    BY <1>1, RunIsFinite DEF TypeOK
  <2>4. next_count(u) >= Cardinality(Run(u, f, c)')
    BY <1>2, <2>2, <2>3 DEF next_count, continues, Streak, Baseline
  <2> QED
    BY <2>1, <2>4
<1> QED
  BY <1>3, <1>4

\* After the end of a stream, it is the one a streak continues from.
LEMMA CloseBaseline ==
  ASSUME TypeOK, Order, CountsFit, Baseline, close_stream, phase # "down", since' = since
  PROVE  Baseline'
<1> USE StreamsAssumption DEF NoStream, Stream
<1>1. CASE current = NoStream
  <2>1. attendance = {} /\ over' = over /\ seen' = seen /\ previous' = previous
    BY <1>1 DEF TypeOK, close_stream
  <2>2. streaks' = streaks
    BY <2>1 DEF close_stream, Advanced, TypeOK
  <2> QED
    BY <2>1, <2>2 DEF Baseline
<1>2. CASE current # NoStream
  <2>1. /\ previous' = current /\ over' = over \cup {current} /\ seen'[current] = attendance
        /\ current \in over' /\ current >= since' /\ \A s \in over' : s <= current
    <3>1. previous' = current /\ over' = over \cup {current} /\ seen'[current] = attendance
      BY <1>2 DEF TypeOK, close_stream
    <3>2. current >= since' /\ \A s \in over' : s <= current
      BY <1>2, <3>1 DEF TypeOK, Order
    <3> QED
      BY <3>1, <3>2
  <2>2. \A u \in User : streaks[u].stream # current
    <3>1. \A u \in User : Fits(streaks[u])
      BY DEF CountsFit, Known
    <3>2. current \notin over /\ current # NoStream
      BY <1>2 DEF Order
    <3> QED
      BY <3>1, <3>2 DEF Fits
  <2>3. \A u \in User : u \in attendance <=> streaks'[u].stream = current
    BY <2>2 DEF close_stream, Advanced
  <2> QED
    BY <1>2, <2>1, <2>3 DEF Baseline
<1> QED
  BY <1>1, <1>2

\* The end of a stream ends none that was not opened.
LEMMA CloseOrder ==
  ASSUME TypeOK, Order, close_stream
  PROVE  over' \subseteq Stream /\ \A s \in over' : s <= opened
<1>1. CASE current = NoStream
  <2>1. over' = over
    BY <1>1 DEF close_stream
  <2> QED
    BY <2>1 DEF TypeOK, Order
<1>2. CASE current # NoStream
  <2>1. over' = over \cup {current}
    BY <1>2 DEF close_stream
  <2>2. current \in Stream /\ current <= opened
    BY <1>2, StreamsAssumption DEF TypeOK, Order, NoStream, Stream
  <2> QED
    BY <2>1, <2>2 DEF TypeOK, Order
<1> QED
  BY <1>1, <1>2

\* At the end of a stream, whoever becomes the writer of its rows.
LEMMA CloseKeeps ==
  ASSUME IInv, close_stream, phase # "down", since' = since,
         \A u \in User : Known(u)' \subseteq Known(u) \cup {Advanced[u]}
  PROVE  CountsFit' /\ Baseline' /\ AtMostEarned' /\ AtLeastEarned' /\ CacheHolds'
<1>1. \A u \in User : \A k \in Known(u)' :
        Fits(k)' /\ k.count <= Cardinality(Run(u, 1, k.stream)')
  BY CloseFits DEF IInv
<1>2. CountsFit' /\ AtMostEarned'
  BY <1>1 DEF CountsFit, AtMostEarned
<1>3. AtLeastEarned' /\ Baseline'
  BY CloseAtLeast, CloseBaseline DEF IInv
<1>4. CacheHolds'
  BY DEF CacheHolds, close_stream, Forgotten
<1> QED
  BY <1>2, <1>3, <1>4

\* While no stream ends, a count that is only passed on, or dropped, stays good.
LEMMA OthersKeep ==
  ASSUME IInv, UNCHANGED <<seen, over>>,
         \A u \in User : Known(u)' \subseteq Known(u) \cup {NoStreak}
  PROVE  CountsFit' /\ AtMostEarned'
<1>1. \A u, f, s : Run(u, f, s)' = Run(u, f, s)
  BY DEF Run
<1>2. ASSUME NEW u \in User, NEW k \in Known(u)'
      PROVE  Fits(k)' /\ k.count <= Cardinality(Run(u, 1, k.stream)')
  <2>1. CASE k \in Known(u)
    <3>1. Fits(k) /\ k.count <= Cardinality(Run(u, 1, k.stream))
      BY <2>1 DEF IInv, CountsFit, AtMostEarned
    <3>2. Run(u, 1, k.stream)' = Run(u, 1, k.stream)
      BY <1>1
    <3> QED
      BY <3>1, <3>2 DEF Fits
  <2>2. CASE k = NoStreak
    <3>1. k.count = 0 /\ k.stream = 0
      BY <2>2 DEF NoStreak, NoStream
    <3>2. Cardinality(Run(u, 1, k.stream)') \in Nat
      BY <3>1, RunIsFinite
    <3> QED
      BY <3>1, <3>2 DEF Fits, NoStream
  <2> QED
    BY <1>2, <2>1, <2>2
<1> QED
  BY <1>2 DEF CountsFit, AtMostEarned

--------------------------------------------------------------------------------
(***************************************************************************)
(* Each action keeps the invariant.                                        *)
(***************************************************************************)
\* open_stream: a stream that was open ends, and the next one is the newest.
LEMMA OpenStream ==
  ASSUME IInv, NEW c \in Conn, open_stream(c)
  PROVE  IInv'
<1> USE StreamsAssumption DEF NoStream, Stream
<1>1. close_stream /\ phase # "down" /\ UNCHANGED <<phase, table, writes, boots, faults, since>>
  BY DEF open_stream, Running
<1>2. TypeOK'
  <2>1. /\ streaks' \in [User -> Streak] /\ previous' \in {NoStream} \cup Stream
        /\ attendance' = {} /\ cache' = [u \in User |-> 0]
        /\ seen' \in [Stream -> SUBSET User] /\ over' \subseteq Stream
    BY <1>1, CloseTypes DEF IInv
  <2>2. opened' \in 0 .. MaxStreams /\ current' \in Stream
    BY DEF open_stream, IInv, TypeOK
  <2>3. spoiled' \subseteq User /\ cache' \in [User -> 0 .. MaxStreams]
    BY <2>1 DEF open_stream, IInv, TypeOK
  <2> QED
    BY <1>1, <2>1, <2>2, <2>3 DEF IInv, TypeOK
<1>3. Order'
  <2>1. /\ current' = opened + 1 /\ opened' = opened + 1 /\ opened \in Nat
        /\ since \in Nat /\ since <= opened + 1 /\ phase' # "down"
    BY <1>1 DEF open_stream, IInv, TypeOK, Order
  <2>2. over' \subseteq Stream /\ \A s \in over' : s <= opened
    BY <1>1, CloseOrder DEF IInv
  <2>3. previous' \in Nat /\ previous' <= opened
    <3>1. previous = NoStream \/ previous \in over
      BY DEF IInv, Baseline
    <3>2. previous \in Nat /\ previous <= opened
      BY <3>1 DEF IInv, Order, TypeOK
    <3>3. current \in Nat /\ (current # NoStream => current <= opened)
      BY DEF IInv, Order, TypeOK
    <3> QED
      BY <1>1, <3>2, <3>3 DEF close_stream
  <2> QED
    BY <1>1, <2>1, <2>2, <2>3 DEF Order
<1>4. \A u \in User : Known(u)' \subseteq Known(u) \cup {Advanced[u]}
  BY <1>1 DEF Known, Rows, close_stream
<1> QED
  BY <1>1, <1>2, <1>3, <1>4, CloseKeeps DEF IInv

\* The end of a stream, by an adapter or on the way out.
LEMMA Flushed ==
  ASSUME IInv, NEW w \in Writer, Flush(w), phase # "down", phase' \in {"up", "exiting"},
         UNCHANGED <<opened, table, boots, faults, since>>
  PROVE  IInv'
<1> USE StreamsAssumption DEF NoStream, Stream
<1>1. close_stream /\ current' = NoStream /\ writes' = [writes EXCEPT ![w] = Updated]
  BY DEF Flush
<1>2. TypeOK'
  <2>1. /\ streaks' \in [User -> Streak] /\ previous' \in {NoStream} \cup Stream
        /\ attendance' = {} /\ cache' = [u \in User |-> 0]
        /\ seen' \in [Stream -> SUBSET User] /\ over' \subseteq Stream
        /\ Updated \subseteq Row
    BY <1>1, CloseTypes DEF IInv
  <2>2. writes' \in [Writer -> SUBSET Row]
    BY <1>1, <2>1 DEF IInv, TypeOK
  <2>3. spoiled' \subseteq User /\ cache' \in [User -> 0 .. MaxStreams]
    BY <2>1 DEF Flush, IInv, TypeOK
  <2> QED
    BY <1>1, <2>1, <2>2, <2>3 DEF IInv, TypeOK
<1>3. Order'
  <2>1. over' \subseteq Stream /\ \A s \in over' : s <= opened
    BY <1>1, CloseOrder DEF IInv
  <2> QED
    BY <1>1, <2>1 DEF IInv, Order
<1>4. \A u \in User : Known(u)' \subseteq Known(u) \cup {Advanced[u]}
  <2>1. Rows' \subseteq Rows \cup Updated
    BY <1>1 DEF Rows, IInv, TypeOK
  <2>2. \A r \in Updated : r.streak = Advanced[r.user]
    BY DEF Updated
  <2> QED
    BY <1>1, <2>1, <2>2 DEF Known, close_stream
<1> QED
  BY <1>1, <1>2, <1>3, <1>4, CloseKeeps DEF IInv

\* Ingest: who is seen changes no count.
LEMMA Ingested ==
  ASSUME IInv, NEW u \in User, Ingest(u)
  PROVE  IInv'
<1>1. UNCHANGED <<phase, opened, current, previous, streaks, cache, table, writes, boots,
                  faults, history, spoiled>>
  BY DEF Ingest
<1>2. attendance' \subseteq User /\ (current = NoStream => attendance' = attendance)
  BY DEF Ingest, note_attendance, IInv, TypeOK
<1>3. TypeOK'
  BY <1>1, <1>2 DEF IInv, TypeOK, history
<1>4. Order' /\ Baseline'
  BY <1>1 DEF IInv, Order, Baseline, history
<1>5. \A x \in User : Known(x)' \subseteq Known(x) \cup {NoStreak}
  BY <1>1 DEF Known, Rows
<1>6. CountsFit' /\ AtMostEarned'
  BY <1>1, <1>5, OthersKeep DEF history
<1>7. AtLeastEarned'
  BY <1>1 DEF IInv, AtLeastEarned, Run, history
<1>8. CacheHolds'
  BY <1>1 DEF IInv, CacheHolds, next_count, continues
<1> QED
  BY <1>3, <1>4, <1>6, <1>7, <1>8 DEF IInv

\* multiplier: the count that is asked for is the one the stream would end with.
LEMMA Multiplied ==
  ASSUME IInv, NEW u \in User, multiplier(u)
  PROVE  IInv'
<1> USE StreamsAssumption DEF NoStream, Stream
<1>1. /\ cache' = [cache EXCEPT ![u] = next_count(u)] /\ current # NoStream /\ phase # "down"
      /\ UNCHANGED <<phase, opened, current, previous, attendance, streaks, table, writes,
                     boots, faults, history, spoiled>>
  BY DEF multiplier, Running
<1>2. next_count(u) \in 0 .. MaxStreams
  <2>1. streaks[u] \in Streak /\ Fits(streaks[u])
    BY DEF IInv, TypeOK, CountsFit, Known
  <2>2. current \in Stream /\ previous < current /\ previous \in Nat
    BY <1>1 DEF IInv, TypeOK, Order
  <2> QED
    BY <2>1, <2>2 DEF next_count, continues, Streak, Fits
<1>3. TypeOK'
  BY <1>1, <1>2 DEF IInv, TypeOK, history
<1>4. Order' /\ Baseline'
  BY <1>1 DEF IInv, Order, Baseline, history
<1>5. \A x \in User : Known(x)' \subseteq Known(x) \cup {NoStreak}
  BY <1>1 DEF Known, Rows
<1>6. CountsFit' /\ AtMostEarned'
  BY <1>1, <1>5, OthersKeep DEF history
<1>7. AtLeastEarned'
  BY <1>1 DEF IInv, AtLeastEarned, Run, history
<1>8. CacheHolds'
  <2>1. \A x \in User : next_count(x)' = next_count(x)
    BY <1>1 DEF next_count, continues
  <2> QED
    BY <1>1, <2>1 DEF IInv, TypeOK, CacheHolds
<1> QED
  BY <1>3, <1>4, <1>6, <1>7, <1>8 DEF IInv

\* upsert_stream_streak: the row takes a count that was pending, or loses one.
LEMMA Upserted ==
  ASSUME IInv, NEW w \in Writer, upsert_stream_streak(w)
  PROVE  IInv'
<1>1. /\ UNCHANGED <<phase, opened, tracker, boots, history>>
      /\ phase # "down"
  BY DEF upsert_stream_streak, Running
<1>2. PICK r \in writes[w] :
        /\ writes' = [writes EXCEPT ![w] = @ \ {r}]
        /\ \/ /\ table' = [table EXCEPT ![r.user] = r.streak]
              /\ UNCHANGED <<faults, spoiled>>
           \/ /\ faults < MaxFaults /\ faults' = faults + 1
              /\ table' \in {table, [table EXCEPT ![r.user] = NoStreak]}
              /\ spoiled' = spoiled \cup {r.user}
  BY DEF upsert_stream_streak
<1>3. r \in Row /\ r.user \in User /\ r.streak \in Streak /\ NoStreak \in Streak
  BY StreamsAssumption DEF IInv, TypeOK, Row, Streak, NoStreak, NoStream, Stream
<1>4. table' \in [User -> Streak]
  BY <1>2, <1>3 DEF IInv, TypeOK
<1>5. TypeOK'
  <2>1. writes' \in [Writer -> SUBSET Row]
    BY <1>2 DEF IInv, TypeOK
  <2>2. faults' \in 0 .. MaxFaults /\ spoiled' \subseteq User
    BY <1>2, <1>3, StreamsAssumption DEF IInv, TypeOK
  <2> QED
    BY <1>1, <1>4, <2>1, <2>2 DEF IInv, TypeOK, tracker, history
<1>6. Order' /\ Baseline'
  BY <1>1 DEF IInv, Order, Baseline, tracker, history
<1>7. \A u \in User : Known(u)' \subseteq Known(u) \cup {NoStreak}
  <2>1. Rows' \subseteq Rows
    BY <1>2 DEF Rows, IInv, TypeOK
  <2>2. r \in Rows
    BY <1>2 DEF Rows
  <2>3. \A u \in User : table'[u] \in Known(u) \cup {NoStreak}
    BY <1>2, <1>3, <2>2 DEF Known, IInv, TypeOK
  <2> QED
    BY <1>1, <2>1, <2>3 DEF Known, tracker
<1>8. CountsFit' /\ AtMostEarned'
  BY <1>1, <1>7, OthersKeep DEF history
<1>9. AtLeastEarned'
  BY <1>1 DEF IInv, AtLeastEarned, Run, tracker, history
<1>10. CacheHolds'
  BY <1>1 DEF IInv, CacheHolds, next_count, continues, tracker
<1> QED
  BY <1>5, <1>6, <1>8, <1>9, <1>10 DEF IInv

\* Exit and Crash: the memory is empty, and the table has what it had, or less.
LEMMA Stopped ==
  ASSUME IInv, Stop, phase # "down",
         table' = table \/ \E u \in User : table' = [table EXCEPT ![u] = NoStreak]
  PROVE  IInv'
<1> USE StreamsAssumption DEF NoStream, Stream
<1>1. NoStreak \in Streak
  BY DEF NoStreak, Streak
<1>2. TypeOK'
  <2>1. table' \in [User -> Streak] /\ streaks' \in [User -> Streak]
    BY <1>1 DEF Stop, IInv, TypeOK
  <2>2. cache' = [u \in User |-> 0] /\ cache' \in [User -> 0 .. MaxStreams]
    BY DEF Stop, Forgotten
  <2>3. writes' \in [Writer -> SUBSET Row] /\ spoiled' \subseteq User
    BY DEF Stop, IInv, TypeOK, PendingUsers
  <2> QED
    BY <2>1, <2>2, <2>3 DEF Stop, IInv, TypeOK, history
<1>3. Order' /\ Baseline'
  BY DEF Stop, IInv, Order, Baseline, history
<1>4. \A u \in User : Known(u)' \subseteq Known(u) \cup {NoStreak}
  <2>1. Rows' = {}
    BY DEF Rows, Stop
  <2>2. \A u \in User : table'[u] \in Known(u) \cup {NoStreak}
    BY DEF Known, IInv, TypeOK
  <2> QED
    BY <2>1, <2>2 DEF Known, Stop
<1>5. CountsFit' /\ AtMostEarned'
  BY <1>4, OthersKeep DEF Stop, history
<1>6. AtLeastEarned'
  BY DEF AtLeastEarned, Stop, IInv, TypeOK, NoStreak, history
<1>7. CacheHolds'
  BY DEF CacheHolds, Stop, Forgotten
<1> QED
  BY <1>2, <1>3, <1>5, <1>6, <1>7 DEF IInv

\* Boot: the rows are of streams before this boot's first.
LEMMA Booted ==
  ASSUME IInv, Boot
  PROVE  IInv'
<1> USE StreamsAssumption DEF NoStream, Stream
<1>1. /\ phase = "down" /\ phase' = "up" /\ boots < MaxBoots /\ boots' = boots + 1
      /\ since' = opened + 1
      /\ UNCHANGED <<opened, current, previous, attendance, cache, table, writes, seen, over,
                     spoiled>>
      /\ streaks' \in {streaks, table}
      /\ faults' \in {faults, faults + 1} /\ (faults' # faults => faults < MaxFaults)
  BY DEF Boot, load_streaks, IInv, TypeOK
<1>2. TypeOK'
  BY <1>1 DEF IInv, TypeOK
<1>3. current' = NoStream /\ previous' = NoStream
  BY <1>1 DEF IInv, Order
<1>4. \A s \in over' : s \in Nat /\ s < since'
  BY <1>1 DEF IInv, Order, TypeOK
<1>5. Order' /\ Baseline'
  BY <1>1, <1>3, <1>4 DEF IInv, TypeOK, Order, Baseline
<1>6. \A u \in User : Known(u)' \subseteq Known(u) \cup {NoStreak}
  BY <1>1 DEF Known, Rows
<1>7. CountsFit' /\ AtMostEarned'
  BY <1>1, <1>6, OthersKeep
<1>8. AtLeastEarned'
  <2>1. \A u \in User : streaks'[u].stream \in over' \cup {NoStream}
    BY <1>7 DEF CountsFit, Known, Fits
  <2>2. since' \in Nat /\ since' > 0
    BY <1>1 DEF IInv, TypeOK
  <2>3. \A u \in User : ~(streaks'[u].stream >= since')
    BY <1>4, <2>1, <2>2
  <2> QED
    BY <2>3 DEF AtLeastEarned
<1>9. CacheHolds'
  <2>1. cache' = [u \in User |-> 0]
    BY <1>1, <1>3 DEF IInv, TypeOK
  <2> QED
    BY <2>1 DEF CacheHolds
<1> QED
  BY <1>2, <1>5, <1>7, <1>8, <1>9 DEF IInv

\* Every step keeps the invariant.
LEMMA StepKeeps == IInv /\ [Next]_vars => IInv'
<1> SUFFICES ASSUME IInv, [Next]_vars PROVE IInv'
  OBVIOUS
<1>1. ASSUME NEW c \in Conn, open_stream(c) PROVE IInv'
  BY <1>1, OpenStream
<1>2. ASSUME NEW c \in Conn, StreamEnds(c) PROVE IInv'
  <2>1. /\ Flush(c) /\ phase # "down" /\ phase' \in {"up", "exiting"} /\ c \in Writer
        /\ UNCHANGED <<opened, table, boots, faults, since>>
    BY <1>2 DEF StreamEnds, Running, Writer, IInv, TypeOK
  <2> QED
    BY <2>1, Flushed
<1>3. ASSUME NEW u \in User, Ingest(u) PROVE IInv'
  BY <1>3, Ingested
<1>4. ASSUME NEW u \in User, multiplier(u) PROVE IInv'
  BY <1>4, Multiplied
<1>5. ASSUME NEW w \in Writer, upsert_stream_streak(w) PROVE IInv'
  BY <1>5, Upserted
<1>6. ASSUME Shutdown PROVE IInv'
  <2>1. /\ Flush(Main) /\ phase # "down" /\ phase' \in {"up", "exiting"} /\ Main \in Writer
        /\ UNCHANGED <<opened, table, boots, faults, since>>
    BY <1>6 DEF Shutdown, FlushAtExit, Writer
  <2> QED
    BY <2>1, Flushed
<1>7. ASSUME Exit PROVE IInv'
  BY <1>7, Stopped DEF Exit
<1>8. ASSUME Crash PROVE IInv'
  BY <1>8, Stopped DEF Crash, Running, PendingUsers
<1>9. ASSUME Boot PROVE IInv'
  BY <1>9, Booted
<1>10. ASSUME UNCHANGED vars PROVE IInv'
  <2>1. /\ UNCHANGED <<phase, opened, current, previous, attendance, streaks, cache>>
        /\ UNCHANGED <<table, writes, boots, faults, seen, over, since, spoiled>>
    BY <1>10 DEF vars, tracker, history
  <2>2. TypeOK' /\ Order' /\ Baseline'
    BY <2>1 DEF IInv, TypeOK, Order, Baseline
  <2>3. \A u \in User : Known(u)' \subseteq Known(u) \cup {NoStreak}
    BY <2>1 DEF Known, Rows
  <2>4. CountsFit' /\ AtMostEarned'
    BY <2>1, <2>3, OthersKeep
  <2>5. AtLeastEarned'
    BY <2>1 DEF IInv, AtLeastEarned, Run
  <2>6. CacheHolds'
    BY <2>1 DEF IInv, CacheHolds, next_count, continues
  <2> QED
    BY <2>2, <2>4, <2>5, <2>6 DEF IInv
<1> QED
  BY <1>1, <1>2, <1>3, <1>4, <1>5, <1>6, <1>7, <1>8, <1>9, <1>10 DEF Next

\* At the first boot no one has a streak.
LEMMA InitKeeps == Init => IInv
<1> SUFFICES ASSUME Init PROVE IInv
  OBVIOUS
<1>1. TypeOK /\ Order /\ CountsFit /\ Baseline /\ CacheHolds
  BY InitOK
<1>2. \A u \in User : Known(u) = {NoStreak}
  BY DEF Known, Rows, Init
<1>3. AtMostEarned
  <2>1. \A u \in User : Cardinality(Run(u, 1, 0)) \in Nat
    BY RunIsFinite
  <2> QED
    BY <1>2, <2>1 DEF AtMostEarned, NoStreak, NoStream
<1>4. AtLeastEarned
  BY DEF AtLeastEarned, Init, NoStreak, NoStream
<1> QED
  BY <1>1, <1>3, <1>4 DEF IInv

\* What the proofs below rest on holds in every state.
THEOREM StreamsInductive == Spec => []IInv
<1>1. Init => IInv
  BY InitKeeps
<1>2. IInv /\ [Next]_vars => IInv'
  BY StepKeeps
<1> QED
  BY <1>1, <1>2, PTL DEF Spec

\* The tracker, the table and the rows on their way have their types, and no one
\* is in attendance without a stream.
THEOREM StreamsTypeCorrect == Spec => []TypeOK
<1>1. IInv => TypeOK
  BY DEF IInv
<1> QED
  BY <1>1, StreamsInductive, PTL

\* close_stream, upsert_stream_streak and load_streaks: no streak says more than
\* the user attended in a row, and none less than this process has seen.
THEOREM StreakEarned == Spec => []StreakIsEarned
<1>1. IInv => StreakIsEarned
  BY DEF IInv, StreakIsEarned, AtMostEarned, AtLeastEarned, Known
<1> QED
  BY <1>1, StreamsInductive, PTL

\* multiplier against close_stream: the count a user was paid by is the count
\* the stream ends with.
THEOREM StreakPaidAsCounted == Spec => PaidAsCounted
<1> DEFINE Paid == \A u \in attendance :
                     over' # over /\ cache[u] # 0 => streaks'[u].count = cache[u]
<1>1. ASSUME IInv, [Next]_vars PROVE Paid
  <2> SUFFICES ASSUME NEW u \in attendance, over' # over, cache[u] # 0
               PROVE  streaks'[u].count = cache[u]
    OBVIOUS
  <2>1. u \in User /\ cache[u] = next_count(u)
    BY <1>1 DEF IInv, TypeOK, CacheHolds
  <2>2. close_stream
    BY <1>1 DEF Next, vars, history, open_stream, StreamEnds, Shutdown, Flush, FlushAtExit,
       Ingest, multiplier, upsert_stream_streak, Exit, Crash, Stop, Boot
  <2> QED
    BY <2>1, <2>2 DEF close_stream, Advanced
<1>2. IInv /\ [Next]_vars => [Paid]_vars
  BY <1>1
<1> QED
  BY <1>2, StreamsInductive, PTL DEF Spec, PaidAsCounted

--------------------------------------------------------------------------------
(***************************************************************************)
(* What reaches the table.                                                 *)
(***************************************************************************)
IsLast(u, s) == s \in over /\ u \in seen[s] /\ \A t \in over : u \in seen[t] => t <= s

\* Whoever was seen has a last stream.
HasLast == \A u \in User : (\E s \in over : u \in seen[s]) => \E s \in over : IsLast(u, s)

\* The main task has rows to write on the way out only.
MainIsIdle == phase # "exiting" => writes[Main] = {}

\* A row on its way is of the last stream of its user, unless that row may be lost.
PendingIsLast ==
  \A u \in User \ spoiled : \A r \in Rows : r.user = u => r.streak.stream = Last(u)

SInv == HasLast /\ MainIsIdle /\ PendingIsLast /\ AttendanceIsSaved

\* The last stream is the one no later one is.
LEMMA LastIs ==
  ASSUME over \in SUBSET Nat, NEW u, NEW s, IsLast(u, s)
  PROVE  Last(u) = s
<1> DEFINE l == CHOOSE x \in over : u \in seen[x]
                  /\ \A t \in over : u \in seen[t] => t <= x
<1>1. s \in over /\ u \in seen[s] /\ \A t \in over : u \in seen[t] => t <= s
  BY DEF IsLast
<1>2. l \in over /\ u \in seen[l] /\ \A t \in over : u \in seen[t] => t <= l
  BY <1>1
<1>3. Last(u) = l
  BY <1>1 DEF Last
<1> HIDE DEF l
<1>4. l = s
  <2>1. l <= s /\ s <= l
    BY <1>1, <1>2
  <2>2. l \in Nat /\ s \in Nat
    BY <1>1, <1>2
  <2> QED
    BY <2>1, <2>2
<1> QED
  BY <1>3, <1>4

\* The same after a step.
LEMMA LastIsNext ==
  ASSUME over' \in SUBSET Nat, NEW u, NEW s, IsLast(u, s)'
  PROVE  Last(u)' = s
<1> DEFINE l == CHOOSE x \in over' : u \in seen'[x]
                  /\ \A t \in over' : u \in seen'[t] => t <= x
<1>1. s \in over' /\ u \in seen'[s] /\ \A t \in over' : u \in seen'[t] => t <= s
  BY DEF IsLast
<1>2. l \in over' /\ u \in seen'[l] /\ \A t \in over' : u \in seen'[t] => t <= l
  BY <1>1
<1>3. Last(u)' = l
  BY <1>1 DEF Last
<1> HIDE DEF l
<1>4. l = s
  <2>1. l <= s /\ s <= l
    BY <1>1, <1>2
  <2>2. l \in Nat /\ s \in Nat
    BY <1>1, <1>2
  <2> QED
    BY <2>1, <2>2
<1> QED
  BY <1>3, <1>4

\* A step that neither ends a stream nor forgets one leaves the last ones alone.
LEMMA LastStays ==
  ASSUME UNCHANGED <<seen, over>>, HasLast
  PROVE  HasLast' /\ \A u \in User : Last(u)' = Last(u)
BY DEF HasLast, IsLast, Last

\* The end of a stream makes it the last one of who was in it, and of no one else.
LEMMA LastAtClose ==
  ASSUME IInv, HasLast, close_stream, TypeOK'
  PROVE  /\ HasLast'
         /\ \A u \in User : Last(u)' = IF u \in attendance THEN current ELSE Last(u)
<1> USE StreamsAssumption DEF NoStream, Stream
<1>1. CASE current = NoStream
  <2>1. attendance = {} /\ over' = over /\ seen' = seen
    BY <1>1 DEF close_stream, IInv, TypeOK
  <2> QED
    BY <2>1, LastStays
<1>2. CASE current # NoStream
  <2>1. /\ over' = over \cup {current} /\ current \notin over
        /\ \A t \in over : t \in Nat /\ t < current /\ seen'[t] = seen[t]
        /\ seen'[current] = attendance /\ current \in Nat
    BY <1>2 DEF close_stream, IInv, TypeOK, Order
  <2>2. ASSUME NEW u \in User, u \in attendance, NEW c, c = current
        PROVE  c \in over' /\ IsLast(u, c)' /\ Last(u)' = c
    <3>1. c \in over' /\ IsLast(u, c)'
      BY <2>1, <2>2 DEF IsLast
    <3>2. over' \in SUBSET Nat
      BY DEF TypeOK
    <3>3. Last(u)' = c
      BY <3>1, <3>2, LastIsNext
    <3> QED
      BY <3>1, <3>3
  <2>3. ASSUME NEW u \in User, u \notin attendance, NEW s, IsLast(u, s)
        PROVE  IsLast(u, s)' /\ Last(u)' = Last(u)
    <3>1. IsLast(u, s)'
      BY <2>1, <2>3 DEF IsLast
    <3>2. over' \in SUBSET Nat /\ over \in SUBSET Nat
      BY DEF TypeOK, IInv
    <3>3. Last(u)' = s /\ Last(u) = s
      BY <2>3, <3>1, <3>2, LastIs, LastIsNext
    <3> QED
      BY <3>1, <3>3
  <2>4. ASSUME NEW u \in User, u \notin attendance
        PROVE  /\ (\E s \in over' : u \in seen'[s]) => \E s \in over : u \in seen[s]
               /\ Last(u)' = Last(u)
    <3>1. (\E s \in over' : u \in seen'[s]) => \E s \in over : u \in seen[s]
      BY <2>1, <2>4
    <3>2. CASE \E s \in over : u \in seen[s]
      <4>1. PICK s : IsLast(u, s)
        BY <3>2 DEF HasLast
      <4> QED
        BY <2>3, <2>4, <3>1, <4>1
    <3>3. CASE ~ \E s \in over : u \in seen[s]
      BY <3>1, <3>3 DEF Last
    <3> QED
      BY <3>1, <3>2, <3>3
  <2>5. HasLast'
    <3> SUFFICES ASSUME NEW u \in User, \E s \in over' : u \in seen'[s]
                 PROVE  \E s \in over' : IsLast(u, s)'
      BY DEF HasLast
    <3>1. CASE u \in attendance
      BY <2>2, <3>1
    <3>2. CASE u \notin attendance
      <4>1. PICK s : IsLast(u, s)
        BY <2>4, <3>2 DEF HasLast
      <4>2. IsLast(u, s)'
        BY <2>3, <3>2, <4>1
      <4> QED
        BY <4>2 DEF IsLast
    <3> QED
      BY <3>1, <3>2
  <2> QED
    BY <2>2, <2>4, <2>5
<1> QED
  BY <1>1, <1>2

\* Who has a row on its way.
LEMMA PendingRows ==
  /\ \A u \in User : Pending(u) <=> \E r \in Rows : r.user = u
  /\ \A u \in User : Pending(u)' <=> \E r \in Rows' : r.user = u
BY DEF Pending, Rows

\* open_stream: who was in the stream it closes is set aside.
LEMMA OpenSaves ==
  ASSUME IInv, SInv, TypeOK', NEW c \in Conn, open_stream(c)
  PROVE  SInv'
<1>1. /\ close_stream /\ UNCHANGED <<phase, table, writes>>
      /\ spoiled' = spoiled \cup attendance
  BY DEF open_stream
<1>2. HasLast' /\ \A u \in User \ spoiled' : Last(u)' = Last(u)
  BY <1>1, LastAtClose DEF SInv
<1>3. Rows' = Rows /\ \A u \in User : Pending(u)' = Pending(u)
  BY <1>1 DEF Rows, Pending
<1> QED
  BY <1>1, <1>2, <1>3 DEF SInv, MainIsIdle, PendingIsLast, AttendanceIsSaved

\* The end of a stream: a row for each who was in it, and no row of theirs is older.
LEMMA FlushSaves ==
  ASSUME IInv, SInv, TypeOK', NEW w \in Writer, Flush(w), writes[w] = {}, UNCHANGED table,
         MainIsIdle'
  PROVE  SInv'
<1>1. /\ close_stream /\ writes' = [writes EXCEPT ![w] = Updated]
      /\ spoiled' = (spoiled \ attendance) \cup (attendance \cap PendingUsers)
  BY DEF Flush
<1>2. /\ HasLast'
      /\ \A u \in User : Last(u)' = IF u \in attendance THEN current ELSE Last(u)
  BY <1>1, LastAtClose DEF SInv
<1>3. Rows' = Rows \cup Updated
  BY <1>1 DEF Rows, IInv, TypeOK
<1>4. PendingIsLast'
  <2> SUFFICES ASSUME NEW u \in User, u \notin spoiled', NEW r \in Rows', r.user = u
               PROVE  r.streak.stream = Last(u)'
    BY DEF PendingIsLast
  <2>1. CASE r \in Updated
    <3>1. u \in attendance /\ r.streak = Advanced[u]
      BY <2>1 DEF Updated
    <3>2. r.streak.stream = current
      BY <3>1 DEF Advanced
    <3> QED
      BY <1>2, <3>1, <3>2
  <2>2. CASE r \in Rows
    <3>1. u \in PendingUsers
      BY <2>2, PendingRows DEF PendingUsers
    <3>2. u \notin attendance /\ u \notin spoiled
      BY <1>1, <3>1
    <3>3. r.streak.stream = Last(u)
      BY <2>2, <3>2 DEF SInv, PendingIsLast
    <3> QED
      BY <1>2, <3>2, <3>3
  <2> QED
    BY <1>3, <2>1, <2>2
<1>5. AttendanceIsSaved'
  <2> SUFFICES ASSUME NEW u \in User, u \notin spoiled', ~Pending(u)'
               PROVE  table'[u].stream = Last(u)'
    BY DEF AttendanceIsSaved
  <2>1. u \notin attendance
    <3>1. u \in attendance => [user |-> u, streak |-> Advanced[u]] \in Rows'
      BY <1>3 DEF Updated
    <3> QED
      BY <3>1, PendingRows
  <2>2. ~Pending(u)
    BY <1>3, PendingRows
  <2>3. table[u].stream = Last(u)
    BY <1>1, <2>1, <2>2 DEF SInv, AttendanceIsSaved
  <2> QED
    BY <1>2, <2>1, <2>3
<1> QED
  BY <1>2, <1>4, <1>5 DEF SInv

\* upsert_stream_streak: the table says what the row said, or the user is set aside.
LEMMA UpsertSaves ==
  ASSUME IInv, SInv, NEW w \in Writer, upsert_stream_streak(w)
  PROVE  SInv'
<1>1. UNCHANGED <<phase, seen, over>>
  BY DEF upsert_stream_streak, history
<1>2. HasLast' /\ \A u \in User : Last(u)' = Last(u)
  BY <1>1, LastStays DEF SInv
<1>3. PICK r \in writes[w] :
        /\ writes' = [writes EXCEPT ![w] = @ \ {r}]
        /\ \/ /\ table' = [table EXCEPT ![r.user] = r.streak]
              /\ UNCHANGED <<faults, spoiled>>
           \/ /\ faults < MaxFaults /\ faults' = faults + 1
              /\ table' \in {table, [table EXCEPT ![r.user] = NoStreak]}
              /\ spoiled' = spoiled \cup {r.user}
  BY DEF upsert_stream_streak
<1>4. r \in Rows /\ r.user \in User
  BY <1>3 DEF Rows, IInv, TypeOK, Row
<1>5. Rows' \subseteq Rows /\ Rows \subseteq Rows' \cup {r}
  BY <1>3 DEF Rows, IInv, TypeOK
<1>6. MainIsIdle'
  <2>1. Main \in Writer /\ writes'[Main] \subseteq writes[Main]
    BY <1>3 DEF Writer, IInv, TypeOK
  <2> QED
    BY <1>1, <2>1 DEF SInv, MainIsIdle
<1>7. spoiled \subseteq spoiled'
  BY <1>3
<1>8. PendingIsLast'
  BY <1>2, <1>5, <1>7 DEF SInv, PendingIsLast
<1>9. AttendanceIsSaved'
  <2> SUFFICES ASSUME NEW u \in User, u \notin spoiled', ~Pending(u)'
               PROVE  table'[u].stream = Last(u)
    BY <1>2 DEF AttendanceIsSaved
  <2>1. CASE u = r.user
    <3>1. table' = [table EXCEPT ![u] = r.streak]
      BY <1>3, <2>1
    <3>2. r.streak.stream = Last(u)
      BY <1>4, <1>7, <2>1 DEF SInv, PendingIsLast
    <3> QED
      BY <3>1, <3>2 DEF IInv, TypeOK
  <2>2. CASE u # r.user
    <3>1. table'[u] = table[u]
      BY <1>3, <2>2 DEF IInv, TypeOK
    <3>2. ~Pending(u)
      BY <1>5, <2>2, PendingRows
    <3> QED
      BY <1>7, <3>1, <3>2 DEF SInv, AttendanceIsSaved
  <2> QED
    BY <2>1, <2>2
<1> QED
  BY <1>2, <1>6, <1>8, <1>9 DEF SInv

\* Exit and Crash: who had a row on its way is set aside.
LEMMA StopSaves ==
  ASSUME IInv, SInv, Stop,
         table' = table \/ \E u \in PendingUsers : table' = [table EXCEPT ![u] = NoStreak]
  PROVE  SInv'
<1>1. /\ UNCHANGED <<seen, over>> /\ writes' = [w \in Writer |-> {}]
      /\ spoiled' = spoiled \cup PendingUsers /\ phase' = "down"
  BY DEF Stop, history
<1>2. HasLast' /\ \A u \in User : Last(u)' = Last(u)
  BY <1>1, LastStays DEF SInv
<1>3. Rows' = {} /\ MainIsIdle'
  BY <1>1 DEF Rows, MainIsIdle, Writer
<1>4. \A u \in User \ spoiled' : ~Pending(u) /\ table'[u] = table[u]
  BY <1>1 DEF PendingUsers, IInv, TypeOK
<1> QED
  BY <1>1, <1>2, <1>3, <1>4 DEF SInv, PendingIsLast, AttendanceIsSaved

\* Any step that leaves the table, the rows and the ended streams alone.
LEMMA OthersSave ==
  ASSUME IInv, SInv, UNCHANGED <<seen, over, table, writes, spoiled>>,
         phase' = "exiting" => phase = "exiting", phase = "exiting" => phase' = "exiting"
  PROVE  SInv'
<1>1. HasLast' /\ \A u \in User : Last(u)' = Last(u)
  BY LastStays DEF SInv
<1>2. Rows' = Rows /\ \A u \in User : Pending(u)' = Pending(u)
  BY DEF Rows, Pending
<1> QED
  BY <1>1, <1>2 DEF SInv, MainIsIdle, PendingIsLast, AttendanceIsSaved

\* Every step saves.
LEMMA StepSaves == IInv /\ IInv' /\ SInv /\ [Next]_vars => SInv'
<1> SUFFICES ASSUME IInv, TypeOK', SInv, [Next]_vars PROVE SInv'
  BY DEF IInv
<1>1. ASSUME NEW c \in Conn, open_stream(c) PROVE SInv'
  BY <1>1, OpenSaves
<1>2. ASSUME NEW c \in Conn, StreamEnds(c) PROVE SInv'
  <2>1. c \in Writer /\ c # Main /\ Flush(c) /\ writes[c] = {} /\ UNCHANGED <<phase, table>>
    BY <1>2, StreamsAssumption DEF StreamEnds, Writer
  <2>2. MainIsIdle'
    BY <2>1 DEF SInv, MainIsIdle, Flush, IInv, TypeOK
  <2> QED
    BY <2>1, <2>2, FlushSaves
<1>3. ASSUME NEW u \in User, Ingest(u) PROVE SInv'
  BY <1>3, OthersSave DEF Ingest, history
<1>4. ASSUME NEW u \in User, multiplier(u) PROVE SInv'
  BY <1>4, OthersSave DEF multiplier, history
<1>5. ASSUME NEW w \in Writer, upsert_stream_streak(w) PROVE SInv'
  BY <1>5, UpsertSaves
<1>6. ASSUME Shutdown PROVE SInv'
  <2>1. Main \in Writer /\ Flush(Main) /\ writes[Main] = {} /\ UNCHANGED table /\ MainIsIdle'
    BY <1>6 DEF Shutdown, FlushAtExit, Writer, SInv, MainIsIdle
  <2> QED
    BY <2>1, FlushSaves
<1>7. ASSUME Exit PROVE SInv'
  BY <1>7, StopSaves DEF Exit
<1>8. ASSUME Crash PROVE SInv'
  BY <1>8, StopSaves DEF Crash
<1>9. ASSUME Boot PROVE SInv'
  BY <1>9, OthersSave DEF Boot
<1>10. ASSUME UNCHANGED vars PROVE SInv'
  BY <1>10, OthersSave DEF vars, history
<1> QED
  BY <1>1, <1>2, <1>3, <1>4, <1>5, <1>6, <1>7, <1>8, <1>9, <1>10 DEF Next

\* close_stream, upsert_stream_streak and process::exit: the last stream a user
\* was seen in is the one of the row, for every user whose rows were not lost.
THEOREM AttendanceSaved == Spec => []AttendanceIsSaved
<1>1. Init => SInv
  <2> SUFFICES ASSUME Init PROVE SInv
    OBVIOUS
  <2>1. HasLast /\ MainIsIdle /\ PendingIsLast
    BY DEF Init, HasLast, MainIsIdle, PendingIsLast, Rows, Writer
  <2>2. \A u \in User : Last(u) = NoStream /\ table[u].stream = NoStream
    BY DEF Init, Last, NoStreak
  <2> QED
    BY <2>1, <2>2 DEF SInv, AttendanceIsSaved
<1>2. IInv /\ IInv' /\ SInv /\ [Next]_vars => SInv'
  BY StepSaves
<1>3. SInv => AttendanceIsSaved
  BY DEF SInv
<1> QED
  BY <1>1, <1>2, <1>3, StreamsInductive, PTL DEF Spec

================================================================================
