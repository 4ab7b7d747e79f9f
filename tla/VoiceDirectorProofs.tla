------------------------- MODULE VoiceDirectorProofs -------------------------
(***************************************************************************)
(* What the Voice Director keeps for any channels, any number of attempts  *)
(* and any number of events: what it holds at each suspension of its       *)
(* fiber, which rooms it opens, and which reservations it leaves behind.   *)
(***************************************************************************)
EXTENDS VoiceDirector, TLAPS

------------------------------------------------------------------------------
(* What holds of the Director's fields, at and between its suspensions. *)

\* A session that is remembered for a moderator's disconnect is one of the channel
\* the user wants, and the Director has its lease or knows that it is lost.
Remembered(d) ==
  d.joined # None /\ d.intent # None =>
    d.joined.channel = d.intent /\ d.joined = IF d.committed THEN d.lease ELSE d.lost

\* What the Director holds at each suspension of its fiber.
Holds(d) ==
  /\ (d.pc = "reserve") = (d.op # None)
  /\ d.pc = "cancel" => d.held # None
  /\ d.committed => /\ d.pc = "idle" /\ d.lease # None /\ d.lease.channel = d.intent
                    /\ d.connection \in {"connected", "recovering"}
  /\ d.pc = "idle" /\ d.lease # None => d.committed
  /\ d.pc \in {"connect", "commit"} => d.lease # None
  /\ d.pc \in {"wait", "delay", "reserve", "disconnect", "cancel"} => d.lease = None

\* What it works for, unless another intent came meanwhile.
WorksFor(d) ==
  ~d.stale =>
    /\ d.pc \in {"connect", "commit"} => d.lease.channel = d.intent
    /\ d.pc = "reserve" => d.op.channel = d.intent
    /\ d.pc \in {"wait", "delay"} => d.intent # None
    /\ d.pc \in {"disconnect", "cancel"} =>
         d.then # "superseded" /\ (d.then = "left") = (d.intent = None)

\* What it does after a disconnect.
Goes(d) ==
  d.pc \in {"disconnect", "cancel"} =>
    d.then # "none" /\ (d.then = "retry" => d.index < MaxAttempts)

\* What it shows when it rests without a connection.
Told(d) == d.connection = IF d.intent = None THEN "disconnected" ELSE "failed"
Rests(d) == d.pc = "idle" /\ ~d.committed => Told(d)

Shares(d) == \A s \in d.share : s.channel \in {None, d.intent}

DirectorOK(d) ==
  d \in Director /\ Holds(d) /\ WorksFor(d) /\ Goes(d) /\ Rests(d) /\ Shares(d) /\ Remembered(d)

\* The lease of a forced move is for the channel the user wants, and is taken as soon
\* as the Director connects.
Forced(d) ==
  d.forced # None =>
    /\ d.intent \in {None, d.forced.channel} /\ ~d.committed
    /\ d.pc \notin {"reserve", "connect", "commit"}

\* The Director between two suspensions.
Ready(d) ==
  /\ d \in Director /\ d.op = None /\ Shares(d)
  /\ d.committed => d.lease # None
  /\ d.joined # None /\ d.intent # None => d.joined.channel = d.intent /\ d.joined = d.lost
  /\ d.forced # None => d.intent \in {None, d.forced.channel}

\* Where the fiber takes a lease from: the one it has, or that of a forced move, which
\* it no longer waits for then.
Leads(d, r) ==
  /\ r.since = d.since /\ r.latest = d.latest /\ ~r.committed
  /\ r.forced \in {None, d.forced}
  /\ r.forced # None => r.pc \notin {"reserve", "connect", "commit"}
  /\ r.lease \in {None, d.lease} \/ (r.lease = d.forced /\ r.forced = None)

\* What the operators leave as it was.
Follows(d, r) ==
  /\ r.intent = d.intent
  /\ d.lease = None \/ (r.pc = "disconnect" /\ r.held = d.lease)
  /\ r.pc \notin {"commit", "cancel"}
  /\ r.pc = "connect" => ~r.stale
  /\ r.pc = "reserve" => r.op.n = minted + 1
  /\ Leads(d, r)
  /\ \/ r.share = d.share \/ d.intent = None
     \/ d.lease # None /\ d.lease.channel # d.intent

\* None is an optional anything, and the first attempt is an attempt.
LEMMA Members ==
  /\ \A S : None \in Optional(S) /\ S \subseteq Optional(S)
  /\ {"idle", "wait", "delay", "reserve"} \subseteq Steps
  /\ {"connect", "commit", "disconnect", "cancel"} \subseteq Steps
  /\ 1 \in 1..MaxAttempts
BY BoundAssumption DEF Optional, Steps

\* Leaving the room suspends the fiber in a disconnect: of the lease's room,
\* and with the rest of the work remembered.
LEMMA DisconnectOK ==
  ASSUME NEW d, Ready(d),
         NEW next \in {"left", "terminal", "attempt", "retry", "failed", "superseded"},
         next = "retry" => d.index < MaxAttempts,
         ~d.stale => next # "superseded" /\ (next = "left") = (d.intent = None)
  PROVE  DirectorOK(Disconnect(d, next)) /\ Follows(d, Disconnect(d, next))
<1> DEFINE r == Disconnect(d, next)
<1> USE DEF Ready
<1>1. r \in Director BY Members DEF Disconnect, Director
<1>2. /\ r.pc = "disconnect" /\ r.held = d.lease /\ r.lease = None /\ ~r.committed /\ r.then = next
      /\ r.op = None /\ r.share = d.share /\ r.intent = d.intent /\ r.stale = d.stale
      /\ r.index = d.index /\ r.joined = d.joined /\ r.lost = d.lost /\ r.since = d.since
      /\ r.latest = d.latest /\ r.forced = d.forced
  BY DEF Disconnect, Director
<1> HIDE DEF r
<1>3. DirectorOK(r)
  BY <1>1, <1>2 DEF DirectorOK, Holds, WorksFor, Goes, Rests, Shares, Remembered
<1>4. Follows(d, r) BY <1>2 DEF Follows, Leads
<1> QED BY <1>3, <1>4 DEF r

\* A fiber whose work is done, or given up, rests.
LEMMA RestOK ==
  ASSUME NEW d, Ready(d), d.lease = None, Told(d)
  PROVE  DirectorOK(Rest(d)) /\ Follows(d, Rest(d))
<1> DEFINE r == Rest(d)
<1> USE DEF Ready
<1>1. r \in Director BY Members DEF Rest, Director
<1>2. /\ r.pc = "idle" /\ r.lease = None /\ r.committed = d.committed
      /\ r.op = None /\ r.share = d.share /\ r.intent = d.intent
      /\ r.joined = d.joined /\ r.lost = d.lost /\ r.since = d.since /\ r.latest = d.latest
      /\ r.forced = d.forced /\ r.connection = d.connection
  BY DEF Rest, Director
<1> HIDE DEF r
<1>3. DirectorOK(r)
  BY <1>1, <1>2 DEF DirectorOK, Holds, WorksFor, Goes, Rests, Told, Shares, Remembered
<1>4. Follows(d, r) BY <1>2 DEF Follows, Leads
<1> QED BY <1>3, <1>4 DEF r

\* A new operation is one of the channel it was made for.
LEMMA FreshOK ==
  ASSUME minted \in Nat, NEW c \in Channel, NEW moved \in BOOLEAN
  PROVE  Fresh(c, moved) \in Op /\ Fresh(c, moved) # None /\ Fresh(c, moved).channel = c
         /\ Fresh(c, moved).moved = moved /\ Fresh(c, moved).n = minted + 1
BY NoneAssumption DEF Fresh, Op

\* The Director connects under a lease of the channel it works for, and drops
\* a share of another channel.
LEMMA ConnectOK ==
  ASSUME minted \in Nat, NEW d, Ready(d), d.lease = None, d.intent # None, ~d.stale
  PROVE  DirectorOK(Connect(d)) /\ Follows(d, Connect(d))
<1> DEFINE e == [d EXCEPT !.connection = IF d.recovery THEN "recovering" ELSE "connecting",
                          !.committed = FALSE]
           r == Connect(d)
<1> USE DEF Ready
<1>1. e \in Director BY Members DEF Director
<1>2. /\ e.lease = None /\ ~e.committed /\ e.intent = d.intent /\ e.stale = d.stale /\ e.op = None
      /\ e.share = d.share /\ e.joined = d.joined /\ e.lost = d.lost /\ e.forced = d.forced
      /\ e.since = d.since /\ e.latest = d.latest
  BY DEF Director
<1>3. d.intent \in Channel /\ d.forced \in Optional(Op) BY DEF Director, Optional
<1>4. r = IF d.forced # None /\ d.forced.channel = d.intent
          THEN [e EXCEPT !.pc = "connect", !.lease = d.forced, !.forced = None]
          ELSE [e EXCEPT !.pc = "reserve", !.op = Fresh(d.intent, FALSE)]
  BY DEF Connect
<1> HIDE DEF e, r
<1>5. CASE d.forced # None /\ d.forced.channel = d.intent
  <2>1. r = [e EXCEPT !.pc = "connect", !.lease = d.forced, !.forced = None] BY <1>4, <1>5
  <2>2. r \in Director BY <2>1, <1>1, <1>3, Members DEF Director
  <2>3. /\ r.pc = "connect" /\ r.lease = d.forced /\ r.op = None /\ ~r.committed /\ r.intent = d.intent
        /\ r.stale = d.stale /\ r.share = d.share /\ r.joined = d.joined /\ r.lost = d.lost
        /\ r.forced = None /\ r.since = d.since /\ r.latest = d.latest
    BY <2>1, <1>1, <1>2 DEF Director
  <2>4. DirectorOK(r)
    BY <1>5, <2>2, <2>3 DEF DirectorOK, Holds, WorksFor, Goes, Rests, Shares, Remembered
  <2> QED BY <2>3, <2>4 DEF Follows, Leads, r
<1>6. CASE ~(d.forced # None /\ d.forced.channel = d.intent)
  <2>1. r = [e EXCEPT !.pc = "reserve", !.op = Fresh(d.intent, FALSE)] BY <1>4, <1>6
  <2>2. Fresh(d.intent, FALSE) \in Op /\ Fresh(d.intent, FALSE) # None
        /\ Fresh(d.intent, FALSE).channel = d.intent /\ Fresh(d.intent, FALSE).n = minted + 1
        /\ Fresh(d.intent, FALSE).moved = FALSE
    BY <1>3, FreshOK
  <2>3. r \in Director BY <2>1, <2>2, <1>1, Members DEF Director
  <2>4. /\ r.pc = "reserve" /\ r.op = Fresh(d.intent, FALSE) /\ r.lease = None /\ ~r.committed
        /\ r.intent = d.intent /\ r.stale = d.stale /\ r.share = d.share
        /\ r.joined = d.joined /\ r.lost = d.lost
        /\ r.forced = d.forced /\ r.since = d.since /\ r.latest = d.latest
    BY <2>1, <1>1, <1>2 DEF Director
  <2>5. DirectorOK(r)
    BY <2>2, <2>3, <2>4 DEF DirectorOK, Holds, WorksFor, Goes, Rests, Shares, Remembered
  <2>6. d.forced = None BY <1>6
  <2> QED BY <2>2, <2>4, <2>5, <2>6 DEF Follows, Leads, r
<1> QED BY <1>5, <1>6

\* A first attempt takes the lease of a forced move or reserves one.
LEMMA AttemptOK ==
  ASSUME minted \in Nat, NEW d, Ready(d), d.lease = None, d.intent # None, ~d.stale
  PROVE  DirectorOK(Attempt(d)) /\ Follows(d, Attempt(d))
<1>1. CASE ~d.recovery BY <1>1, ConnectOK DEF Attempt
<1>2. CASE d.recovery
  <2> DEFINE r == Attempt(d)
  <2> USE DEF Ready
  <2>1. r = [d EXCEPT !.connection = "recovering", !.pc = IF engine = "ready" THEN "delay" ELSE "wait"]
    BY <1>2 DEF Attempt
  <2> HIDE DEF r
  <2>2. r \in Director BY <2>1, Members DEF Director
  <2>3. /\ r.pc \in {"delay", "wait"} /\ r.lease = None /\ r.committed = d.committed /\ r.op = None
        /\ r.intent = d.intent /\ r.share = d.share /\ r.joined = d.joined /\ r.lost = d.lost
        /\ r.forced = d.forced /\ r.since = d.since /\ r.latest = d.latest
    BY <2>1 DEF Director
  <2>4. DirectorOK(r)
    BY <2>2, <2>3 DEF DirectorOK, Holds, WorksFor, Goes, Rests, Shares, Remembered
  <2> QED BY <2>3, <2>4 DEF Follows, Leads, r
<1> QED BY <1>1, <1>2

\* A reconciliation leaves the room, rests, or starts an attempt: whichever the
\* intent and the state of the connection ask for.
LEMMA ReconcileOK ==
  ASSUME minted \in Nat, NEW d, Ready(d),
         ~(d.lease # None /\ d.lease.channel = d.intent /\ d.committed
           /\ d.connection = "connected")
  PROVE  DirectorOK(Reconcile(d)) /\ Follows(d, Reconcile(d))
<1> DEFINE e == [d EXCEPT !.stale = FALSE, !.index = 1]
           f == [e EXCEPT !.share = {}]
           g == [e EXCEPT !.share = {}, !.connection = "disconnected"]
<1>1. /\ Ready(e) /\ e.lease = d.lease /\ e.intent = d.intent /\ ~e.stale /\ e.share = d.share
      /\ e.committed = d.committed /\ e.forced = d.forced /\ e.since = d.since
      /\ e.latest = d.latest
  <2>1. e \in Director BY Members DEF Director, Ready
  <2> QED BY <2>1 DEF Ready, Director, Shares
<1> HIDE DEF e
<1>2. /\ Ready(f) /\ f.lease = d.lease /\ f.intent = d.intent /\ ~f.stale
      /\ f.forced = d.forced /\ f.since = d.since /\ f.latest = d.latest
  <2>1. f \in Director BY <1>1 DEF Director, Ready
  <2> QED BY <1>1, <2>1 DEF Ready, Director, Shares
<1>3. /\ Ready(g) /\ g.lease = d.lease /\ g.intent = d.intent /\ ~g.stale
      /\ g.forced = d.forced /\ g.since = d.since /\ g.latest = d.latest
      /\ g.connection = "disconnected"
  <2>1. g \in Director BY <1>1 DEF Director, Ready
  <2> QED BY <1>1, <2>1 DEF Ready, Director, Shares
<1> HIDE DEF f, g
<1>4. CASE d.intent = None /\ d.lease = None
  <2>1. Reconcile(d) = Rest(g) BY <1>4 DEF Reconcile, e, g
  <2>2. DirectorOK(Rest(g)) /\ Follows(g, Rest(g)) BY <1>3, <1>4, RestOK DEF Told
  <2> QED BY <2>1, <2>2, <1>3, <1>4 DEF Follows, Leads
<1>5. CASE d.intent = None /\ d.lease # None
  <2>1. Reconcile(d) = Disconnect(f, "left") BY <1>5 DEF Reconcile, e, f
  <2>2. DirectorOK(Disconnect(f, "left")) /\ Follows(f, Disconnect(f, "left"))
    BY <1>2, <1>5, DisconnectOK
  <2> QED BY <2>1, <2>2, <1>2, <1>5 DEF Follows, Leads
<1>6. CASE d.intent # None /\ d.lease = None
  <2>1. Reconcile(d) = Attempt(e) BY <1>6 DEF Reconcile, e
  <2>2. DirectorOK(Attempt(e)) /\ Follows(e, Attempt(e)) BY <1>1, <1>6, AttemptOK
  <2> QED BY <2>1, <2>2, <1>1 DEF Follows, Leads
<1>7. CASE d.intent # None /\ d.lease # None
  <2>1. Reconcile(d) = Disconnect([e EXCEPT !.share = IF Cause(d) = "move" THEN {} ELSE @], "attempt")
    BY <1>7 DEF Reconcile, e
  <2>2. CASE Cause(d) = "move"
    <3>1. Reconcile(d) = Disconnect(f, "attempt") BY <2>1, <2>2 DEF f
    <3>2. DirectorOK(Disconnect(f, "attempt")) /\ Follows(f, Disconnect(f, "attempt"))
      BY <1>2, <1>7, DisconnectOK
    <3>3. d.lease.channel # d.intent BY <2>2 DEF Cause
    <3> QED BY <3>1, <3>2, <3>3, <1>2, <1>7 DEF Follows, Leads
  <2>3. CASE Cause(d) # "move"
    <3>1. [e EXCEPT !.share = @] = e BY <1>1 DEF Ready, Director
    <3>2. Reconcile(d) = Disconnect(e, "attempt") BY <2>1, <2>3, <3>1
    <3>3. DirectorOK(Disconnect(e, "attempt")) /\ Follows(e, Disconnect(e, "attempt"))
      BY <1>1, <1>7, DisconnectOK
    <3> QED BY <3>2, <3>3, <1>1 DEF Follows, Leads
  <2> QED BY <2>2, <2>3
<1> QED BY <1>4, <1>5, <1>6, <1>7

\* A fiber that is done reconciles again when newer work came meanwhile.
LEMMA ReturnOK ==
  ASSUME minted \in Nat, NEW d, Ready(d), d.lease = None, ~d.stale => Told(d)
  PROVE  DirectorOK(Return(d)) /\ Follows(d, Return(d))
BY ReconcileOK, RestOK DEF Return

\* After a disconnect the fiber goes on with what the disconnect was for.
LEMMA ProceedOK ==
  ASSUME minted \in Nat, NEW d, Ready(d), d.lease = None, d.then # "none",
         d.then = "retry" => d.index < MaxAttempts,
         ~d.stale => d.then # "superseded" /\ (d.then = "left") = (d.intent = None)
  PROVE  DirectorOK(Proceed(d)) /\ Follows(d, Proceed(d))
<1>1. ASSUME NEW c \in {"disconnected", "failed"}
      PROVE  LET e == [d EXCEPT !.connection = c] IN
             /\ Ready(e) /\ e.lease = None /\ (\A r : Follows(e, r) => Follows(d, r))
             /\ e.intent = d.intent /\ e.connection = c /\ e.stale = d.stale
  <2> DEFINE e == [d EXCEPT !.connection = c]
  <2>1. e \in Director BY DEF Director, Ready
  <2>2. /\ e.lease = None /\ e.intent = d.intent /\ e.share = d.share /\ e.op = d.op
        /\ e.joined = d.joined /\ e.lost = d.lost /\ e.committed = d.committed
        /\ e.forced = d.forced /\ e.since = d.since /\ e.latest = d.latest
        /\ e.connection = c /\ e.stale = d.stale
    BY DEF Director, Ready
  <2> HIDE DEF e
  <2>3. Ready(e) /\ e.lease = None BY <2>1, <2>2 DEF Ready, Shares
  <2>4. \A r : Follows(e, r) => Follows(d, r) BY <2>2 DEF Follows, Leads
  <2> QED BY <2>2, <2>3, <2>4 DEF e
<1>2. CASE d.then = "failed" BY <1>1, <1>2, ReturnOK DEF Proceed, Told
<1>3. CASE d.then # "failed" /\ (d.stale \/ d.then = "superseded") BY <1>3, ReturnOK DEF Proceed
<1>4. CASE ~d.stale /\ d.then = "left" BY <1>1, <1>4, RestOK DEF Proceed, Told
<1>5. CASE ~d.stale /\ d.then = "terminal" BY <1>1, <1>5, RestOK DEF Proceed, Told
<1>6. CASE ~d.stale /\ d.then = "attempt" BY <1>6, AttemptOK DEF Proceed
<1>7. CASE ~d.stale /\ d.then = "retry"
  <2> DEFINE e == [d EXCEPT !.index = IF engine = "ready" THEN @ + 1 ELSE @]
  <2>1. d.index \in 1..MaxAttempts /\ d.index < MaxAttempts BY <1>7 DEF Ready, Director
  <2>2. (IF engine = "ready" THEN d.index + 1 ELSE d.index) \in 1..MaxAttempts
    BY <2>1, BoundAssumption
  <2>3. e \in Director BY <2>2 DEF Ready, Director
  <2>4. /\ e.lease = None /\ e.intent = d.intent /\ e.share = d.share /\ e.op = d.op
        /\ e.joined = d.joined /\ e.lost = d.lost /\ e.committed = d.committed /\ e.stale = d.stale
        /\ e.forced = d.forced /\ e.since = d.since /\ e.latest = d.latest
    BY DEF Director, Ready
  <2>5. Proceed(d) = Attempt(e) BY <1>7 DEF Proceed
  <2> HIDE DEF e
  <2>6. Ready(e) BY <2>3, <2>4 DEF Ready, Shares
  <2>7. DirectorOK(Attempt(e)) /\ Follows(e, Attempt(e)) BY <2>4, <2>6, <1>7, AttemptOK
  <2> QED BY <2>4, <2>5, <2>7 DEF Follows, Leads
<1> QED BY <1>2, <1>3, <1>4, <1>5, <1>6, <1>7 DEF Ready, Director

\* What a step of the Director from d to r leaves as it was, besides the room.
Moves(d, r) ==
  /\ d.lease \in {None, r.lease} \/ (r.pc = "disconnect" /\ r.held = d.lease)
  /\ d.pc = "disconnect" /\ d.held # None => r.pc \in {"disconnect", "cancel"} /\ r.held = d.held
  /\ r.pc = "connect" /\ d.pc # "connect" => ~r.stale /\ d.lease = None
  /\ r.pc = "reserve" => IF d.pc = "reserve" THEN r.op = d.op ELSE r.op.n = minted + 1

\* A share ends only with its intent.
Survives(d, r) == r.intent = d.intent /\ d.intent # None => d.share \subseteq r.share

Stepped(d, r) == DirectorOK(r) /\ Forced(r) /\ Moves(d, r) /\ Survives(d, r)

\* Where a transition can fail.
Working == {"wait", "delay", "reserve", "connect", "commit"}

\* A transition that fails leaves its room first, for a retry or for good.
LEMMA FailOK ==
  ASSUME NEW d, DirectorOK(d), Forced(d), d.pc \in Working, NEW retryable \in BOOLEAN
  PROVE  /\ Stepped(d, Fail(d, retryable)) /\ Leads(d, Fail(d, retryable))
         /\ Fail(d, retryable).pc = "disconnect"
<1> DEFINE e == [d EXCEPT !.op = None]
           next == IF d.stale THEN "superseded"
                   ELSE IF retryable /\ d.recovery /\ d.index < MaxAttempts THEN "retry"
                   ELSE "failed"
           r == Fail(d, retryable)
<1>1. e \in Director BY Members DEF DirectorOK, Director
<1>2. /\ e.op = None /\ e.lease = d.lease /\ e.intent = d.intent /\ e.share = d.share
      /\ e.stale = d.stale /\ e.index = d.index /\ e.committed = d.committed
      /\ e.joined = d.joined /\ e.lost = d.lost /\ e.forced = d.forced /\ e.since = d.since
      /\ e.latest = d.latest
  BY DEF DirectorOK, Director
<1>3. r = Disconnect(e, next) BY DEF Fail
<1> HIDE DEF e, r
<1>4. ~d.committed BY DEF DirectorOK, Holds, Working
<1>5. Ready(e) BY <1>1, <1>2, <1>4 DEF Ready, DirectorOK, Forced, Shares, Remembered
<1>6. ~d.stale => d.intent # None
  BY NoneAssumption DEF DirectorOK, Director, Holds, WorksFor, Working, Optional, Op
<1>7. DirectorOK(r) /\ Follows(e, r)
  BY <1>2, <1>3, <1>5, <1>6, DisconnectOK
<1>8. r.pc = "disconnect" /\ r.held = d.lease /\ r.share = d.share /\ r.intent = d.intent
  BY <1>1, <1>2, <1>3 DEF Disconnect, Director
<1>9. Moves(d, r) /\ Survives(d, r) BY <1>8 DEF Moves, Survives, Working
<1>10. Leads(d, r) /\ Forced(r) BY <1>2, <1>7, <1>8 DEF Follows, Leads, Forced
<1> QED BY <1>7, <1>8, <1>9, <1>10 DEF Stepped, r

\* A connection whose room opened is committed, and the fiber rests under its
\* lease.
LEMMA CommittedOK ==
  ASSUME NEW d, DirectorOK(d), Forced(d), d.pc \in {"connect", "commit"}, ~d.stale
  PROVE  /\ Stepped(d, Committed(d)) /\ Committed(d).pc = "idle" /\ Committed(d).lease = d.lease
         /\ Committed(d).forced = None /\ Committed(d).since = d.since
         /\ Committed(d).latest = d.latest /\ Committed(d).connection = "connected"
<1> DEFINE r == Committed(d)
<1>1. r \in Director BY Members DEF DirectorOK, Director, Committed, Rest
<1>2. /\ r.pc = "idle" /\ r.lease = d.lease /\ r.committed /\ r.connection = "connected"
      /\ r.joined = d.lease /\ r.op = d.op /\ r.intent = d.intent /\ r.share = d.share
      /\ r.forced = None /\ r.since = d.since /\ r.latest = d.latest
  BY DEF DirectorOK, Director, Committed, Rest, Forced
<1> HIDE DEF r
<1>3. DirectorOK(r) /\ Forced(r)
  BY <1>1, <1>2 DEF DirectorOK, Holds, WorksFor, Goes, Rests, Shares, Remembered, Forced
<1>4. Moves(d, r) /\ Survives(d, r) BY <1>2 DEF Moves, Survives
<1> QED BY <1>2, <1>3, <1>4 DEF Stepped, r

\* The directors d and e differ in nothing that the invariant speaks of.
Same(d, e) ==
  /\ e.pc = d.pc /\ e.then = d.then /\ e.intent = d.intent /\ e.stale = d.stale
  /\ e.index = d.index /\ e.op = d.op /\ e.lease = d.lease /\ e.held = d.held /\ e.lost = d.lost
  /\ e.joined = d.joined /\ e.committed = d.committed /\ e.connection = d.connection
  /\ e.share = d.share

\* What differs in none of the fields the invariant speaks of steps alike.
LEMMA SameOK ==
  ASSUME NEW d, DirectorOK(d), NEW e \in Director, Same(d, e)
  PROVE  DirectorOK(e) /\ \A r : Stepped(e, r) => Stepped(d, r)
<1>1. DirectorOK(e)
  BY DEF Same, DirectorOK, Holds, WorksFor, Goes, Rests, Told, Shares, Remembered
<1>2. \A r : Stepped(e, r) => Stepped(d, r) BY DEF Same, Stepped, Moves, Survives
<1> QED BY <1>1, <1>2

\* A handler changes the intent and asks for a reconciliation: at once when the fiber
\* rests, else when it comes to it.
LEMMA WakeOK ==
  ASSUME minted \in Nat, NEW d, DirectorOK(d), NEW e, e \in Director,
         e.pc = d.pc, e.then = d.then, e.stale, e.op = d.op, e.lease = d.lease, e.held = d.held,
         e.committed = d.committed, e.index = d.index,
         Shares(e),
         e.joined # None /\ e.intent # None => e.joined.channel = e.intent /\ e.joined = e.lost,
         d.committed => e.lease.channel # e.intent \/ e.connection # "connected",
         Survives(d, e),
         e.intent = d.intent => ~d.committed \/ e.lease.channel = e.intent,
         e.forced # None => /\ e.intent \in {None, e.forced.channel}
                            /\ e.pc \notin {"reserve", "connect", "commit"}
  PROVE  /\ Stepped(d, Wake(e)) /\ Leads(e, Wake(e)) /\ Wake(e).intent = e.intent
         /\ d.op \in {None, Wake(e).op} /\ (d.pc # "idle" => Wake(e).pc = d.pc)
<1>1. CASE d.pc # "idle"
  <2>1. Wake(e) = e BY <1>1 DEF Wake
  <2>2. ~d.committed BY <1>1 DEF DirectorOK, Holds
  <2>3. DirectorOK(e)
    BY <1>1, <2>2 DEF DirectorOK, Holds, WorksFor, Goes, Rests, Shares, Remembered
  <2>4. Moves(d, e) BY DEF Moves
  <2>5. Leads(e, e) /\ Forced(e) BY <2>2 DEF Leads, Forced
  <2> QED BY <2>1, <2>3, <2>4, <2>5 DEF Stepped
<1>2. CASE d.pc = "idle"
  <2> DEFINE r == Reconcile(e)
  <2>1. Wake(e) = r BY <1>2 DEF Wake
  <2>2. d.op = None /\ Ready(e) BY <1>2 DEF DirectorOK, Holds, Ready
  <2>3. DirectorOK(r) /\ Follows(e, r) BY <2>2, ReconcileOK
  <2> HIDE DEF r
  <2>4. Moves(d, r) BY <1>2, <2>3 DEF Moves, Follows
  <2>5. Survives(d, r)
    <3>1. CASE r.share = e.share BY <2>3, <3>1 DEF Survives, Follows
    <3>2. CASE r.share # e.share /\ r.intent # None
      <4>1. e.lease # None /\ e.lease.channel # e.intent BY <2>3, <3>2 DEF Follows
      <4>2. d.committed BY <4>1, <1>2 DEF DirectorOK, Holds
      <4> QED BY <4>1, <4>2, <2>3 DEF Survives, Follows
    <3> QED BY <3>1, <3>2 DEF Survives
  <2>6. Forced(r) BY <2>2, <2>3 DEF Follows, Leads, Ready, Forced
  <2> QED BY <1>2, <2>1, <2>2, <2>3, <2>4, <2>5, <2>6 DEF Stepped, Follows
<1> QED BY <1>1, <1>2

\* A new intent forgets the session before it, and a share of another channel
\* is no longer one of this intent.
LEMMA SetIntentOK ==
  ASSUME minted \in Nat, NEW d, DirectorOK(d), NEW c \in Optional(Channel),
         d.committed => c # d.intent,
         d.forced # None => /\ c \in {None, d.forced.channel}
                            /\ d.pc \notin {"reserve", "connect", "commit"}
  PROVE  /\ Stepped(d, Wake(SetIntent(d, c))) /\ Leads(d, Wake(SetIntent(d, c)))
         /\ Wake(SetIntent(d, c)).intent = c
         /\ d.op \in {None, Wake(SetIntent(d, c)).op}
         /\ d.pc # "idle" => Wake(SetIntent(d, c)).pc = d.pc
<1> DEFINE s == ResetShare(d, c)
           e == SetIntent(d, c)
<1>1. s = [d EXCEPT !.share = IF d.intent \in {None, c} THEN @ ELSE {}]
  BY DEF ResetShare, DirectorOK, Director
<1> HIDE DEF s
<1>2. e = [s EXCEPT !.lost = None, !.joined = None, !.intent = c, !.recovery = FALSE, !.stale = TRUE]
  <2>1. e = Bump([s EXCEPT !.lost = None, !.joined = None, !.intent = c, !.recovery = FALSE])
    BY DEF SetIntent, s
  <2> QED BY <2>1 DEF Bump
<1>3. s \in Director BY <1>1 DEF DirectorOK, Director
<1>4. e \in Director BY <1>2, <1>3, Members DEF Director
<1>5. /\ e.pc = d.pc /\ e.then = d.then /\ e.stale /\ e.op = d.op /\ e.lease = d.lease
      /\ e.held = d.held /\ e.committed = d.committed /\ e.index = d.index
      /\ e.joined = None /\ e.intent = c /\ e.forced = d.forced /\ e.since = d.since
      /\ e.latest = d.latest
      /\ e.share = IF d.intent \in {None, c} THEN d.share ELSE {}
  BY <1>1, <1>2 DEF DirectorOK, Director
<1> HIDE DEF e
<1>6. Shares(e) BY <1>5 DEF Shares, DirectorOK
<1>7. Survives(d, e) BY <1>5 DEF Survives
<1>8. d.committed => e.lease.channel # e.intent BY <1>5 DEF DirectorOK, Holds
<1>9. e.intent = d.intent => ~d.committed BY <1>5
<1>10. \A r : Leads(e, r) => Leads(d, r) BY <1>5 DEF Leads
<1> QED BY <1>4, <1>5, <1>6, <1>7, <1>8, <1>9, <1>10, WakeOK DEF e

------------------------------------------------------------------------------
(* The whole system. *)

Asks(mode, o) == [mode |-> mode, op |-> o]
Request == [mode : {"join", "disconnect"}, op : Op]

\* Everything but the Director is in one of its states.
Typed ==
  /\ room \in Optional(Op) /\ stuck \in Optional(Op) /\ alarm \in Optional(Op)
  /\ engine \in {"ready", "recovering", "failed"}
  /\ pending \in Optional(Op) /\ member \in Optional(Op)
  /\ version \in Nat /\ published \subseteq Snapshot
  /\ requests \subseteq Request /\ answer \in Nat \cup {None}
  /\ moves \subseteq [from : Op, op : Op, version : Nat] /\ ejected \subseteq Op
  /\ minted \in Nat /\ events \in 0..MaxEvents

\* A room is open only under a lease or while it is left, or its end was not waited for.
Rooms ==
  /\ stuck \in {None, room}
  /\ director.lease = None /\ director.pc # "disconnect" => room = stuck

\* A claim of the client is the Director's, or is about to be taken back.
Claim(o) ==
  ~o.moved /\ (Asks("join", o) \in requests \/ pending = o) =>
    \/ o \in {director.op, director.lease}
    \/ director.pc = "disconnect" /\ o = director.held
    \/ Asks("disconnect", o) \in requests
Claims == \A o \in Op : Claim(o)

\* The inductive invariant.
IInv == Typed /\ DirectorOK(director) /\ Forced(director) /\ Rooms /\ Claims

\* A step asks for no operation that was made before.
Mints ==
  \/ minted' = minted /\ \A o : Asks("join", o) \in requests' => Asks("join", o) \in requests
  \/ /\ minted' = minted + 1
     /\ \A o : Asks("join", o) \in requests' => Asks("join", o) \in requests \/ o.n = minted + 1

\* Where the Director's lease comes from: it is the one it had, or that of the forced
\* move, or the one the authority answered with; and a forced move from where.
Leases(r) ==
  \/ /\ r.since = director.since /\ r.forced \in {None, director.forced}
     /\ r.lease \in {None, director.lease} \/ (r.lease = director.forced /\ r.forced = None)
  \/ /\ director.pc = "reserve" /\ answer \in Nat \ {0}
     /\ r.lease = director.op /\ r.since = answer /\ r.op = None /\ r.forced = None
  \/ \E m \in moves \ moves' : r.forced = m.op /\ r.since = m.version /\ r.lease = None

\* ... and what it knows of the snapshots; an operation to reserve is a new one.
Takes(r) == Leases(r) /\ (r.latest = director.latest \/ Snapshots)

Makes(r) ==
  r.pc = "reserve" => IF director.pc = "reserve" THEN r.op = director.op ELSE r.op.n = minted + 1

\* A connection is committed by a snapshot that shows its lease, and ended by a later
\* one that does not.
Commits(r) ==
  r.committed =>
    \/ r.connection = "connected" /\ r.latest.op = r.lease
    \/ director.committed /\ r.lease = director.lease /\ r.lease = room'
    \/ /\ director.committed /\ r.lease = director.lease /\ r.connection = director.connection
       /\ \/ r.latest = director.latest
          \/ r.connection # "connected"
          \/ r.latest.version <= director.since

\* When the Director steps, the requests it makes are claims it holds, or take
\* claims back.
LEMMA BecomeOK ==
  ASSUME IInv, NEW r, Stepped(director, r), NEW more,
         \A q \in more : \E o \in Op : q = Asks("disconnect", o),
         director.op \in {None, r.op, r.lease} \/ Asks("disconnect", director.op) \in more,
         Become(r, more), pending' = pending
  PROVE  /\ requests' \subseteq Request /\ minted' \in Nat /\ answer' \in Nat \cup {None}
         /\ DirectorOK(director') /\ Forced(director') /\ Claims' /\ Mints
<1> USE DEF IInv
<1>1. director' = r /\ DirectorOK(r) /\ Forced(r) BY DEF Become, Stepped
<1>2. r.pc = "reserve" => r.op \in Op
  BY <1>1 DEF DirectorOK, Holds, Director, Optional
<1>3. r.pc = "cancel" => r.held \in Op
  BY <1>1 DEF DirectorOK, Holds, Director, Optional
<1>4. requests' \subseteq Request /\ minted' \in Nat /\ answer' \in Nat \cup {None}
  <2>1. \A o \in Op : Asks("join", o) \in Request /\ Asks("disconnect", o) \in Request
    BY DEF Asks, Request
  <2>2. requests' = requests \cup more
          \cup {Asks("join", o) :
                  o \in IF r.pc = "reserve" /\ director.pc # "reserve" THEN {r.op} ELSE {}}
          \cup {Asks("disconnect", o) :
                  o \in IF r.pc = "cancel" /\ director.pc # "cancel" THEN {r.held} ELSE {}}
    BY DEF Become, Asks
  <2>3. requests' \subseteq Request BY <1>2, <1>3, <2>1, <2>2 DEF Typed
  <2> QED BY <2>3 DEF Become, Typed
<1>5. ASSUME NEW o \in Op PROVE Claim(o)'
  <2>1. requests \cup more \subseteq requests'
    BY DEF Become
  <2>2. Asks("join", o) \in requests' =>
          Asks("join", o) \in requests \/ (r.pc = "reserve" /\ o = r.op)
    BY DEF Become, Asks
  <2>3. r.pc = "cancel" /\ director.pc # "cancel" => Asks("disconnect", r.held) \in requests'
    BY DEF Become, Asks
  <2>4. SUFFICES ASSUME ~o.moved, Asks("join", o) \in requests \/ pending = o,
                        Asks("disconnect", o) \notin requests'
                 PROVE  o \in {r.op, r.lease} \/ (r.pc = "disconnect" /\ o = r.held)
    BY <1>1, <2>2 DEF Claim, Asks
  <2>5. \/ o \in {director.op, director.lease}
        \/ director.pc = "disconnect" /\ o = director.held
    BY <2>1, <2>4 DEF Claims, Claim, Asks
  <2>6. o # None BY NoneAssumption
  <2>7. CASE o = director.op BY <2>1, <2>4, <2>6, <2>7
  <2>8. CASE o = director.lease BY <2>6, <2>8 DEF Stepped, Moves
  <2>9. CASE director.pc = "disconnect" /\ o = director.held
    <3>1. r.pc \in {"disconnect", "cancel"} /\ r.held = o BY <2>6, <2>9 DEF Stepped, Moves
    <3> QED BY <2>3, <2>4, <2>9, <3>1
  <2> QED BY <2>5, <2>7, <2>8, <2>9
<1>6. Mints
  <2>1. \A o : Asks("join", o) \in requests' =>
          Asks("join", o) \in requests \/ (r.pc = "reserve" /\ director.pc # "reserve" /\ o = r.op)
    BY DEF Become, Asks
  <2>2. minted' = IF r.pc = "reserve" /\ director.pc # "reserve" THEN minted + 1 ELSE minted
    BY DEF Become
  <2> QED BY <2>1, <2>2 DEF Mints, Stepped, Moves
<1> QED BY <1>1, <1>4, <1>5, <1>6 DEF Claims

\* A camera or a screen that ends was switched off, or its window was closed.
Switched ==
  \A s \in director.share \ director'.share :
    SetShare(s.media) \/ (s.media = "screen" /\ SourceEnds)

\* What the properties of a step say.
Obeys ==
  /\ Mints /\ Takes(director') /\ Makes(director') /\ Commits(director')
  /\ Connects => /\ room' = stuck' /\ director'.lease.channel = director'.intent
                 /\ \A s \in director'.share : s.channel \in {None, director'.intent}
  /\ Survives(director, director') \/ Switched

\* The Director steps and the room stays as it is.
LEMMA QuietStep ==
  ASSUME IInv, NEW r, Stepped(director, r), director' = r,
         director.pc = "disconnect" => r.pc = "disconnect",
         room' = room, stuck' = stuck, Mints, Takes(r), Commits(r)
  PROVE  Rooms' /\ Obeys
<1> USE DEF IInv
<1>1. Rooms' BY DEF Rooms, Stepped, Moves
<1>2. Connects => room' = stuck' BY DEF Connects, Rooms, Stepped, Moves
<1>3. Connects => director'.lease.channel = director'.intent
                  /\ \A s \in director'.share : s.channel \in {None, director'.intent}
  BY DEF Connects, Stepped, Moves, DirectorOK, WorksFor, Shares
<1> QED BY <1>1, <1>2, <1>3 DEF Obeys, Stepped, Moves, Makes

\* A handler that only asks for a reconciliation.
LEMMA ObeyOK ==
  ASSUME IInv, NEW e, Obey(e), Stepped(director, Wake(e)), director.op \in {None, Wake(e).op},
         NEW d, Leads(d, Wake(e)), d.since = director.since, d.latest = director.latest, d.lease = director.lease,
         d.forced \in {None, director.forced},
         director.pc # "idle" => Wake(e).pc = director.pc
  PROVE  IInv' /\ Obeys
<1> DEFINE r == Wake(e)
<1>1. Become(r, {}) /\ UNCHANGED <<rtc, authority, inbox>> /\ events' \in 0..MaxEvents
  BY BoundAssumption DEF Obey, Event, IInv, Typed
<1>2. director' = r BY <1>1 DEF Become
<1> HIDE DEF r
<1>3. /\ requests' \subseteq Request /\ minted' \in Nat /\ answer' \in Nat \cup {None}
      /\ DirectorOK(director') /\ Forced(director') /\ Claims' /\ Mints
  BY <1>1, BecomeOK DEF authority, r
<1>4. Takes(r) /\ Commits(r) BY DEF r, Leads, Takes, Leases, Commits
<1>5. Rooms' /\ Obeys BY <1>1, <1>2, <1>3, <1>4, QuietStep DEF rtc, r
<1>6. Typed' BY <1>1, <1>3 DEF IInv, Typed, rtc, authority, inbox
<1> QED BY <1>3, <1>5, <1>6 DEF IInv

\* The user's join.
LEMMA JoinStep == ASSUME IInv, NEW c \in Channel, Join(c) PROVE IInv' /\ Obeys
<1> DEFINE e == [director EXCEPT !.forced = None]
<1>1. /\ e \in Director /\ Same(director, e) /\ e.forced = None /\ e.since = director.since /\ e.latest = director.latest
  BY Members DEF IInv, DirectorOK, Director, Same
<1> HIDE DEF e
<1>2. DirectorOK(e) /\ \A r : Stepped(e, r) => Stepped(director, r) BY <1>1, SameOK DEF IInv
<1>3. e.committed => c # e.intent
  BY <1>1, <1>2 DEF Join, Same, DirectorOK, Holds
<1>4. c \in Optional(Channel) BY DEF Optional
<1>5. Stepped(e, Wake(SetIntent(e, c))) /\ Leads(e, Wake(SetIntent(e, c)))
      /\ e.op \in {None, Wake(SetIntent(e, c)).op}
      /\ (e.pc # "idle" => Wake(SetIntent(e, c)).pc = e.pc)
  BY <1>1, <1>2, <1>3, <1>4, SetIntentOK DEF IInv, Typed
<1>6. Obey(SetIntent(e, c)) BY DEF Join, e
<1> QED BY <1>1, <1>2, <1>5, <1>6, ObeyOK DEF Same

\* The user's leave.
LEMMA LeaveStep == ASSUME IInv, Leave PROVE IInv' /\ Obeys
<1> DEFINE e == [director EXCEPT !.forced = None]
<1>1. /\ e \in Director /\ Same(director, e) /\ e.forced = None /\ e.since = director.since /\ e.latest = director.latest
  BY Members DEF IInv, DirectorOK, Director, Same
<1> HIDE DEF e
<1>2. DirectorOK(e) /\ \A r : Stepped(e, r) => Stepped(director, r) BY <1>1, SameOK DEF IInv
<1>3. e.committed => None # e.intent
  BY <1>2, NoneAssumption DEF DirectorOK, Holds, Director, Optional, Op
<1>4. Stepped(e, Wake(SetIntent(e, None))) /\ Leads(e, Wake(SetIntent(e, None)))
      /\ e.op \in {None, Wake(SetIntent(e, None)).op}
      /\ (e.pc # "idle" => Wake(SetIntent(e, None)).pc = e.pc)
  BY <1>1, <1>2, <1>3, Members, SetIntentOK DEF IInv, Typed
<1>5. Obey(SetIntent(e, None)) BY DEF Leave, e
<1> QED BY <1>1, <1>2, <1>4, <1>5, ObeyOK DEF Same

\* The user's retry after a failure.
LEMMA RetryStep == ASSUME IInv, RetryVoice PROVE IInv' /\ Obeys
<1> DEFINE e == Bump([director EXCEPT !.recovery = FALSE, !.forced = None])
<1> USE DEF IInv
<1>1. e \in Director BY Members DEF DirectorOK, Director, Bump
<1>2. /\ e.pc = director.pc /\ e.then = director.then /\ e.stale /\ e.op = director.op
      /\ e.lease = director.lease /\ e.held = director.held /\ e.committed = director.committed
      /\ e.index = director.index /\ e.share = director.share /\ e.intent = director.intent
      /\ e.joined = director.joined /\ e.lost = director.lost /\ e.forced = None
      /\ e.since = director.since /\ e.latest = director.latest
  BY DEF DirectorOK, Director, Bump
<1>3. Obey(e) BY DEF RetryVoice
<1> HIDE DEF e
<1>4. ~director.committed BY DEF RetryVoice, DirectorOK, Holds
<1>5. Stepped(director, Wake(e)) /\ Leads(e, Wake(e)) /\ director.op \in {None, Wake(e).op}
      /\ (director.pc # "idle" => Wake(e).pc = director.pc)
  BY <1>1, <1>2, <1>4, WakeOK DEF Typed, DirectorOK, Shares, Survives, Remembered
<1> QED BY <1>2, <1>3, <1>5, ObeyOK

\* The Director is shut down.
LEMMA ShutdownStep == ASSUME IInv, Shutdown PROVE IInv' /\ Obeys
<1> DEFINE s == ResetShare(director, None)
           e == Bump([s EXCEPT !.intent = None, !.recovery = FALSE])
<1> USE DEF IInv
<1>1. s = [director EXCEPT !.share = IF director.intent = None THEN @ ELSE {}]
  BY DEF ResetShare, DirectorOK, Director
<1>2. Obey(e) BY DEF Shutdown
<1> HIDE DEF s
<1>3. s \in Director BY <1>1 DEF DirectorOK, Director
<1>4. e \in Director BY <1>3, Members DEF Director, Bump
<1>5. /\ e.pc = director.pc /\ e.then = director.then /\ e.stale /\ e.op = director.op
      /\ e.lease = director.lease /\ e.held = director.held /\ e.committed = director.committed
      /\ e.index = director.index /\ e.intent = None /\ e.forced = director.forced
      /\ e.since = director.since /\ e.latest = director.latest
      /\ e.share = IF director.intent = None THEN director.share ELSE {}
  BY <1>1 DEF DirectorOK, Director, Bump
<1> HIDE DEF e
<1>6. director.committed => e.lease.channel # e.intent /\ director.intent # None
  BY <1>5, NoneAssumption DEF DirectorOK, Holds, Director, Optional, Op
<1>7. /\ Stepped(director, Wake(e)) /\ Leads(e, Wake(e)) /\ director.op \in {None, Wake(e).op}
      /\ director.pc # "idle" => Wake(e).pc = director.pc
  BY <1>4, <1>5, <1>6, WakeOK DEF Typed, DirectorOK, Forced, Shares, Survives
<1> QED BY <1>2, <1>5, <1>7, ObeyOK

\* The user switches a camera or a screen, or the screen's window is closed.
LEMMA SwitchStep ==
  ASSUME IInv, (\E media \in Media : SetShare(media)) \/ SourceEnds PROVE IInv' /\ Obeys
<1> USE DEF IInv
<1>1. PICK S \in SUBSET [media : Media, channel : Optional(Channel)] :
        /\ director' = [director EXCEPT !.share = S]
        /\ \A s \in S : s \in director.share \/ s.channel = director.intent
        /\ \A s \in director.share \ S :
             SetShare(s.media) \/ (s.media = "screen" /\ SourceEnds)
  <2>1. CASE SourceEnds
    <3> DEFINE T == director.share \ Of("screen")
    <3>1. director' = [director EXCEPT !.share = T]
      BY <2>1 DEF SourceEnds, DirectorOK, Director
    <3>2. T \in SUBSET [media : Media, channel : Optional(Channel)]
      BY DEF DirectorOK, Director
    <3>3. T \subseteq director.share /\ \A s \in director.share \ T : s.media = "screen"
      BY DEF Of
    <3> HIDE DEF T
    <3> QED BY <2>1, <3>1, <3>2, <3>3
  <2>2. ASSUME NEW media \in Media, SetShare(media)
        PROVE  \E S \in SUBSET [media : Media, channel : Optional(Channel)] :
                 /\ director' = [director EXCEPT !.share = S]
                 /\ \A s \in S : s \in director.share \/ s.channel = director.intent
                 /\ \A s \in director.share \ S :
                      SetShare(s.media) \/ (s.media = "screen" /\ SourceEnds)
    <3> DEFINE T == IF Of(media) = {}
                    THEN director.share \cup {[media |-> media, channel |-> director.intent]}
                    ELSE director.share \ Of(media)
    <3>1. director' = [director EXCEPT !.share = T]
      BY <2>2 DEF SetShare, DirectorOK, Director
    <3>2. T \in SUBSET [media : Media, channel : Optional(Channel)]
      BY DEF DirectorOK, Director
    <3>3. /\ \A s \in T : s \in director.share \/ s.channel = director.intent
          /\ \A s \in director.share \ T : s.media = media
      BY DEF Of
    <3> HIDE DEF T
    <3> QED BY <2>2, <3>1, <3>2, <3>3
  <2> QED BY <2>1, <2>2
<1> DEFINE r == [director EXCEPT !.share = S]
<1>2. r \in Director BY DEF DirectorOK, Director
<1>3. /\ r.pc = director.pc /\ r.then = director.then /\ r.intent = director.intent
      /\ r.stale = director.stale /\ r.index = director.index /\ r.op = director.op
      /\ r.lease = director.lease /\ r.held = director.held /\ r.lost = director.lost
      /\ r.joined = director.joined /\ r.committed = director.committed
      /\ r.connection = director.connection /\ r.share = S
      /\ r.forced = director.forced /\ r.since = director.since /\ r.latest = director.latest
  BY DEF DirectorOK, Director
<1>4. director' = r BY <1>1
<1> HIDE DEF r
<1>5. Shares(r) BY <1>1, <1>3 DEF Shares, DirectorOK
<1>6. DirectorOK(r) /\ Forced(r)
  BY <1>2, <1>3, <1>5 DEF DirectorOK, Holds, WorksFor, Goes, Rests, Told, Remembered, Forced
<1>7. /\ UNCHANGED <<rtc, authority, requests, answer, inbox, minted>>
      /\ events' \in 0..MaxEvents
  BY BoundAssumption DEF SetShare, SourceEnds, Event, Typed
<1>8. Typed' BY <1>7 DEF Typed, rtc, authority, inbox
<1>9. Rooms' /\ Claims' BY <1>3, <1>4, <1>7 DEF Rooms, Claims, Claim, Asks, rtc, authority
<1>10. Switched BY <1>1, <1>3, <1>4 DEF Switched
<1>11. Obeys
  BY <1>3, <1>4, <1>7, <1>10 DEF Obeys, Connects, Mints, Takes, Leases, Makes, Commits, rtc
<1> QED BY <1>4, <1>6, <1>8, <1>9, <1>11

------------------------------------------------------------------------------
(* The fiber. *)

\* A suspension ends and the room stays as it is.
LEMMA FiberOK ==
  ASSUME IInv, NEW r, Stepped(director, r), director.pc = "disconnect" => r.pc = "disconnect",
         NEW more, \A q \in more : \E o \in Op : q = Asks("disconnect", o),
         director.op \in {None, r.op, r.lease} \/ Asks("disconnect", director.op) \in more,
         Become(r, more), Outside, events' \in 0..MaxEvents, Takes(r), Commits(r)
  PROVE  IInv' /\ Obeys
<1>1. /\ requests' \subseteq Request /\ minted' \in Nat /\ answer' \in Nat \cup {None}
      /\ DirectorOK(director') /\ Forced(director') /\ Claims' /\ Mints
  BY BecomeOK DEF Outside, authority
<1>2. Rooms' /\ Obeys BY <1>1, QuietStep DEF Outside, rtc, Become
<1>3. Typed' BY <1>1 DEF IInv, Typed, Outside, rtc, authority, inbox
<1> QED BY <1>1, <1>2, <1>3 DEF IInv

\* Counting an event stays in its bound.
LEMMA Events ==
  ASSUME IInv, UNCHANGED events \/ Event
  PROVE  events' \in 0..MaxEvents
BY BoundAssumption DEF IInv, Typed, Event

\* A transition fails.
LEMMA FailStep ==
  ASSUME IInv, director.pc \in Working, NEW retryable \in BOOLEAN, NEW more,
         \A q \in more : \E o \in Op : q = Asks("disconnect", o),
         director.op = None \/ Asks("disconnect", director.op) \in more,
         Become(Fail(director, retryable), more), Outside, events' \in 0..MaxEvents
  PROVE  IInv' /\ Obeys
<1> DEFINE r == Fail(director, retryable)
<1>1. Stepped(director, r) /\ Leads(director, r) /\ r.pc = "disconnect"
  BY FailOK DEF IInv
<1> HIDE DEF r
<1>2. Takes(r) /\ Commits(r) BY <1>1 DEF Leads, Takes, Leases, Commits
<1>3. Become(r, more) BY DEF r
<1> QED BY <1>1, <1>2, <1>3, FiberOK

\* Nothing is reserved at any other suspension.
LEMMA NothingReserved ==
  ASSUME IInv, director.pc # "reserve" PROVE director.op = None
BY DEF IInv, DirectorOK, Holds

\* The engine is available again, or the wait for it ends.
LEMMA WaitStep == ASSUME IInv, WaitEnds PROVE IInv' /\ Obeys
<1> USE DEF WaitEnds
<1>1. director.pc \in Working /\ events' \in 0..MaxEvents /\ director.op = None
  BY Events, NothingReserved DEF Working
<1>2. ASSUME NEW retryable \in BOOLEAN, Become(Fail(director, retryable), {}) PROVE IInv' /\ Obeys
  BY <1>1, <1>2, FailStep
<1>3. CASE ~director.stale /\ Become([director EXCEPT !.pc = "delay"], {})
  <2> DEFINE r == [director EXCEPT !.pc = "delay"]
  <2>1. r \in Director BY Members DEF IInv, DirectorOK, Director
  <2>2. /\ r.pc = "delay" /\ r.intent = director.intent /\ r.stale = director.stale
        /\ r.op = director.op /\ r.lease = director.lease /\ r.lost = director.lost
        /\ r.joined = director.joined /\ r.committed = director.committed
        /\ r.share = director.share
        /\ r.forced = director.forced /\ r.since = director.since /\ r.latest = director.latest
    BY DEF IInv, DirectorOK, Director
  <2>3. Become(r, {}) BY <1>3
  <2> HIDE DEF r
  <2>4. Stepped(director, r)
    BY <1>1, <2>1, <2>2 DEF IInv, DirectorOK, Holds, WorksFor, Goes, Rests, Shares, Remembered, Forced,
                            Stepped, Moves, Survives
  <2>5. Takes(r) /\ Commits(r)
    BY <1>1, <2>2 DEF Takes, Leases, Commits, IInv, DirectorOK, Holds, Working
  <2> QED BY <1>1, <2>2, <2>3, <2>4, <2>5, FiberOK
<1> QED BY <1>2, <1>3

\* The delay before a retry ends.
LEMMA DelayStep == ASSUME IInv, DelayEnds PROVE IInv' /\ Obeys
<1> USE DEF DelayEnds
<1>1. director.pc \in Working /\ events' \in 0..MaxEvents /\ director.op = None
  BY Events, NothingReserved DEF Working
<1>2. ASSUME NEW retryable \in BOOLEAN, Become(Fail(director, retryable), {}) PROVE IInv' /\ Obeys
  BY <1>1, <1>2, FailStep
<1>3. CASE ~director.stale
  <2> DEFINE r == Connect(director)
  <2>1. Ready(director) /\ director.lease = None /\ director.intent # None
    BY <1>1, <1>3 DEF IInv, DirectorOK, Holds, WorksFor, Remembered, Forced, Ready
  <2>2. DirectorOK(r) /\ Follows(director, r) BY <1>3, <2>1, ConnectOK DEF IInv, Typed
  <2>3. Become(r, {}) BY <1>3
  <2> HIDE DEF r
  <2>4. Forced(r) BY <2>1, <2>2 DEF Follows, Leads, Ready, Forced
  <2>5. Stepped(director, r) BY <2>1, <2>2, <2>4 DEF Stepped, Moves, Survives, Follows
  <2>6. Takes(r) /\ Commits(r) BY <2>2 DEF Follows, Leads, Takes, Leases, Commits
  <2> QED BY <1>1, <2>3, <2>5, <2>6, FiberOK
<1> QED BY <1>2, <1>3

\* The authority answers a request to join.
LEMMA ReserveStep == ASSUME IInv, ReserveEnds PROVE IInv' /\ Obeys
<1> USE DEF ReserveEnds
<1>1. director.pc \in Working /\ director.op \in Op
  BY DEF Working, IInv, DirectorOK, Holds, Director, Optional
<1>2. CASE /\ ~director.stale /\ answer \in Nat \ {0} /\ UNCHANGED events
           /\ Become([director EXCEPT !.pc = "connect", !.lease = director.op, !.op = None,
                                      !.since = answer], {})
  <2> DEFINE r == [director EXCEPT !.pc = "connect", !.lease = director.op, !.op = None,
                                   !.since = answer]
  <2>1. r \in Director BY <1>1, <1>2, Members DEF IInv, DirectorOK, Director
  <2>2. /\ r.pc = "connect" /\ r.intent = director.intent /\ r.stale = director.stale
        /\ r.op = None /\ r.lease = director.op /\ r.lost = director.lost
        /\ r.joined = director.joined /\ r.committed = director.committed
        /\ r.share = director.share /\ r.forced = director.forced /\ r.since = answer
        /\ r.latest = director.latest
    BY DEF IInv, DirectorOK, Director
  <2>3. Become(r, {}) BY <1>2
  <2> HIDE DEF r
  <2>4. Stepped(director, r)
    BY <1>1, <1>2, <2>1, <2>2, NoneAssumption
    DEF IInv, DirectorOK, Holds, WorksFor, Goes, Rests, Shares, Remembered, Forced, Stepped, Moves,
        Survives
  <2>5. events' \in 0..MaxEvents BY <1>2, Events
  <2>6. Takes(r) /\ Commits(r)
    BY <1>2, <2>2 DEF Takes, Leases, Commits, IInv, DirectorOK, Holds, Forced
  <2> QED BY <2>2, <2>3, <2>4, <2>5, <2>6, FiberOK
<1>3. ASSUME NEW retryable \in BOOLEAN, Become(Fail(director, retryable), Release(director.op)),
             UNCHANGED events \/ Event
      PROVE  IInv' /\ Obeys
  <2>1. Release(director.op) = {Asks("disconnect", director.op)} BY DEF Release, Asks
  <2> QED BY <1>1, <1>3, <2>1, Events, FailStep
<1> QED BY <1>2, <1>3

\* The engine opens the room, or fails to, or newer work interrupts it.
LEMMA ConnectStep == ASSUME IInv, ConnectEnds PROVE IInv' /\ Obeys
<1> USE DEF ConnectEnds
<1>1. director.pc \in Working /\ events' \in 0..MaxEvents /\ director.op = None
  BY Events, NothingReserved DEF Working
<1>2. CASE /\ ~director.stale /\ director.latest.op = director.lease
           /\ Become(Committed(director), {})
  <2> DEFINE r == Committed(director)
  <2>1. /\ Stepped(director, r) /\ r.pc = "idle" /\ r.lease = director.lease /\ r.forced = None
        /\ r.since = director.since /\ r.latest = director.latest /\ r.connection = "connected"
    BY <1>2, CommittedOK DEF IInv
  <2>2. Become(r, {}) BY <1>2
  <2> HIDE DEF r
  <2>3. Takes(r) /\ Commits(r) BY <1>2, <2>1 DEF Takes, Leases, Commits
  <2> QED BY <1>1, <2>1, <2>2, <2>3, FiberOK
<1>3. CASE ~director.stale /\ Become([director EXCEPT !.pc = "commit"], {})
  <2> DEFINE r == [director EXCEPT !.pc = "commit"]
  <2>1. r \in Director BY Members DEF IInv, DirectorOK, Director
  <2>2. /\ r.pc = "commit" /\ r.intent = director.intent /\ r.stale = director.stale
        /\ r.op = director.op /\ r.lease = director.lease /\ r.lost = director.lost
        /\ r.joined = director.joined /\ r.committed = director.committed
        /\ r.share = director.share
        /\ r.forced = director.forced /\ r.since = director.since /\ r.latest = director.latest
    BY DEF IInv, DirectorOK, Director
  <2>3. Become(r, {}) BY <1>3
  <2> HIDE DEF r
  <2>4. Stepped(director, r)
    BY <1>1, <2>1, <2>2 DEF IInv, DirectorOK, Holds, WorksFor, Goes, Rests, Shares, Remembered, Forced,
                            Stepped, Moves, Survives
  <2>5. Takes(r) /\ Commits(r)
    BY <1>1, <2>2 DEF Takes, Leases, Commits, IInv, DirectorOK, Holds, Working
  <2> QED BY <1>1, <2>2, <2>3, <2>4, <2>5, FiberOK
<1>4. ASSUME NEW retryable \in BOOLEAN, Become(Fail(director, retryable), {}) PROVE IInv' /\ Obeys
  BY <1>1, <1>4, FailStep
<1> QED BY <1>2, <1>3, <1>4

\* The connection is committed, unless newer work came.
LEMMA CommitStep == ASSUME IInv, CommitEnds PROVE IInv' /\ Obeys
<1>1. director.pc \in Working /\ events' \in 0..MaxEvents /\ director.op = None
  BY Events, NothingReserved DEF Working, CommitEnds
<1>2. ASSUME NEW retryable \in BOOLEAN, Become(Fail(director, retryable), {}) PROVE IInv' /\ Obeys
  BY <1>1, <1>2, FailStep DEF CommitEnds
<1> QED BY <1>2 DEF CommitEnds

\* Between a disconnect and what it was for.
LEMMA LeftOK ==
  ASSUME IInv, director.pc \in {"disconnect", "cancel"}, NEW d, d \in Director, d.held = None,
         d.then = director.then, d.intent = director.intent, d.stale = director.stale,
         d.index = director.index, d.op = director.op, d.lease = director.lease,
         d.lost = director.lost, d.joined = director.joined, d.committed = director.committed,
         d.share = director.share, d.forced = director.forced, d.since = director.since /\ d.latest = director.latest
  PROVE  /\ DirectorOK(Proceed(d)) /\ Forced(Proceed(d)) /\ Follows(d, Proceed(d))
         /\ director.lease = None /\ director.op = None /\ Survives(director, Proceed(d))
         /\ Takes(Proceed(d)) /\ Commits(Proceed(d))
<1>1. Ready(d) /\ d.lease = None
  BY DEF IInv, DirectorOK, Holds, Remembered, Forced, Ready, Shares
<1>2. /\ d.then # "none" /\ (d.then = "retry" => d.index < MaxAttempts)
      /\ ~d.stale => d.then # "superseded" /\ (d.then = "left") = (d.intent = None)
  BY DEF IInv, DirectorOK, WorksFor, Goes
<1>3. DirectorOK(Proceed(d)) /\ Follows(d, Proceed(d)) BY <1>1, <1>2, ProceedOK DEF IInv, Typed
<1>4. Survives(director, Proceed(d)) BY <1>1, <1>3 DEF Survives, Follows
<1>5. Takes(Proceed(d)) /\ Commits(Proceed(d)) BY <1>3 DEF Follows, Leads, Takes, Leases, Commits
<1>6. Forced(Proceed(d)) BY <1>1, <1>3 DEF Follows, Leads, Ready, Forced
<1> QED BY <1>1, <1>3, <1>4, <1>5, <1>6 DEF Ready

\* The engine has left the room, or missed the deadline for it.
LEMMA DisconnectStep == ASSUME IInv, DisconnectEnds PROVE IInv' /\ Obeys
<1> USE DEF DisconnectEnds
<1>1. /\ events' \in 0..MaxEvents /\ room' \in Optional(Op) /\ stuck' \in Optional(Op)
      /\ room' = stuck'
  BY Events, Members DEF IInv, Typed
<1> DEFINE r == IF director.held = None THEN Proceed(director) ELSE [director EXCEPT !.pc = "cancel"]
<1>2. /\ Stepped(director, r) /\ director.op = None /\ director.lease = None
      /\ Takes(r) /\ Commits(r)
  <2>1. CASE director.held = None
    <3>1. /\ DirectorOK(r) /\ Forced(r) /\ Follows(director, r) /\ Survives(director, r)
          /\ director.lease = None /\ director.op = None /\ Takes(r) /\ Commits(r)
      BY <2>1, LeftOK DEF IInv, DirectorOK
    <3> QED BY <2>1, <3>1 DEF Stepped, Moves, Follows
  <2>2. CASE director.held # None
    <3>1. r = [director EXCEPT !.pc = "cancel"] BY <2>2
    <3> HIDE DEF r
    <3>2. r \in Director BY <3>1, Members DEF IInv, DirectorOK, Director
    <3>3. /\ r.pc = "cancel" /\ r.intent = director.intent /\ r.stale = director.stale
          /\ r.op = director.op /\ r.lease = director.lease /\ r.lost = director.lost
          /\ r.joined = director.joined /\ r.committed = director.committed /\ r.then = director.then
          /\ r.share = director.share /\ r.held = director.held /\ r.index = director.index
          /\ r.forced = director.forced /\ r.since = director.since /\ r.latest = director.latest
      BY <3>1 DEF IInv, DirectorOK, Director
    <3>4. Stepped(director, r)
      BY <2>2, <3>2, <3>3
      DEF IInv, DirectorOK, Holds, WorksFor, Goes, Rests, Shares, Remembered, Forced, Stepped, Moves,
          Survives
    <3>5. Takes(r) /\ Commits(r) BY <3>3 DEF Takes, Leases, Commits, IInv, DirectorOK, Holds
    <3> QED BY <3>3, <3>4, <3>5 DEF IInv, DirectorOK, Holds
  <2> QED BY <2>1, <2>2
<1>3. Become(r, {}) OBVIOUS
<1> HIDE DEF r
<1>4. /\ requests' \subseteq Request /\ minted' \in Nat /\ answer' \in Nat \cup {None}
      /\ DirectorOK(director') /\ Forced(director') /\ Claims' /\ Mints
  BY <1>2, <1>3, BecomeOK DEF authority
<1>5. Typed' BY <1>1, <1>4 DEF IInv, Typed, authority, inbox
<1>6. Rooms' BY <1>1 DEF Rooms
<1>7. Obeys
  BY <1>1, <1>2, <1>3, <1>4 DEF Obeys, Connects, Become, Stepped, Moves, Makes, DirectorOK,
                              WorksFor, Shares
<1> QED BY <1>4, <1>5, <1>6, <1>7 DEF IInv

\* The claim of an abandoned attempt is taken back.
LEMMA CancelStep == ASSUME IInv, CancelEnds PROVE IInv' /\ Obeys
<1> DEFINE d == [director EXCEPT !.held = None]
           r == Proceed(d)
<1> USE DEF CancelEnds
<1>1. d \in Director BY Members DEF IInv, DirectorOK, Director
<1>2. /\ d.held = None /\ d.then = director.then /\ d.intent = director.intent
      /\ d.stale = director.stale /\ d.index = director.index /\ d.op = director.op
      /\ d.lease = director.lease /\ d.lost = director.lost /\ d.joined = director.joined
      /\ d.committed = director.committed /\ d.share = director.share
      /\ d.forced = director.forced /\ d.since = director.since /\ d.latest = director.latest
  BY DEF IInv, DirectorOK, Director
<1>3. Become(r, {}) OBVIOUS
<1> HIDE DEF d
<1>4. /\ DirectorOK(r) /\ Forced(r) /\ Follows(d, r) /\ Survives(director, r)
      /\ director.lease = None /\ director.op = None /\ Takes(r) /\ Commits(r)
  BY <1>1, <1>2, LeftOK
<1>5. Stepped(director, r) BY <1>4 DEF Stepped, Moves, Follows
<1>6. events' \in 0..MaxEvents BY Events
<1> QED BY <1>3, <1>4, <1>5, <1>6, FiberOK

------------------------------------------------------------------------------
(* Events of the authority and of the engine. *)

\* An event leaves the room and the reservation as they are.
LEMMA EventOK ==
  ASSUME IInv, NEW r, Stepped(director, r), director.pc = "disconnect" => r.pc = "disconnect",
         NEW more, \A q \in more : \E o \in Op : q = Asks("disconnect", o),
         director.op \in {None, r.op, r.lease}, Become(r, more),
         UNCHANGED <<room, stuck, engine, pending, member, version>>,
         alarm' \in Optional(Op), published' \subseteq published, moves' \subseteq moves,
         ejected' \subseteq ejected, UNCHANGED events, Takes(r), Commits(r)
  PROVE  IInv' /\ Obeys
<1>1. /\ requests' \subseteq Request /\ minted' \in Nat /\ answer' \in Nat \cup {None}
      /\ DirectorOK(director') /\ Forced(director') /\ Claims' /\ Mints
  BY BecomeOK
<1>2. Rooms' /\ Obeys BY <1>1, QuietStep DEF Become
<1>3. Typed' BY <1>1 DEF IInv, Typed
<1> QED BY <1>1, <1>2, <1>3 DEF IInv

\* The Director that does not care.
LEMMA IdleOK ==
  ASSUME IInv
  PROVE  Stepped(director, director) /\ Takes(director) /\ Commits(director)
BY DEF IInv, Stepped, Moves, Survives, Takes, Leases, Commits

\* A published snapshot of the account's state arrives, however late.
LEMMA SnapshotStep ==
  ASSUME IInv, NEW s \in published, SnapshotComes(s)
  PROVE  IInv' /\ Obeys /\ director'.latest = s
<1> USE DEF IInv
<1> DEFINE d == [director EXCEPT !.latest = s]
           commits == d.pc = "commit" /\ ~d.stale /\ s.op = d.lease
           ends == /\ d.committed /\ d.connection = "connected"
                   /\ s.op # d.lease /\ s.version > d.since
           r == IF commits THEN Committed(d) ELSE IF ends THEN Wake(SetIntent(d, None)) ELSE d
<1>1. /\ d \in Director /\ Same(director, d) /\ d.forced = director.forced
      /\ d.since = director.since /\ d.latest = s
  BY DEF DirectorOK, Director, Same, Typed
<1>2. Become(r, {}) BY DEF SnapshotComes
<1> HIDE DEF d
<1>3. DirectorOK(d) /\ Forced(d) /\ \A q : Stepped(d, q) => Stepped(director, q)
  BY <1>1, SameOK DEF Same, Forced
<1>4. /\ Stepped(director, r) /\ director.op \in {None, r.op} /\ Takes(r) /\ Commits(r)
      /\ director.pc = "disconnect" => r.pc = "disconnect"
      /\ r.latest = s
  <2>1. CASE commits
    <3>1. /\ Stepped(d, r) /\ r.pc = "idle" /\ r.lease = d.lease /\ r.forced = None
          /\ r.since = d.since /\ r.latest = d.latest /\ r.connection = "connected"
      BY <1>3, <2>1, CommittedOK
    <3>2. director.op = None BY <1>1, <2>1, NothingReserved DEF Same
    <3>3. Takes(r) /\ Commits(r) BY <1>1, <2>1, <3>1 DEF Same, Takes, Leases, Commits, Snapshots
    <3> QED BY <1>1, <1>3, <2>1, <3>1, <3>2, <3>3 DEF Same
  <2>2. CASE ~commits /\ ends
    <3>1. d.committed => None # d.intent
      BY <1>3, NoneAssumption DEF DirectorOK, Holds, Director, Optional, Op
    <3>2. /\ Stepped(d, r) /\ Leads(d, r) /\ d.op \in {None, r.op}
          /\ d.pc # "idle" => r.pc = d.pc
      BY <1>3, <2>2, <3>1, Members, SetIntentOK DEF Typed, Forced
    <3>3. Takes(r) /\ Commits(r) BY <1>1, <3>2 DEF Same, Leads, Takes, Leases, Commits, Snapshots
    <3> QED BY <1>1, <1>3, <2>2, <3>2, <3>3 DEF Same, Leads
  <2>3. CASE ~commits /\ ~ends
    <3>1. Stepped(d, d) BY <1>3 DEF Stepped, Moves, Survives
    <3>2. director.since \in Nat /\ s.version \in Nat BY DEF DirectorOK, Director, Typed, Snapshot
    <3>3. Takes(d) /\ Commits(d) BY <1>1, <2>3, <3>2 DEF Same, Takes, Leases, Commits, Snapshots
    <3> QED BY <1>1, <1>3, <2>3, <3>1, <3>3 DEF Same
  <2> QED BY <2>1, <2>2, <2>3
<1> HIDE DEF r
<1>5. director' = r BY <1>2 DEF Become
<1> QED BY <1>2, <1>4, <1>5, EventOK DEF SnapshotComes, rtc, inbox, Typed

\* A forced move of a session that is connected makes the fiber leave its room first.
LEMMA WokenMove ==
  ASSUME NEW d \in Director, d.pc = "idle", d.lease # None,
         NEW c \in Channel, d.lease.channel # c
  PROVE  Wake(SetIntent(d, c)).lease = None /\ Wake(SetIntent(d, c)).forced = d.forced
<1> DEFINE s == ResetShare(d, c)
           e == SetIntent(d, c)
           f == [e EXCEPT !.stale = FALSE, !.index = 1]
           g == [f EXCEPT !.share = {}]
<1>1. s \in Director /\ s.pc = d.pc /\ s.lease = d.lease /\ s.forced = d.forced
  BY DEF ResetShare, Director
<1>2. e = [s EXCEPT !.lost = None, !.joined = None, !.intent = c, !.recovery = FALSE, !.stale = TRUE]
  <2>1. e = Bump([s EXCEPT !.lost = None, !.joined = None, !.intent = c, !.recovery = FALSE])
    BY DEF SetIntent
  <2> HIDE DEF s
  <2> QED BY <2>1 DEF Bump
<1> HIDE DEF s
<1>3. /\ e \in Director /\ e.pc = "idle" /\ e.lease = d.lease /\ e.intent = c
      /\ e.forced = d.forced /\ c # None
  <2>1. c # None /\ c \in Optional(Channel) BY NoneAssumption DEF Optional
  <2>2. e \in Director BY <1>1, <1>2, <2>1, Members DEF Director
  <2>3. e.pc = s.pc /\ e.lease = s.lease /\ e.intent = c /\ e.forced = s.forced
    BY <1>1, <1>2 DEF Director
  <2> QED BY <1>1, <2>1, <2>2, <2>3
<1> HIDE DEF e
<1>4. Cause(e) = "move" BY <1>3 DEF Cause
<1>5. Wake(e) = Disconnect([f EXCEPT !.share = {}], "attempt")
  BY <1>3, <1>4 DEF Wake, Reconcile
<1>6. g \in Director /\ g.forced = d.forced BY <1>3, Members DEF Director
<1> HIDE DEF g
<1>7. Wake(e) = Disconnect(g, "attempt") BY <1>5 DEF g
<1> QED BY <1>6, <1>7 DEF Disconnect, Director, e

\* A moderator's move arrives.
LEMMA MoveStep ==
  ASSUME IInv, NEW m \in moves, ForcedMoveComes(m) PROVE IInv' /\ Obeys
<1> USE DEF IInv
<1>1. m \in [from : Op, op : Op, version : Nat] BY DEF Typed
<1> DEFINE accepts == /\ director.committed /\ m.from = director.lease
                      /\ m.op.channel # director.lease.channel /\ m.version > director.since
           d == [director EXCEPT !.forced = m.op, !.since = m.version]
           r == Wake(SetIntent(d, m.op.channel))
<1>2. /\ d \in Director /\ Same(director, d) /\ d.forced = m.op /\ d.since = m.version
      /\ d.latest = director.latest
  BY <1>1, Members DEF DirectorOK, Director, Same
<1>3. CASE accepts
  <2>1. Become(r, {}) BY <1>3 DEF ForcedMoveComes
  <2> HIDE DEF d
  <2>2. DirectorOK(d) /\ \A q : Stepped(d, q) => Stepped(director, q) BY <1>2, SameOK
  <2>3. d.committed => m.op.channel # d.intent
    BY <1>2, <1>3 DEF Same, DirectorOK, Holds
  <2>4. m.op.channel \in Optional(Channel) BY <1>1 DEF Op, Optional
  <2>5. d.pc = "idle" BY <1>2, <1>3 DEF Same, DirectorOK, Holds
  <2>6. /\ Stepped(d, r) /\ Leads(d, r) /\ d.op \in {None, r.op} /\ r.intent = m.op.channel
        /\ d.pc # "idle" => r.pc = d.pc
    BY <1>2, <2>2, <2>3, <2>4, <2>5, SetIntentOK DEF Typed
  <2> HIDE DEF r
  <2>7. r.lease = None /\ r.forced = m.op
    BY <1>1, <1>2, <1>3, <2>5, WokenMove DEF r, Same, Op, DirectorOK, Holds
  <2>8. Takes(r) /\ Commits(r)
    BY <1>1, <1>2, <2>6, <2>7 DEF Leads, Takes, Leases, Commits, ForcedMoveComes
  <2>9. /\ published' \subseteq published /\ moves' \subseteq moves /\ ejected' \subseteq ejected
        /\ UNCHANGED <<room, stuck, engine, pending, member, version>>
        /\ alarm' \in Optional(Op) /\ UNCHANGED events
    BY DEF ForcedMoveComes, rtc, authority, Typed
  <2>10. /\ Stepped(director, r) /\ director.op \in {None, r.op}
         /\ director.pc = "disconnect" => r.pc = "disconnect"
    BY <1>2, <2>2, <2>6 DEF Same
  <2> QED BY <2>1, <2>8, <2>9, <2>10, EventOK
<1>4. CASE ~accepts
  <2>1. Become(director, Release(m.op)) BY <1>4 DEF ForcedMoveComes
  <2>2. Release(m.op) = {Asks("disconnect", m.op)} BY DEF Release, Asks
  <2> QED BY <1>1, <2>1, <2>2, IdleOK, EventOK DEF ForcedMoveComes, rtc, authority, Typed
<1> QED BY <1>3, <1>4

\* A moderator's disconnect arrives, and ends the session it is about also when
\* that session's room was lost before.
LEMMA EjectStep ==
  ASSUME IInv, NEW op \in ejected, ForcedDisconnectComes(op) 
  PROVE  IInv' /\ Obeys /\ (op = director.joined => director'.intent = None)
<1> USE DEF IInv
<1>1. op \in Op BY DEF Typed
<1> DEFINE d == [director EXCEPT !.forced = None]
           r == Wake(SetIntent(d, None))
<1>2. /\ d \in Director /\ Same(director, d) /\ d.forced = None /\ d.since = director.since /\ d.latest = director.latest
  BY Members DEF DirectorOK, Director, Same
<1>3. CASE Owned(op) /\ director.intent = op.channel
  <2>1. Become(r, {}) BY <1>3 DEF ForcedDisconnectComes
  <2> HIDE DEF d
  <2>2. DirectorOK(d) /\ \A q : Stepped(d, q) => Stepped(director, q) BY <1>2, SameOK
  <2>3. d.committed => None # d.intent
    BY <2>2, NoneAssumption DEF DirectorOK, Holds, Director, Optional, Op
  <2>4. /\ Stepped(d, r) /\ Leads(d, r) /\ d.op \in {None, r.op} /\ r.intent = None
        /\ d.pc # "idle" => r.pc = d.pc
    BY <1>2, <2>2, <2>3, Members, SetIntentOK DEF Typed
  <2> HIDE DEF r
  <2>5. director' = r BY <2>1 DEF Become
  <2>6. Takes(r) /\ Commits(r) BY <1>2, <2>4 DEF Same, Leads, Takes, Leases, Commits, Snapshots
  <2>7. IInv' /\ Obeys
    BY <1>2, <2>1, <2>2, <2>4, <2>6, EventOK DEF ForcedDisconnectComes, rtc, authority, Same, Typed
  <2> QED BY <2>4, <2>5, <2>7
<1>4. CASE ~(Owned(op) /\ director.intent = op.channel)
  <2>1. Become(director, {}) BY <1>4 DEF ForcedDisconnectComes
  <2>2. IInv' /\ Obeys
    BY <2>1, IdleOK, EventOK DEF ForcedDisconnectComes, rtc, authority, Typed
  <2>3. op = director.joined => director.intent = None
    BY <1>1, <1>4, NoneAssumption DEF Owned, DirectorOK, Remembered
  <2> QED BY <2>1, <2>2, <2>3 DEF Become
<1> QED BY <1>3, <1>4

\* The engine reports that the room of a lease is lost.
LEMMA FailureStep ==
  ASSUME IInv, NEW retryable \in BOOLEAN, FailureComes(retryable)
  PROVE  IInv' /\ Obeys /\ (alarm = director.lease => ~director'.committed)
<1> USE DEF IInv
<1> DEFINE d == [director EXCEPT !.lost = director.lease, !.recovery = retryable, !.stale = TRUE,
                                 !.connection = IF retryable THEN "recovering" ELSE "failed"]
           e == [d EXCEPT !.stale = FALSE]
           x == IF retryable THEN Wake(d) ELSE Disconnect(e, "terminal")
<1>1. d \in Director BY DEF DirectorOK, Director
<1>2. /\ d.pc = director.pc /\ d.then = director.then /\ d.stale /\ d.op = director.op
      /\ d.lease = director.lease /\ d.held = director.held /\ d.committed = director.committed
      /\ d.index = director.index /\ d.share = director.share /\ d.intent = director.intent
      /\ d.joined = director.joined /\ d.lost = director.lease
      /\ d.connection # "connected" /\ d.forced = director.forced /\ d.since = director.since /\ d.latest = director.latest
  BY DEF DirectorOK, Director
<1>3. alarm' \in Optional(Op) /\ UNCHANGED <<room, stuck, engine, authority, inbox, events>>
  BY Members DEF FailureComes
<1>4. ASSUME alarm = director.lease, director.committed PROVE Become(x, {})
  <2>1. director.pc # "connect" BY <1>4 DEF DirectorOK, Holds
  <2> QED BY <1>4, <2>1, Zenon DEF FailureComes
<1>5. CASE alarm = director.lease /\ director.committed /\ retryable
  <2> HIDE DEF d
  <2>1. Become(Wake(d), {}) BY <1>5, <1>4
  <2>2. director.lease.channel = director.intent /\ director.pc = "idle"
    BY <1>5 DEF DirectorOK, Holds
  <2>3. /\ Stepped(director, Wake(d)) /\ Leads(d, Wake(d)) /\ director.op \in {None, Wake(d).op}
        /\ director.pc # "idle" => Wake(d).pc = director.pc
    BY <1>1, <1>2, <1>5, <2>2, WakeOK DEF Typed, DirectorOK, Shares, Survives, Remembered, Forced
  <2>4. Takes(Wake(d)) /\ Commits(Wake(d)) /\ ~Wake(d).committed BY <1>2, <2>3 DEF Leads, Takes, Leases, Commits
  <2>5. director' = Wake(d) BY <2>1 DEF Become
  <2> QED BY <1>3, <2>1, <2>3, <2>4, <2>5, EventOK DEF authority, inbox
<1>6. CASE alarm = director.lease /\ director.committed /\ ~retryable
  <2> DEFINE r == Disconnect(e, "terminal")
  <2>1. Become(r, {}) BY <1>6, <1>4
  <2>2. e \in Director BY <1>1 DEF Director
  <2>3. /\ e.op = None /\ e.lease = director.lease /\ e.share = director.share
        /\ e.intent = director.intent /\ e.joined = director.joined /\ e.lost = director.lease
        /\ e.committed /\ director.pc = "idle" /\ director.op = None /\ director.lease # None
        /\ e.forced = None /\ e.since = director.since /\ e.latest = director.latest /\ e.intent # None
    BY <1>1, <1>2, <1>6, NoneAssumption DEF Director, DirectorOK, Holds, Forced, Optional, Op
  <2> HIDE DEF d, e
  <2>4. Ready(e) BY <1>6, <2>2, <2>3 DEF Ready, DirectorOK, Shares, Remembered
  <2>5. DirectorOK(r) /\ Follows(e, r) BY <2>3, <2>4, DisconnectOK
  <2>6. r.share = e.share BY <2>2 DEF Disconnect, Director
  <2> HIDE DEF r
  <2>7. Forced(r) BY <2>3, <2>5 DEF Follows, Leads, Forced
  <2>8. Stepped(director, r) BY <2>3, <2>5, <2>6, <2>7 DEF Stepped, Follows, Moves, Survives
  <2>9. Takes(r) /\ Commits(r) /\ ~r.committed BY <2>3, <2>5 DEF Follows, Leads, Takes, Leases, Commits
  <2>10. director' = r BY <2>1 DEF Become
  <2> QED BY <1>3, <2>1, <2>3, <2>8, <2>9, <2>10, EventOK DEF authority, inbox
<1>7. CASE ~(alarm = director.lease /\ director.committed) /\ director.pc = "connect"
           /\ alarm = director.lease
  <2> DEFINE r == Fail(director, retryable)
  <2>1. Become(r, {}) BY <1>7 DEF FailureComes
  <2>2. Stepped(director, r) /\ Leads(director, r) /\ director.op = None
    BY <1>7, FailOK, NothingReserved DEF Working
  <2> HIDE DEF r
  <2>3. Takes(r) /\ Commits(r) /\ ~r.committed BY <2>2 DEF Leads, Takes, Leases, Commits
  <2>4. director' = r BY <2>1 DEF Become
  <2> QED BY <1>3, <1>7, <2>1, <2>2, <2>3, <2>4, EventOK DEF authority, inbox
<1>8. CASE /\ ~(alarm = director.lease /\ director.committed)
           /\ ~(alarm = director.lease /\ director.pc = "connect")
  <2>1. UNCHANGED <<director, requests, answer, minted>> BY <1>8 DEF FailureComes
  <2>2. Typed' BY <1>3, <2>1 DEF Typed, authority, inbox
  <2>3. Rooms' /\ Claims' BY <1>3, <2>1 DEF Rooms, Claims, Claim, Asks, authority
  <2>4. Obeys BY <2>1, IdleOK DEF Obeys, Connects, Survives, Mints, Takes, Leases, Makes, Commits
  <2> QED BY <1>8, <2>1, <2>2, <2>3, <2>4 DEF IInv
<1> QED BY <1>5, <1>6, <1>7, <1>8

\* The Director does not step.
LEMMA StillOK ==
  ASSUME IInv, UNCHANGED director, Typed', Rooms', Claims', Mints
  PROVE  IInv' /\ Obeys
BY IdleOK DEF IInv, Obeys, Connects, Survives, Makes

\* What happens to the room alone.
LEMMA RoomStep ==
  ASSUME IInv, RoomOpens \/ RoomCloses \/ RoomLost \/ EngineDies \/ EngineRecovers
  PROVE  IInv' /\ Obeys
<1>1. /\ UNCHANGED <<director, authority, requests, answer, inbox, minted>>
      /\ events' \in 0..MaxEvents
  BY BoundAssumption
  DEF RoomOpens, RoomCloses, RoomLost, EngineDies, EngineRecovers, Event, IInv, Typed
<1>2. director.lease \in Optional(Op) BY DEF IInv, DirectorOK, Director
<1>3. /\ room' \in Optional(Op) /\ stuck' \in Optional(Op) /\ alarm' \in Optional(Op)
      /\ engine' \in {"ready", "recovering", "failed"}
  BY <1>2, Members
  DEF RoomOpens, RoomCloses, RoomLost, Loses, EngineDies, EngineRecovers, IInv, Typed
<1>4. Typed' BY <1>1, <1>3 DEF IInv, Typed, authority, inbox
<1>5. room' = stuck' \/ UNCHANGED <<room, stuck>>
      \/ (room' = director.lease /\ stuck' = stuck /\ room = None /\ director.lease # None)
  BY DEF RoomOpens, RoomCloses, RoomLost, Loses, EngineDies, EngineRecovers, IInv, DirectorOK, Holds
<1>6. Rooms' BY <1>1, <1>5 DEF IInv, Rooms
<1>7. Claims' BY <1>1 DEF IInv, Claims, Claim, Asks, authority
<1>8. Mints BY <1>1 DEF Mints
<1> QED BY <1>1, <1>4, <1>6, <1>7, <1>8, StillOK

\* The engine loses its connection to the room for a while.
LEMMA ReconnectStep ==
  ASSUME IInv, ReconnectStarts \/ ReconnectSucceeds PROVE IInv' /\ Obeys
<1> PICK c \in {"connected", "recovering"} : director' = [director EXCEPT !.connection = c]
  BY DEF ReconnectStarts, ReconnectSucceeds
<1> DEFINE r == [director EXCEPT !.connection = c]
<1>1. /\ UNCHANGED <<rtc, authority, requests, answer, inbox, minted>> /\ events' \in 0..MaxEvents
      /\ director' = r
  BY BoundAssumption DEF ReconnectStarts, ReconnectSucceeds, Event, IInv, Typed
<1>2. r \in Director BY DEF IInv, DirectorOK, Director
<1>3. /\ r.pc = director.pc /\ r.then = director.then /\ r.intent = director.intent
      /\ r.stale = director.stale /\ r.index = director.index /\ r.op = director.op
      /\ r.lease = director.lease /\ r.held = director.held /\ r.lost = director.lost
      /\ r.joined = director.joined /\ r.committed = director.committed
      /\ r.connection = c /\ r.share = director.share /\ r.forced = director.forced
      /\ r.since = director.since /\ r.latest = director.latest
  BY DEF IInv, DirectorOK, Director
<1> HIDE DEF r
<1>4. DirectorOK(r) /\ Forced(r) /\ director.committed
  BY <1>2, <1>3
  DEF IInv, DirectorOK, Holds, WorksFor, Goes, Rests, Shares, Remembered, Forced, ReconnectStarts,
      ReconnectSucceeds, Reconnecting
<1>5. Typed' BY <1>1 DEF IInv, Typed, rtc, authority, inbox
<1>6. Rooms' /\ Claims' BY <1>1, <1>3 DEF IInv, Rooms, Claims, Claim, Asks, rtc, authority
<1>7. director.lease = room' BY <1>1 DEF ReconnectStarts, ReconnectSucceeds, rtc
<1>8. Takes(r) /\ Commits(r) BY <1>3, <1>4, <1>7 DEF Takes, Leases, Commits
<1>9. Obeys BY <1>1, <1>3, <1>8 DEF Obeys, Connects, Survives, Mints, Makes
<1> QED BY <1>1, <1>4, <1>5, <1>6, <1>9 DEF IInv

------------------------------------------------------------------------------
(* The backend. *)

\* The authority serves a request to join or to disconnect.
LEMMA ServedStep ==
  ASSUME IInv, NEW q \in requests, JoinServed(q.op) \/ DisconnectServed(q.op)
  PROVE  IInv' /\ Obeys
<1> DEFINE o == q.op
<1>1. o \in Op BY DEF IInv, Typed, Request
<1>2. UNCHANGED <<director, rtc, inbox, minted, events>> /\ requests' \subseteq requests
  BY DEF JoinServed, DisconnectServed, Served
<1>3. Mints BY <1>2 DEF Mints
<1>4. CASE JoinServed(o)
  <2>1. /\ requests' = requests \ {Asks("join", o)} /\ Asks("join", o) \in requests
        /\ member' = member /\ (pending' = o \/ pending' = pending)
        /\ answer' \in Nat \cup {None}
    BY <1>4 DEF JoinServed, Served, Publish, Asks, IInv, Typed
  <2>2. version' \in Nat /\ published' \subseteq Snapshot /\ pending' \in Optional(Op)
    BY <1>1, <1>4, Members DEF JoinServed, Publish, IInv, Typed, Snapshot
  <2>3. Typed' BY <1>2, <2>1, <2>2 DEF IInv, Typed, rtc, inbox
  <2>4. Claims'
    BY <1>2, <2>1 DEF IInv, Claims, Claim, Asks
  <2>5. Rooms' BY <1>2 DEF IInv, Rooms, rtc
  <2> QED BY <1>2, <1>3, <2>3, <2>4, <2>5, StillOK
<1>5. CASE DisconnectServed(o)
  <2>1. /\ requests' = requests \ {Asks("disconnect", o)} /\ Asks("join", o) \notin requests
        /\ pending' \in {pending, None} /\ pending' # o /\ answer' = answer
    BY <1>1, <1>5, NoneAssumption DEF DisconnectServed, Served, Publish, Asks, authority
  <2>2. /\ version' \in Nat /\ published' \subseteq Snapshot /\ pending' \in Optional(Op)
        /\ member' \in Optional(Op)
    BY <1>1, <1>5, Members DEF DisconnectServed, Publish, IInv, Typed, Snapshot, authority
  <2>3. Typed' BY <1>2, <2>1, <2>2 DEF IInv, Typed, rtc, inbox
  <2>4. ASSUME NEW p \in Op PROVE Claim(p)'
    <3>1. p # None BY NoneAssumption
    <3>2. CASE p = o BY <1>2, <2>1, <3>2 DEF Claim, Asks
    <3>3. CASE p # o BY <1>2, <2>1, <3>1, <3>3 DEF IInv, Claims, Claim, Asks
    <3> QED BY <3>2, <3>3
  <2>5. Rooms' BY <1>2 DEF IInv, Rooms, rtc
  <2> QED BY <1>2, <1>3, <2>3, <2>4, <2>5, StillOK DEF Claims
<1> QED BY <1>4, <1>5

\* Memberships follow the rooms, reservations expire, the moderator acts.
LEMMA BackendStep ==
  ASSUME IInv,
         MemberJoins \/ MemberLeaves \/ Expire \/ Removed \/ ModeratorDisconnects
         \/ \E c \in Channel : ModeratorMoves(c)
  PROVE  IInv' /\ Obeys
<1>1. UNCHANGED <<director, requests, answer>> /\ events' \in 0..MaxEvents
  <2>1. CASE MemberJoins \/ MemberLeaves \/ Expire \/ Removed
    <3>1. Client /\ UNCHANGED events
      BY <2>1 DEF MemberJoins, MemberLeaves, Expire, Removed
    <3> QED BY <3>1 DEF Client, IInv, Typed
  <2>2. CASE ModeratorDisconnects \/ \E c \in Channel : ModeratorMoves(c)
    <3>1. Client /\ Event
      BY <2>2 DEF ModeratorDisconnects, ModeratorMoves
    <3>2. events \in 0..MaxEvents
      BY DEF IInv, Typed
    <3>3. events + 1 \in 0..MaxEvents
      BY <3>1, <3>2, BoundAssumption DEF Event
    <3> QED BY <3>1, <3>3 DEF Client, Event
  <2> QED BY <2>1, <2>2
<1>2. pending' \in {pending, None} \/ (pending' \in Op /\ pending'.moved)
  BY FreshOK
  DEF MemberJoins, MemberLeaves, Expire, Removed, ModeratorDisconnects, ModeratorMoves, authority,
      IInv, Typed
<1>3. room' = stuck' \/ UNCHANGED <<room, stuck>>
  BY DEF MemberJoins, MemberLeaves, Expire, Removed, Loses, ModeratorDisconnects, ModeratorMoves, rtc
<1>4. Rooms' BY <1>1, <1>3 DEF IInv, Rooms
<1>5. ASSUME NEW o \in Op PROVE Claim(o)'
  BY <1>1, <1>2, NoneAssumption DEF IInv, Claims, Claim, Asks
<1>6. CASE MemberJoins \/ MemberLeaves \/ Expire \/ Removed
  <2>1. UNCHANGED <<engine, inbox, minted>>
    BY <1>6 DEF MemberJoins, MemberLeaves, Expire, Removed, rtc
  <2>2. room' \in Optional(Op) /\ stuck' \in Optional(Op) /\ alarm' \in Optional(Op)
    BY <1>6, Members DEF MemberJoins, MemberLeaves, Expire, Removed, Loses, rtc, IInv, Typed
  <2>3. /\ pending' \in Optional(Op) /\ member' \in Optional(Op)
        /\ version' \in Nat /\ published' \subseteq Snapshot
    BY <1>6, Members
    DEF MemberJoins, MemberLeaves, Expire, Removed, Publish, Snapshot, authority, IInv, Typed
  <2> QED BY <1>1, <2>1, <2>2, <2>3, <1>4, <1>5, StillOK DEF IInv, Typed, Claims, Mints, inbox
<1>7. CASE ModeratorDisconnects
  <2>1. UNCHANGED <<rtc, moves, minted>> /\ ejected' \subseteq Op
    BY <1>7 DEF ModeratorDisconnects, IInv, Typed, Optional
  <2>2. /\ pending' \in Optional(Op) /\ member' \in Optional(Op)
        /\ version' \in Nat /\ published' \subseteq Snapshot
    BY <1>7, Members DEF ModeratorDisconnects, Publish, Snapshot, IInv, Typed
  <2> QED BY <1>1, <2>1, <2>2, <1>4, <1>5, StillOK DEF IInv, Typed, Claims, Mints, rtc
<1>8. ASSUME NEW c \in Channel, ModeratorMoves(c) PROVE IInv' /\ Obeys
  <2>1. Fresh(c, TRUE) \in Op /\ member \in Op BY <1>8, FreshOK DEF ModeratorMoves, IInv, Typed, Optional
  <2>2. /\ UNCHANGED <<rtc, member, version, published, ejected>>
        /\ minted' = minted + 1 /\ minted' \in Nat
    BY <1>8 DEF ModeratorMoves, IInv, Typed
  <2>3. pending' \in Optional(Op) /\ moves' \subseteq [from : Op, op : Op, version : Nat]
    <3>1. pending' = Fresh(c, TRUE)
          /\ moves' = moves \cup {[from |-> member, op |-> Fresh(c, TRUE), version |-> version]}
      BY <1>8 DEF ModeratorMoves
    <3>2. version \in Nat /\ moves \subseteq [from : Op, op : Op, version : Nat]
      BY DEF IInv, Typed
    <3>3. [from |-> member, op |-> Fresh(c, TRUE), version |-> version]
            \in [from : Op, op : Op, version : Nat]
      BY <2>1, <3>2
    <3>4. pending' \in Optional(Op)
      BY <2>1, <3>1, Members
    <3> QED BY <3>1, <3>2, <3>3, <3>4
  <2> QED BY <1>1, <2>2, <2>3, <1>4, <1>5, StillOK DEF IInv, Typed, Claims, Mints, rtc
<1> QED BY <1>6, <1>7, <1>8

------------------------------------------------------------------------------

\* The invariant holds of the Director that was never asked for anything.
LEMMA InitIInv == Init => IInv
<1> SUFFICES ASSUME Init PROVE IInv OBVIOUS
<1> USE DEF Init
<1>1. director \in Director BY Members DEF Director, Snapshot
<1>2. DirectorOK(director)
  BY <1>1 DEF DirectorOK, Holds, WorksFor, Goes, Rests, Told, Shares, Remembered
<1>3. Typed BY BoundAssumption, Members DEF Typed
<1>4. Rooms /\ Claims BY NoneAssumption DEF Rooms, Claims, Claim
<1> QED BY <1>2, <1>3, <1>4 DEF IInv, Forced

\* Every step keeps the invariant and the properties of a step.
LEMMA StepIInv == ASSUME IInv, [Next]_vars PROVE IInv' /\ (Obeys \/ UNCHANGED vars)
<1>1. CASE UNCHANGED vars
  <2>1. UNCHANGED <<director, room, stuck, alarm, engine, pending, member, version, published,
                    requests, answer, moves, ejected, minted, events>>
    BY <1>1 DEF vars, rtc, authority, inbox
  <2>2. Typed' /\ Rooms' /\ Claims' BY <2>1 DEF IInv, Typed, Rooms, Claims, Claim, Asks
  <2> QED BY <1>1, <2>1, <2>2 DEF IInv
<1>2. CASE User
  BY <1>2, JoinStep, LeaveStep, RetryStep, ShutdownStep, SwitchStep DEF User
<1>3. CASE Fiber
  BY <1>3, WaitStep, DelayStep, ReserveStep, ConnectStep, CommitStep, DisconnectStep, CancelStep
  DEF Fiber
<1>4. CASE Snapshots BY <1>4, SnapshotStep DEF Snapshots
<1>5. CASE ForcedMoves BY <1>5, MoveStep DEF ForcedMoves
<1>6. CASE ForcedDisconnects BY <1>6, EjectStep DEF ForcedDisconnects
<1>7. CASE Failures BY <1>7, FailureStep DEF Failures
<1>8. CASE Serves BY <1>8, ServedStep DEF Serves
<1>9. CASE RoomOpens \/ RoomCloses \/ RoomLost \/ EngineDies \/ EngineRecovers BY <1>9, RoomStep
<1>10. CASE ReconnectStarts \/ ReconnectSucceeds BY <1>10, ReconnectStep
<1>11. CASE MemberJoins \/ MemberLeaves \/ Expire \/ Removed \/ Moderator
  BY <1>11, BackendStep DEF Moderator
<1>12. CASE SourceEnds BY <1>12, SwitchStep
<1> QED BY <1>1, <1>2, <1>3, <1>4, <1>5, <1>6, <1>7, <1>8, <1>9, <1>10, <1>11, <1>12 DEF Next

\* Only the arrival of a moderator's disconnect takes it off the way, so that
\* no other step is one ModeratorEnds speaks of.
LEMMA StepEjects ==
  ASSUME IInv, [Next]_vars
  PROVE  \A op \in ejected \ ejected' : op = director.joined => director'.intent = None
<1>1. ASSUME NEW op \in ejected, ForcedDisconnectComes(op), NEW p \in ejected \ ejected'
      PROVE  p = director.joined => director'.intent = None
  BY <1>1, EjectStep DEF ForcedDisconnectComes
<1>2. CASE ~ForcedDisconnects
  <2>1. ejected \subseteq ejected'
    BY <1>2
    DEF Next, vars, inbox, User, Join, Leave, RetryVoice, Shutdown, SetShare, Obey, Fiber, WaitEnds,
        DelayEnds, ReserveEnds, ConnectEnds, CommitEnds, DisconnectEnds, CancelEnds, Outside, Snapshots,
        SnapshotComes, ForcedMoves, ForcedMoveComes, Failures, FailureComes, Serves, JoinServed,
        DisconnectServed, Served, RoomOpens, RoomCloses, RoomLost, EngineDies, EngineRecovers,
        SourceEnds, ReconnectStarts, ReconnectSucceeds, MemberJoins, MemberLeaves, Expire, Removed,
        Moderator, ModeratorMoves, ModeratorDisconnects
  <2> QED BY <2>1
<1> QED BY <1>1, <1>2 DEF ForcedDisconnects

\* The invariant holds in every reachable state of the Director.
THEOREM DirectorIInv == Spec => []IInv
<1>1. Init => IInv BY InitIInv
<1>2. IInv /\ [Next]_vars => IInv' BY StepIInv
<1> QED BY <1>1, <1>2, PTL DEF Spec

\* The Director's fields are typed and agree with where its fiber is suspended: an
\* operation while it reserves, a lease while it connects, a committed connection
\* only while it rests.
THEOREM DirectorTypeOK == Spec => []TypeOK
<1>1. IInv => TypeOK BY DEF IInv, Typed, DirectorOK, Holds, TypeOK, Request
<1> QED BY <1>1, DirectorIInv, PTL

\* When the fiber rests and no request is under way, the authority holds no
\* reservation of this client but the one of its lease: each reservation that was
\* made and not used, by an attempt that failed or was overtaken, was taken back.
THEOREM DirectorNoStrayClaim == Spec => []NoStrayClaim
<1>1. IInv => NoStrayClaim
  <2> SUFFICES ASSUME IInv, director.pc = "idle", requests = {}, pending # None
               PROVE  pending.moved \/ pending = director.lease
    BY DEF NoStrayClaim
  <2>1. pending \in Op /\ director.op = None
    BY NothingReserved DEF IInv, Typed, Optional
  <2> QED BY <2>1 DEF IInv, Claims, Claim
<1> QED BY <1>1, DirectorIInv, PTL

\* The engine is asked for a room only when the room before it is closed, or
\* missed the deadline for closing, whatever intents, moves and failures came.
THEOREM DirectorBreakBeforeMake == Spec => BreakBeforeMake
<1>1. IInv /\ [Next]_vars => [Connects => room' = stuck']_vars BY StepIInv DEF Obeys
<1> QED BY <1>1, DirectorIInv, PTL DEF BreakBeforeMake, Spec

\* The engine is asked for a room only in the channel the user wants at that
\* moment, also when the lease was answered under an older intent, and a join, a
\* forced move or a recovery takes no camera or screen there that was switched on
\* in another channel.
THEOREM DirectorConnectsToIntent == Spec => ConnectsToIntent
<1>1. IInv /\ [Next]_vars
      => [Connects => /\ director'.lease.channel = director'.intent
                      /\ \A s \in director'.share : s.channel \in {None, director'.intent}]_vars
  BY StepIInv DEF Obeys
<1> QED BY <1>1, DirectorIInv, PTL DEF ConnectsToIntent, Spec

\* While the intent stays, nothing ends a camera but the user's switch, and nothing a
\* screen but that and the end of its window: no failure, retry or recovery does.
THEOREM DirectorShareSurvives == Spec => ShareSurvives
<1>1. IInv /\ [Next]_vars
      => [\A s \in director.share \ director'.share :
            director'.intent = director.intent /\ director.intent # None =>
              SetShare(s.media) \/ (s.media = "screen" /\ SourceEnds)]_vars
  <2> SUFFICES ASSUME IInv, [Next]_vars, ~UNCHANGED vars,
                      NEW s \in director.share \ director'.share,
                      director'.intent = director.intent, director.intent # None
               PROVE  SetShare(s.media) \/ (s.media = "screen" /\ SourceEnds)
    OBVIOUS
  <2>1. Survives(director, director') \/ Switched BY StepIInv DEF Obeys
  <2> QED BY <2>1 DEF Survives, Switched
<1> QED BY <1>1, DirectorIInv, PTL DEF ShareSurvives, Spec

\* A moderator's disconnect that is about the last session the Director joined
\* ends the user's intent, also when the loss of the room was noticed before.
THEOREM DirectorModeratorEnds == Spec => ModeratorEnds
<1>1. IInv /\ [Next]_vars
      => [\A op \in ejected \ ejected' : op = director.joined => director'.intent = None]_vars
  BY StepEjects
<1> QED BY <1>1, DirectorIInv, PTL DEF ModeratorEnds, Spec

------------------------------------------------------------------------------
(* What the client knows of the backend, and the backend of it. *)

\* The snapshot the client saw last, and those on their way to it.
Shown == published \cup {director.latest}

\* Snapshots come in the order they were published in, and the last one shows the
\* membership.
Ordered ==
  /\ director.latest.version <= version
  /\ \A s \in published : director.latest.version < s.version /\ s.version <= version
  /\ \A s \in Shown : s.version = version => s.op = member
  /\ [version |-> version, op |-> member] \in Shown

\* A snapshot that shows a lease is newer than the lease.
Later(o, v) == v <= version /\ \A s \in Shown : s.op = o => s.version > v

Waits ==
  /\ director.lease # None => Later(director.lease, director.since)
  /\ director.forced # None => Later(director.forced, director.since)
  /\ \A m \in moves : Later(m.op, m.version)
  /\ director.pc = "reserve" /\ answer \in Nat \ {0} => Later(director.op, answer)
  /\ director.pc # "reserve" => answer = None

\* What is asked for or reserved was no member before.
Unused(o) == o # member /\ \A s \in Shown : s.op # o

Claimed ==
  /\ \A o \in Op : Asks("join", o) \in requests => Unused(o) /\ o # pending
  /\ pending # None => Unused(pending)

\* Operations are numbered in the order they are made in.
Old(o) == o # None => o.n <= minted

Numbered ==
  /\ Old(room) /\ Old(stuck) /\ Old(pending) /\ Old(member)
  /\ Old(director.lease) /\ Old(director.forced) /\ Old(director.op)
  /\ \A m \in moves : Old(m.op)
  /\ \A s \in Shown : Old(s.op)
  /\ \A o \in Op : Asks("join", o) \in requests => Old(o)

\* No room was opened, and no lease taken, of an operation still to come: a forced
\* move on its way or kept, or a reservation; nor is a room opened again that is stuck.
Opened == {room, stuck, director.lease}

Ahead ==
  /\ \A m \in moves : m.op \notin Opened \cup {director.forced, director.op}
  /\ \A m, k \in moves : m.op = k.op => m = k
  /\ director.forced # None => director.forced \notin Opened
  /\ director.op # None => director.op \notin Opened
  /\ stuck # None => stuck # director.lease

\* A connection the Director has committed is open, or its loss is about to be
\* reported, or a snapshot shows it.
Shows ==
  director.committed =>
    \/ director.lease \in {room, alarm}
    \/ director.connection = "connected" /\ director.latest.op = director.lease

Tracks == Ordered /\ Waits /\ Claimed /\ Numbered /\ Ahead /\ Shows

\* The Director's part of a step: the answer it waits for, the operation it makes.
Answers ==
  LET makes == director'.pc = "reserve" /\ director.pc # "reserve"
  IN /\ answer' = IF director'.pc = "reserve" THEN answer ELSE None
     /\ minted' = IF makes THEN minted + 1 ELSE minted
     /\ \A o : Asks("join", o) \in requests' =>
                 Asks("join", o) \in requests \/ (makes /\ o = director'.op)

\* A step that makes no other request to join is such a one,
LEMMA BecomeAnswers ==
  ASSUME NEW r, NEW more, \A q \in more : q.mode = "disconnect", Become(r, more)
  PROVE  Answers
<1>1. \A o : Asks("join", o) \in requests' =>
        Asks("join", o) \in requests \/ (r.pc = "reserve" /\ director.pc # "reserve" /\ o = r.op)
  BY DEF Become, Asks
<1> QED BY <1>1 DEF Become, Answers

\* and one that makes none at all.
LEMMA StillAnswers ==
  ASSUME Waits, UNCHANGED <<requests, answer, minted>>, director'.pc = director.pc
  PROVE  Answers
BY DEF Waits, Answers

\* The steps of the user, the Director and the engine.
ClientStep ==
  \/ User \/ Fiber \/ Snapshots \/ ForcedMoves \/ ForcedDisconnects \/ Failures
  \/ RoomOpens \/ RoomCloses \/ RoomLost \/ EngineDies \/ EngineRecovers
  \/ SourceEnds \/ ReconnectStarts \/ ReconnectSucceeds \/ Removed

\* All the client's steps are.
LEMMA ClientAnswers == ASSUME IInv, Waits, ClientStep PROVE Answers
<1>1. /\ \A r : Become(r, {}) => Answers
      /\ \A r, o : Become(r, Release(o)) => Answers
  BY BecomeAnswers DEF Release
<1>2. CASE (\E c \in Channel : Join(c)) \/ Leave \/ RetryVoice \/ Shutdown
  BY <1>2, <1>1 DEF Join, Leave, RetryVoice, Shutdown, Obey
<1>3. CASE (\E media \in Media : SetShare(media)) \/ SourceEnds
  <2>1. director'.pc = director.pc
    BY <1>3 DEF SetShare, SourceEnds, IInv, DirectorOK, Director
  <2> QED BY <1>3, <2>1, StillAnswers DEF SetShare, SourceEnds
<1>4. CASE Fiber
  BY <1>1, <1>4
  DEF Fiber, WaitEnds, DelayEnds, ReserveEnds, ConnectEnds, CommitEnds, DisconnectEnds, CancelEnds
<1>5. CASE Snapshots BY <1>5, <1>1 DEF Snapshots, SnapshotComes
<1>6. ASSUME NEW m \in moves, ForcedMoveComes(m) PROVE Answers
  BY <1>1, <1>6 DEF ForcedMoveComes
<1>7. CASE ForcedDisconnects BY <1>7, <1>1 DEF ForcedDisconnects, ForcedDisconnectComes
<1>8. ASSUME NEW retryable \in BOOLEAN, FailureComes(retryable) PROVE Answers
  BY <1>8, <1>1, StillAnswers DEF FailureComes
<1>9. CASE \/ RoomOpens \/ RoomCloses \/ RoomLost \/ EngineDies \/ EngineRecovers \/ Removed
  BY <1>9, StillAnswers
  DEF RoomOpens, RoomCloses, RoomLost, EngineDies, EngineRecovers, Removed, Client
<1>10. CASE ReconnectStarts \/ ReconnectSucceeds
  <2>1. director'.pc = director.pc
    BY <1>10 DEF ReconnectStarts, ReconnectSucceeds, IInv, DirectorOK, Director
  <2> QED BY <1>10, <2>1, StillAnswers DEF ReconnectStarts, ReconnectSucceeds
<1> QED BY <1>2, <1>3, <1>4, <1>5, <1>6, <1>7, <1>8, <1>9, <1>10
     DEF ClientStep, User, ForcedMoves, Failures

\* What the steps of the client leave as it was.
Leaves ==
  /\ UNCHANGED <<pending, member, version>> /\ (published' = published \/ Snapshots)
  /\ published' \subseteq published /\ moves' \subseteq moves
  /\ room' \in {room, None, director'.lease}
  /\ stuck' \in {stuck, None} \/ (stuck' = room /\ director.lease = None)

\* All the client's steps leave that.
LEMMA ClientLeaves == ASSUME IInv, ClientStep PROVE Leaves
<1> USE DEF Leaves
<1>1. CASE User \/ SourceEnds \/ ReconnectStarts \/ ReconnectSucceeds
  BY <1>1 DEF User, Join, Leave, RetryVoice, Shutdown, SetShare, Obey, SourceEnds,
              ReconnectStarts, ReconnectSucceeds, rtc, authority, inbox
<1>2. CASE Fiber
  BY <1>2 DEF Fiber, WaitEnds, DelayEnds, ReserveEnds, ConnectEnds, CommitEnds, DisconnectEnds,
              CancelEnds, Outside, rtc, authority, inbox, IInv, DirectorOK, Holds
<1>3. CASE Snapshots \/ ForcedMoves \/ ForcedDisconnects \/ Failures
  BY <1>3 DEF Snapshots, SnapshotComes, ForcedMoves, ForcedMoveComes, ForcedDisconnects,
              ForcedDisconnectComes, Failures, FailureComes, rtc, authority, inbox
<1>4. CASE RoomOpens \/ RoomCloses \/ RoomLost \/ EngineDies \/ EngineRecovers \/ Removed
  BY <1>4 DEF RoomOpens, RoomCloses, RoomLost, Loses, EngineDies, EngineRecovers, Removed, Client,
              authority, inbox
<1> QED BY <1>1, <1>2, <1>3, <1>4 DEF ClientStep

\* They show the Director no snapshot but one that was on its way.
LEMMA ClientShown ==
  ASSUME IInv, ClientStep, Obeys \/ UNCHANGED vars
  PROVE  director'.latest \in Shown /\ Shown' \subseteq Shown
<1>1. director'.latest \in Shown
  <2>1. CASE Snapshots BY <2>1, SnapshotStep DEF Snapshots, Shown
  <2>2. CASE ~Snapshots BY <2>2 DEF Obeys, Takes, Shown, vars
  <2> QED BY <2>1, <2>2
<1> QED BY <1>1, ClientLeaves DEF Leaves, Shown

\* What the client's part of a step may assume and has to keep.
Acts ==
  /\ IInv /\ IInv' /\ Tracks /\ Answers /\ Leaves
  /\ Takes(director') /\ Makes(director') /\ Commits(director')
  /\ director'.latest \in Shown /\ Shown' \subseteq Shown

\* Where the leases and operations of the Director come from.
LEMMA ActsFrom ==
  ASSUME Acts
  PROVE  /\ director'.op # None =>
              \/ director'.op = director.op
              \/ director'.op.n = minted + 1 /\ minted' = minted + 1
         /\ director'.op # None => director'.pc = "reserve" /\ director'.lease = None
         /\ director.op # None => director.lease = None
         /\ director'.lease \in {None, director.lease, director.forced, director.op}
         /\ \/ director'.forced \in {None, director.forced}
            \/ \E m \in moves \ moves' : director'.forced = m.op
<1>1. (director'.pc = "reserve") = (director'.op # None)
  BY DEF Acts, IInv, DirectorOK, Holds
<1>2. (director.pc = "reserve") = (director.op # None)
  BY DEF Acts, IInv, DirectorOK, Holds
<1>3. director'.op # None => director'.pc = "reserve" /\ director'.lease = None
  BY <1>1 DEF Acts, IInv, DirectorOK, Holds
<1>4. director.op # None => director.lease = None
  BY <1>2 DEF Acts, IInv, DirectorOK, Holds
<1>5. minted' = IF director'.pc = "reserve" /\ director.pc # "reserve" THEN minted + 1 ELSE minted
  BY DEF Acts, Answers
<1>6. director'.op # None =>
        \/ director'.op = director.op
        \/ director'.op.n = minted + 1 /\ minted' = minted + 1
  BY <1>1, <1>5 DEF Acts, Makes
<1>7. /\ director'.lease \in {None, director.lease, director.forced, director.op}
      /\ \/ director'.forced \in {None, director.forced}
         \/ \E m \in moves \ moves' : director'.forced = m.op
  BY DEF Acts, Takes, Leases
<1> QED BY <1>3, <1>4, <1>6, <1>7

\* A lease is older than the snapshots that show it.
LEMMA ActsWaits == ASSUME Acts PROVE Waits'
<1> DEFINE Then(o, v) == v <= version' /\ \A s \in Shown' : s.op = o => s.version > v
<1>1. \A o, v : Later(o, v) => Then(o, v)
  BY DEF Later, Acts, Leaves
<1> HIDE DEF Then
<1>2. \A m \in moves' : Then(m.op, m.version)
  BY <1>1 DEF Acts, Tracks, Waits, Leaves
<1>3. /\ director'.lease # None => Then(director'.lease, director'.since)
      /\ director'.forced # None => Then(director'.forced, director'.since)
  BY <1>1 DEF Acts, Tracks, Waits, Takes, Leases
<1>4. /\ director'.pc = "reserve" /\ answer' \in Nat \ {0} => Then(director'.op, answer')
      /\ director'.pc # "reserve" => answer' = None
  BY <1>1, NoneAssumption DEF Acts, Answers, Tracks, Waits, Makes
<1> QED BY <1>2, <1>3, <1>4 DEF Waits, Later, Then

\* Every operation has a number that was given.
LEMMA ActsNumbered == ASSUME Acts PROVE Numbered'
<1> DEFINE Then(o) == o # None => o.n <= minted'
<1>1. minted' \in Nat /\ minted \in Nat /\ minted' >= minted
  BY DEF Acts, IInv, Typed, Answers
<1>2. \A o \in Optional(Op) : Old(o) => Then(o)
  BY <1>1 DEF Old, Op, Optional
<1>3. Then(None) /\ (director'.op.n = minted + 1 /\ minted' = minted + 1 => Then(director'.op))
  BY <1>1
<1> HIDE DEF Then
<1>4. /\ director.op \in Optional(Op) /\ director.lease \in Optional(Op)
      /\ director.forced \in Optional(Op)
  BY DEF Acts, IInv, DirectorOK, Director
<1>5. Then(director'.op)
  BY <1>2, <1>3, <1>4, ActsFrom DEF Acts, Tracks, Numbered
<1>6. \A m \in moves : Then(m.op)
  BY <1>2, Members DEF Acts, Tracks, Numbered, IInv, Typed
<1>7. Then(director'.lease) /\ Then(director'.forced)
  BY <1>2, <1>3, <1>4, <1>6, ActsFrom DEF Acts, Tracks, Numbered
<1>8. Then(room') /\ Then(stuck') /\ Then(pending') /\ Then(member')
  BY <1>2, <1>3, <1>7 DEF Acts, Leaves, Tracks, Numbered, IInv, Typed
<1>9. \A s \in Shown' : Then(s.op)
  BY <1>2 DEF Acts, Tracks, Numbered, Shown, IInv, Typed, DirectorOK, Director, Snapshot
<1>10. ASSUME NEW o \in Op, Asks("join", o) \in requests' PROVE Then(o)
  BY <1>2, <1>5, <1>10, Members DEF Acts, Answers, Tracks, Numbered
<1> QED BY <1>5, <1>6, <1>7, <1>8, <1>9, <1>10 DEF Numbered, Old, Then, Acts, Leaves

\* What is asked for is shown by no snapshot.
LEMMA ActsClaimed == ASSUME Acts PROVE Claimed'
<1> DEFINE Then(o) == o # member' /\ \A s \in Shown' : s.op # o
<1>1. \A o : Unused(o) => Then(o)
  BY DEF Unused, Acts, Leaves
<1> HIDE DEF Then
<1>2. pending' # None => Then(pending')
  BY <1>1 DEF Acts, Leaves, Tracks, Claimed
<1>3. ASSUME NEW o \in Op, Asks("join", o) \in requests' PROVE Then(o) /\ o # pending'
  <2>1. CASE Asks("join", o) \in requests
    BY <1>1, <2>1 DEF Acts, Leaves, Tracks, Claimed
  <2>2. CASE Asks("join", o) \notin requests
    <3>1. o.n = minted + 1 /\ minted \in Nat
      BY <1>3, <2>2 DEF Acts, Answers, Makes, IInv, Typed
    <3>2. \A p : Old(p) => p # o
      BY <3>1, NoneAssumption DEF Old
    <3>3. Unused(o) /\ o # pending
      BY <3>2 DEF Unused, Acts, Tracks, Numbered
    <3> QED BY <1>1, <3>3 DEF Acts, Leaves
  <2> QED BY <2>1, <2>2
<1> QED BY <1>2, <1>3 DEF Claimed, Unused, Then

\* What is still to come was not opened.
LEMMA ActsAhead == ASSUME Acts PROVE Ahead'
<1>1. Ahead /\ Numbered /\ minted \in Nat BY DEF Acts, Tracks, IInv, Typed
<1>2. /\ moves' \subseteq moves /\ room' \in {room, None, director'.lease}
      /\ stuck' \in {stuck, None} \/ (stuck' = room /\ director.lease = None)
  BY DEF Acts, Leaves
<1>3. \A m \in moves : m.op # None
  BY NoneAssumption DEF Acts, IInv, Typed
<1>4. \A p : p.n = minted + 1 => p = None \/ (~Old(p) /\ \A q : Old(q) => p # q)
  BY <1>1 DEF Old
<1>5. \A o \in Opened' : o \in Opened \cup {None, director.forced, director.op}
  BY <1>2, ActsFrom DEF Opened
<1>6. \A m \in moves' : m.op \notin Opened' \cup {director'.forced, director'.op}
  <2> TAKE m \in moves'
  <2>1. m.op \notin Opened' BY <1>1, <1>2, <1>3, <1>5 DEF Ahead
  <2>2. m.op # director'.forced BY <1>1, <1>2, <1>3, ActsFrom DEF Ahead
  <2>3. m.op # director'.op BY <1>1, <1>2, <1>3, <1>4, ActsFrom DEF Ahead, Numbered
  <2> QED BY <2>1, <2>2, <2>3
<1>7. director'.forced # None => director'.forced \notin Opened'
  <2>1. CASE director'.forced \in {None, director.forced} /\ director'.lease \in {None, director.lease}
    BY <1>1, <1>2, <2>1 DEF Ahead, Opened
  <2>2. CASE director'.forced # None /\ director'.lease \notin {None, director.lease}
    BY <2>2 DEF Acts, Takes, Leases
  <2>3. CASE \E m \in moves \ moves' : director'.forced = m.op /\ director'.lease = None
    BY <1>1, <1>2, <2>3 DEF Ahead, Opened
  <2> QED BY <2>1, <2>2, <2>3 DEF Acts, Takes, Leases
<1>8. director'.op # None => director'.op \notin Opened'
  BY <1>1, <1>2, <1>4, ActsFrom DEF Ahead, Opened, Numbered
<1>9. stuck' # None => stuck' # director'.lease
  BY <1>1, <1>2, ActsFrom DEF Ahead, Opened
<1> QED BY <1>1, <1>2, <1>6, <1>7, <1>8, <1>9 DEF Ahead

\* A snapshot that comes is the last the Director knows, and newer ones may follow.
LEMMA ActsOrdered == ASSUME Acts PROVE Ordered'
<1>1. Ordered /\ UNCHANGED <<version, member>> BY DEF Acts, Tracks, Leaves
<1>2. CASE published' = published /\ director'.latest = director.latest
  BY <1>1, <1>2 DEF Ordered, Shown
<1>3. ASSUME NEW s \in published, SnapshotComes(s) PROVE Ordered'
  <2>1. director'.latest = s /\ published' = {t \in published : t.version > s.version}
    BY <1>3, SnapshotStep DEF Acts, SnapshotComes
  <2>2. /\ \A t \in Shown : t \in Snapshot /\ t.version \in Nat
        /\ version \in Nat
    BY DEF Shown, Acts, IInv, Typed, DirectorOK, Director, Snapshot
  <2>3. s \in Shown /\ s.version <= version BY <1>1 DEF Ordered, Shown
  <2>4. CASE s.version = version
    <3>1. s = [version |-> version, op |-> member]
      BY <1>1, <2>2, <2>3, <2>4 DEF Ordered, Snapshot
    <3> QED BY <1>1, <2>1, <2>2, <2>3, <3>1 DEF Ordered, Shown
  <2>5. CASE s.version < version
    <3>1. [version |-> version, op |-> member] \in published
      BY <1>1, <2>2, <2>3, <2>5 DEF Ordered, Shown
    <3> QED BY <1>1, <2>1, <2>2, <2>3, <2>5, <3>1 DEF Ordered, Shown
  <2> QED BY <2>2, <2>3, <2>4, <2>5
<1> QED BY <1>2, <1>3 DEF Acts, Leaves, Takes, Snapshots

\* The Director does not commit a connection but for a snapshot, and hears of a loss.
LEMMA ActsShows == ASSUME Acts, ClientStep PROVE Shows'
<1>1. Commits(director') /\ Shows /\ Waits /\ Ordered /\ Ahead /\ Rooms /\ DirectorOK(director)
  BY DEF Acts, Tracks, IInv
<1> SUFFICES ASSUME director'.committed
             PROVE  \/ director'.lease \in {room', alarm'}
                    \/ director'.connection = "connected" /\ director'.latest.op = director'.lease
  BY DEF Shows
<1>2. CASE \/ director'.connection = "connected" /\ director'.latest.op = director'.lease
           \/ director'.lease = room'
  BY <1>2
<1>3. CASE /\ director.committed /\ director'.lease = director.lease
           /\ director'.connection = director.connection
  <2>1. CASE director.lease \in {room, alarm}
    <3>1. CASE RoomOpens \/ RoomCloses \/ RoomLost \/ EngineDies \/ EngineRecovers \/ Removed
      BY <1>1, <1>3, <2>1, <3>1
      DEF RoomOpens, RoomCloses, RoomLost, Loses, EngineDies, EngineRecovers, Removed, DirectorOK,
          Holds, Rooms, Ahead
    <3>2. CASE Failures
      <4>1. PICK retryable \in BOOLEAN : FailureComes(retryable) BY <3>2 DEF Failures
      <4>2. alarm # director.lease /\ room' = room
        BY <4>1, FailureStep DEF Acts, FailureComes
      <4> QED BY <1>3, <2>1, <4>2
    <3>3. CASE Fiber
      BY <1>1, <1>3, <2>1, <3>3
      DEF Fiber, WaitEnds, DelayEnds, ReserveEnds, ConnectEnds, CommitEnds, DisconnectEnds,
          CancelEnds, DirectorOK, Holds
    <3>4. CASE \/ User \/ Snapshots \/ ForcedMoves \/ ForcedDisconnects
               \/ SourceEnds \/ ReconnectStarts \/ ReconnectSucceeds
      <4>1. UNCHANGED <<room, alarm>>
        BY <3>4 DEF User, Join, Leave, RetryVoice, Shutdown, SetShare, Obey, Snapshots,
                    SnapshotComes, ForcedMoves, ForcedMoveComes, ForcedDisconnects,
                    ForcedDisconnectComes, SourceEnds, ReconnectStarts, ReconnectSucceeds, rtc
      <4> QED BY <1>3, <2>1, <4>1
    <3> QED BY <3>1, <3>2, <3>3, <3>4 DEF ClientStep
  <2>2. CASE director.connection = "connected" /\ director.latest.op = director.lease
    <3>1. CASE director'.latest = director.latest BY <1>3, <2>2, <3>1
    <3>2. CASE director'.latest # director.latest
      <4>1. PICK s \in published : director'.latest = s
        BY <3>2 DEF Acts, Shown
      <4>2. /\ s.version \in Nat /\ director.latest.version \in Nat /\ director.since \in Nat
        BY DEF Acts, IInv, Typed, DirectorOK, Director, Snapshot
      <4>3. s.version > director.latest.version BY <1>1, <4>2 DEF Ordered
      <4>4. director.lease # None BY <1>1, <1>3 DEF DirectorOK, Holds
      <4>5. director.latest.version > director.since
        BY <1>1, <2>2, <4>4 DEF Waits, Later, Shown
      <4>6. s.version > director.since BY <4>2, <4>3, <4>5
      <4> QED BY <1>1, <1>2, <1>3, <2>2, <3>2, <4>1, <4>2, <4>6 DEF Commits
    <3> QED BY <3>1, <3>2
  <2> QED BY <1>1, <1>3, <2>1, <2>2 DEF Shows
<1> QED BY <1>1, <1>2, <1>3 DEF Commits


\* The backend publishes what shows its membership.  A new member was reserved; what is
\* reserved was asked for, and whoever waits is told the version.
Serving ==
  /\ UNCHANGED <<director, room, stuck, alarm, moves, minted>>
  /\ \A o : Asks("join", o) \in requests' => Asks("join", o) \in requests
  /\ \/ UNCHANGED <<version, published, member>>
     \/ Publish(member')
  /\ \/ /\ member' \in {member, None} /\ pending' \in {pending, None}
        /\ answer' = answer \/ (answer' = 0 /\ director.pc = "reserve")
     \/ /\ member' = pending /\ pending' = None /\ UNCHANGED answer
     \/ \E o \in Op :
          /\ Asks("join", o) \in requests /\ Asks("join", o) \notin requests'
          /\ pending' = o /\ Publish(member) /\ UNCHANGED member
          /\ answer' = IF director.op = o THEN version + 1 ELSE answer

\* All of that is kept track of.
LEMMA ServingOK == ASSUME IInv, Tracks, Serving PROVE Tracks'
<1>1. /\ Ordered /\ Waits /\ Claimed /\ Numbered /\ Ahead /\ Shows
      /\ UNCHANGED <<director, room, stuck, alarm, moves, minted>>
  BY DEF Tracks, Serving
<1>2. /\ version \in Nat /\ minted \in Nat
      /\ \A s \in Shown : s.version \in Nat
  BY DEF IInv, Typed, Shown, DirectorOK, Director, Snapshot
<1>3. Ordered'
  <2>1. CASE UNCHANGED <<version, published, member>>
    BY <1>1, <2>1 DEF Ordered, Shown
  <2>2. CASE Publish(member')
    BY <1>1, <1>2, <2>2 DEF Publish, Ordered, Shown
  <2> QED BY <2>1, <2>2 DEF Serving
<1>4. \A s \in Shown' : s \in Shown \/ s = [version |-> version + 1, op |-> member']
  BY <1>1 DEF Serving, Publish, Shown
<1>5. Waits'
  <2> DEFINE Then(o, v) == v <= version' /\ \A s \in Shown' : s.op = o => s.version > v
  <2>1. version' \in Nat /\ version <= version'
    BY <1>2 DEF Serving, Publish
  <2>2. \A o, v : v \in Nat /\ Later(o, v) => Then(o, v)
    <3> SUFFICES ASSUME NEW o, NEW v \in Nat, Later(o, v) PROVE Then(o, v)
      OBVIOUS
    <3> QED BY <1>2, <1>4, <2>1 DEF Later
  <2>3. /\ director.since \in Nat
        /\ \A m \in moves : m.version \in Nat
    BY DEF IInv, Typed, DirectorOK, Director
  <2>4. ASSUME NEW o \in Op, Asks("join", o) \in requests, Publish(member), member' = member
        PROVE  Then(o, version + 1)
    <3>1. Unused(o) BY <1>1, <2>4 DEF Claimed
    <3> QED BY <1>2, <1>4, <2>4, <3>1 DEF Unused, Publish
  <2> HIDE DEF Then
  <2>5. /\ director.lease # None => Then(director.lease, director.since)
        /\ director.forced # None => Then(director.forced, director.since)
        /\ \A m \in moves : Then(m.op, m.version)
    BY <1>1, <2>2, <2>3 DEF Waits
  <2>6. director.pc = "reserve" /\ answer' \in Nat \ {0} => Then(director.op, answer')
    BY <1>1, <2>2, <2>4 DEF Serving, Waits
  <2>7. director.pc # "reserve" => answer' = None
    BY <1>1, NoneAssumption DEF Serving, Waits, IInv, DirectorOK, Holds
  <2> QED BY <1>1, <2>5, <2>6, <2>7 DEF Waits, Later, Then
<1>6. Claimed'
  <2> DEFINE Then(o) == o # member' /\ \A s \in Shown' : s.op # o
  <2>1. \A o : Unused(o) /\ o # member' => Then(o)
    BY <1>4 DEF Unused
  <2>2. ASSUME NEW o \in Op, Asks("join", o) \in requests' PROVE Then(o) /\ o # pending'
    BY <1>1, <2>1, <2>2, NoneAssumption DEF Serving, Claimed, Unused
  <2>3. pending' # None => Then(pending')
    BY <1>1, <2>1 DEF Serving, Claimed, Unused
  <2> QED BY <2>2, <2>3 DEF Claimed, Unused
<1>7. Numbered'
  <2>1. Old(pending') /\ Old(member')
    BY <1>1 DEF Serving, Numbered, Old
  <2>2. \A s \in Shown' : Old(s.op)
    BY <1>1, <1>4, <2>1 DEF Numbered
  <2> QED BY <1>1, <2>1, <2>2 DEF Serving, Numbered, Old
<1>8. Ahead' /\ Shows' BY <1>1 DEF Ahead, Opened, Shows
<1> QED BY <1>3, <1>5, <1>6, <1>7, <1>8 DEF Tracks

\* A moderator's move reserves an operation that nobody knows yet.
LEMMA MovingOK ==
  ASSUME IInv, Tracks, NEW c \in Channel, ModeratorMoves(c) PROVE Tracks'
<1> DEFINE o == Fresh(c, TRUE)
           m == [from |-> member, op |-> o, version |-> version]
<1>1. /\ Ordered /\ Waits /\ Claimed /\ Numbered /\ Ahead /\ Shows
      /\ UNCHANGED <<director, requests, answer, room, stuck, alarm, member, version, published>>
      /\ pending' = o /\ minted' = minted + 1 /\ moves' = moves \cup {m}
  BY DEF Tracks, ModeratorMoves, Client, rtc
<1>2. o \in Op /\ o # None /\ o.n = minted + 1 /\ minted \in Nat
  BY FreshOK DEF IInv, Typed
<1> HIDE DEF o
<1>3. \A p : Old(p) => p # o BY <1>2 DEF Old
<1>4. Shown' = Shown BY <1>1 DEF Shown
<1>5. Ordered' BY <1>1, <1>4 DEF Ordered
<1>6. Waits'
  <2>1. version \in Nat BY DEF IInv, Typed
  <2>2. Later(o, version) BY <1>1, <1>3, <2>1 DEF Later, Numbered
  <2> QED BY <1>1, <1>4, <2>2 DEF Waits, Later
<1>7. Claimed' BY <1>1, <1>3, <1>4 DEF Claimed, Unused, Numbered
<1>8. Numbered'
  <2> DEFINE Then(p) == p # None => p.n <= minted'
  <2>1. \A p \in Optional(Op) : Old(p) => Then(p)
    BY <1>1, <1>2 DEF Old, Op, Optional
  <2>2. Then(o) BY <1>1, <1>2
  <2> HIDE DEF Then
  <2>3. /\ Then(room) /\ Then(stuck) /\ Then(member)
        /\ Then(director.lease) /\ Then(director.forced) /\ Then(director.op)
    BY <1>1, <2>1 DEF Numbered, IInv, Typed, DirectorOK, Director
  <2>4. \A k \in moves' : Then(k.op)
    BY <1>1, <2>1, <2>2, Members DEF Numbered, IInv, Typed
  <2>5. \A s \in Shown : Then(s.op)
    BY <1>1, <2>1 DEF Numbered, Shown, IInv, Typed, DirectorOK, Director, Snapshot
  <2>6. \A p \in Op : Asks("join", p) \in requests => Then(p)
    BY <1>1, <2>1, Members DEF Numbered
  <2> QED BY <1>1, <1>4, <2>2, <2>3, <2>4, <2>5, <2>6 DEF Numbered, Old, Then
<1>9. Ahead'
  BY <1>1, <1>2, <1>3 DEF Ahead, Opened, Numbered
<1>10. Shows' BY <1>1 DEF Shows
<1> QED BY <1>5, <1>6, <1>7, <1>8, <1>9, <1>10 DEF Tracks

\* Requests, webhooks, the expiry and the moderator's disconnects are served so.
LEMMA BackendServing ==
  ASSUME IInv, \/ MemberJoins \/ MemberLeaves \/ Expire \/ ModeratorDisconnects
               \/ \E q \in requests : JoinServed(q.op) \/ DisconnectServed(q.op)
  PROVE  Serving
<1>1. CASE MemberJoins \/ MemberLeaves \/ Expire \/ ModeratorDisconnects
  BY <1>1
  DEF MemberJoins, MemberLeaves, Expire, ModeratorDisconnects, Client, rtc, inbox, Serving
<1>2. ASSUME NEW q \in requests, JoinServed(q.op) PROVE Serving
  <2> DEFINE o == q.op
  <2>1. o \in Op BY DEF IInv, Typed, Request
  <2>2. /\ UNCHANGED <<director, room, stuck, alarm, moves, minted, member>>
        /\ Asks("join", o) \in requests /\ requests' = requests \ {Asks("join", o)}
    BY <1>2 DEF JoinServed, Served, Asks, rtc, inbox
  <2>3. CASE pending' = o /\ Publish(member) /\ answer' = IF director.op = o THEN version + 1 ELSE answer
    BY <2>1, <2>2, <2>3 DEF Serving
  <2>4. CASE /\ answer' = IF director.op = o THEN 0 ELSE answer
             /\ UNCHANGED <<pending, version, published>>
    <3>1. director.op = o => director.pc = "reserve"
      BY <2>1, NoneAssumption DEF IInv, DirectorOK, Holds
    <3> QED BY <2>2, <2>4, <3>1 DEF Serving
  <2> QED BY <1>2, <2>3, <2>4 DEF JoinServed
<1>3. ASSUME NEW q \in requests, DisconnectServed(q.op) PROVE Serving
  BY <1>3 DEF DisconnectServed, Served, authority, rtc, inbox, Serving
<1> QED BY <1>1, <1>2, <1>3

\* Every step keeps track.
LEMMA StepTracks == ASSUME IInv, Tracks, [Next]_vars PROVE Tracks'
<1>1. CASE UNCHANGED vars
  BY <1>1 DEF vars, rtc, authority, inbox, Tracks, Ordered, Waits, Later, Claimed, Unused, Numbered,
              Old, Ahead, Opened, Shows, Shown
<1>2. CASE ClientStep /\ Obeys
  <2>1. Answers /\ Leaves BY <1>2, ClientAnswers, ClientLeaves DEF Tracks
  <2>2. Acts BY <1>2, <2>1, StepIInv, ClientShown DEF Acts, Obeys
  <2> QED BY <1>2, <2>2, ActsOrdered, ActsWaits, ActsClaimed, ActsNumbered, ActsAhead, ActsShows
       DEF Tracks
<1>3. CASE \/ MemberJoins \/ MemberLeaves \/ Expire \/ ModeratorDisconnects
           \/ \E q \in requests : JoinServed(q.op) \/ DisconnectServed(q.op)
  BY <1>3, BackendServing, ServingOK
<1>4. CASE \E c \in Channel : ModeratorMoves(c) BY <1>4, MovingOK
<1> QED BY <1>1, <1>2, <1>3, <1>4, StepIInv DEF Next, ClientStep, Serves, Moderator

\* At first nothing is asked for, and the last snapshot is the empty one.
LEMMA InitTracks == Init => Tracks
<1> SUFFICES ASSUME Init PROVE Tracks OBVIOUS
<1> USE DEF Init
<1>1. Shown = {[version |-> 0, op |-> None]} BY DEF Shown
<1>2. Ordered BY <1>1 DEF Ordered
<1>3. Waits /\ Claimed /\ Shows BY DEF Waits, Claimed, Shows
<1>4. Numbered BY <1>1 DEF Numbered, Old
<1>5. Ahead BY DEF Ahead
<1> QED BY <1>2, <1>3, <1>4, <1>5 DEF Tracks

\* What the client and the backend know of each other is kept in every reachable state.
THEOREM DirectorTracks == Spec => []Tracks
<1>1. Init => Tracks BY InitTracks
<1>2. IInv /\ Tracks /\ [Next]_vars => Tracks' BY StepTracks
<1> QED BY <1>1, <1>2, DirectorIInv, PTL DEF Spec

\* Whenever the fiber rests and nothing is left to happen, intent, engine and
\* membership agree, or the user was told of the failure: no command, move, loss,
\* deadline or snapshot was dropped that had to wake the fiber, but the snapshot that
\* came while the Room was reconnecting; for any channels, any number of attempts and
\* any number of events.
THEOREM DirectorRestIsAgreed == Spec => []RestIsAgreed
<1>1. ASSUME IInv, Tracks, Quiet PROVE Agree \/ Overlooked
  <2>1. /\ director.pc = "idle" /\ published = {} /\ alarm = None /\ stuck = None
        /\ director.op = None
    BY <1>1, NothingReserved DEF Quiet
  <2>2. DirectorOK(director) /\ Typed /\ Rooms /\ director \in Director
    BY <1>1 DEF IInv, DirectorOK
  <2>3. director.latest = [version |-> version, op |-> member]
    BY <1>1, <2>1 DEF Tracks, Ordered, Shown
  <2>4. CASE director.committed
    <3>1. /\ director.lease # None /\ director.connection \in {"connected", "recovering"}
      BY <2>2, <2>4 DEF DirectorOK, Holds
    <3>2. /\ pending # None => pending \notin {member, director.latest.op}
      BY <1>1 DEF Tracks, Claimed, Unused, Shown
    <3>3. \/ director.lease = room
          \/ director.connection = "connected" /\ member = director.lease
      BY <1>1, <2>1, <2>3, <2>4, <3>1 DEF Tracks, Shows
    <3>4. pending = None
      BY <1>1, <2>1, <3>1, <3>2, <3>3, <2>3 DEF Quiet
    <3>5. room = director.lease /\ director.connection = "connected"
      BY <1>1, <2>4, <3>1, <3>3, <3>4 DEF Quiet, Reconnecting
    <3> QED BY <2>3, <2>4, <3>5 DEF Agree, Overlooked
  <2>5. CASE ~director.committed
    <3>1. director.lease = None /\ Told(director)
      BY <2>1, <2>2, <2>5 DEF DirectorOK, Holds, Rests
    <3>2. pending = None /\ room = None
      BY <1>1, <2>1, <2>2, <3>1 DEF Quiet, Rooms
    <3>3. member = None BY <1>1, <3>2 DEF Quiet
    <3> QED BY <3>1, <3>2, <3>3 DEF Agree, Told
  <2> QED BY <2>4, <2>5
<1> QED BY <1>1, DirectorIInv, DirectorTracks, PTL DEF RestIsAgreed

------------------------------------------------------------------------------
(* What the Director takes for the backend is the account of VoiceAccount. *)

\* No step asks for an operation that was used up.
LEMMA AccountUseUp == ASSUME IInv, Mints PROVE Account!UseUp
<1>1. minted \in Nat BY DEF IInv, Typed
<1>2. \A o \in [n : 1..minted, channel : Channel, moved : BOOLEAN] :
         Asks("join", o) \notin requests =>
           /\ o \in [n : 1..minted', channel : Channel, moved : BOOLEAN]
           /\ Asks("join", o) \notin requests'
  BY <1>1 DEF Mints
<1> QED BY <1>2 DEF Account!UseUp, Asks

\* The authority serves a request: it reserves the operation asked for, or none,
\* or gives up the one that is disconnected.
LEMMA ServedAccount ==
  ASSUME IInv, Numbered, Account!UseUp, NEW q \in requests, JoinServed(q.op) \/ DisconnectServed(q.op)
  PROVE  Account!AccountNext
<1> DEFINE o == q.op
<1>1. o \in Op /\ o # None BY NoneAssumption DEF IInv, Typed, Request
<1>2. CASE JoinServed(o)
  <2>1. /\ Asks("join", o) \in requests /\ Asks("join", o) \notin requests'
        /\ minted' = minted /\ member' = member /\ pending' \in {o, pending}
    BY <1>2 DEF JoinServed, Served, Publish, Asks
  <2>2. o \in [n : 1..minted, channel : Channel, moved : BOOLEAN]
    BY <1>1, <2>1 DEF Numbered, Old, Op, IInv, Typed
  <2>3. pending' = o => Account!Reserve
    BY <1>1, <2>1, <2>2 DEF Account!Reserve, Asks
  <2>4. pending' = pending => Account!Refuse BY <2>1 DEF Account!Refuse
  <2> QED BY <2>1, <2>3, <2>4 DEF Account!AccountNext
<1>3. CASE DisconnectServed(o)
  <2>1. \/ pending = o /\ pending' = None /\ UNCHANGED member
        \/ pending = None /\ member = o /\ member' = None /\ UNCHANGED pending
        \/ UNCHANGED <<pending, member>>
    BY <1>3 DEF DisconnectServed, authority
  <2> QED BY <1>1, <2>1
       DEF Account!AccountNext, Account!Withdraw, Account!Remove, Account!Refuse
<1> QED BY <1>2, <1>3

\* A membership follows a room, a reservation expires, the moderator acts.
LEMMA BackendAccount ==
  ASSUME IInv, Numbered, Account!UseUp,
         MemberJoins \/ MemberLeaves \/ Expire \/ Removed \/ ModeratorDisconnects
         \/ \E c \in Channel : ModeratorMoves(c)
  PROVE  Account!AccountNext
<1> USE DEF Account!AccountNext
<1>1. CASE MemberJoins BY <1>1 DEF MemberJoins, Account!Commit
<1>2. CASE MemberLeaves BY <1>2 DEF MemberLeaves, Account!Remove
<1>3. CASE Expire BY <1>3 DEF Expire, Account!Withdraw
<1>4. CASE Removed BY <1>4 DEF Removed, authority, Account!Refuse
<1>5. CASE ModeratorDisconnects
  BY <1>5 DEF ModeratorDisconnects, Account!Remove, Account!Withdraw
<1>6. ASSUME NEW c \in Channel, ModeratorMoves(c) PROVE Account!Reserve
  <2> DEFINE o == Fresh(c, TRUE)
  <2>1. o \in Op /\ o # None /\ o.n = minted + 1 /\ minted \in Nat
    BY FreshOK DEF IInv, Typed
  <2>2. pending' = o /\ minted' = minted + 1 /\ UNCHANGED <<member, requests>>
    BY <1>6 DEF ModeratorMoves, Client
  <2> HIDE DEF o
  <2>3. Asks("join", o) \notin requests BY <2>1 DEF Numbered, Old
  <2>4. o \in [n : 1..minted', channel : Channel, moved : BOOLEAN] BY <2>1, <2>2 DEF Op
  <2>5. o \notin [n : 1..minted, channel : Channel, moved : BOOLEAN] BY <2>1
  <2> QED BY <2>1, <2>2, <2>3, <2>4, <2>5 DEF Account!Reserve, Asks
<1> QED BY <1>1, <1>2, <1>3, <1>4, <1>5, <1>6

\* Nothing else touches the reservation or the membership.
LEMMA ElseAccount ==
  ASSUME Account!UseUp,
         \/ User \/ Fiber \/ Snapshots \/ ForcedMoves \/ ForcedDisconnects \/ Failures
         \/ RoomOpens \/ RoomCloses \/ RoomLost \/ EngineDies \/ EngineRecovers
         \/ SourceEnds \/ ReconnectStarts \/ ReconnectSucceeds
  PROVE  Account!AccountNext
<1>1. UNCHANGED <<pending, member>>
  BY DEF User, Join, Leave, RetryVoice, Shutdown, SetShare, Obey, Fiber, WaitEnds, DelayEnds,
         ReserveEnds, ConnectEnds, CommitEnds, DisconnectEnds, CancelEnds, Outside, Snapshots,
         SnapshotComes, ForcedMoves, ForcedMoveComes, ForcedDisconnects, ForcedDisconnectComes,
         Failures, FailureComes, RoomOpens, RoomCloses, RoomLost, EngineDies, EngineRecovers,
         SourceEnds, ReconnectStarts, ReconnectSucceeds, authority
<1> QED BY <1>1 DEF Account!AccountNext, Account!Refuse

\* For any channels and any commands, moderator's acts, losses and deadlines, the
\* backend of the Director's model is asked for nothing but what an account
\* promises: an operation becomes a member only while it is pending, at most once,
\* and goes only when no join that counts on it is left.  VoiceCleanupProofs
\* proves of the code's handlers and records that they implement the same account.
THEOREM DirectorBackendIsAccount == Spec => BackendIsAccount
<1>1. Init => Account!AccountInit BY DEF Init, Account!AccountInit
<1>2. IInv /\ Tracks /\ [Next]_vars => [Account!AccountNext]_(Account!accountVars)
  <2> SUFFICES ASSUME IInv, Numbered, [Next]_vars
               PROVE  [Account!AccountNext]_(Account!accountVars)
    BY DEF Tracks
  <2>1. CASE UNCHANGED vars
    BY <2>1 DEF vars, authority, Account!accountVars
  <2>2. CASE Next
    <3>1. Mints \/ UNCHANGED vars BY StepIInv DEF Obeys
    <3>2. Mints BY <3>1 DEF Mints, vars
    <3>3. Account!UseUp BY <3>2, AccountUseUp
    <3> QED BY <2>2, <3>3, ServedAccount, BackendAccount, ElseAccount DEF Next, Serves, Moderator
  <2> QED BY <2>1, <2>2
<1> QED BY <1>1, <1>2, DirectorIInv, DirectorTracks, PTL DEF Spec, BackendIsAccount, Account!AccountSpec
=============================================================================
