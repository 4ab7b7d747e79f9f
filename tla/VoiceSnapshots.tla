--------------------------- MODULE VoiceSnapshots ---------------------------
(***************************************************************************)
(* How the account's clients learn its membership.  A handler that may     *)
(* have changed the membership increments the account's version counter,   *)
(* then reads the membership, then publishes both on the account's private *)
(* topic: three round trips, so publishers overtake one another.  A client *)
(* keeps the snapshot of the highest version it was given.  A publisher    *)
(* may fail at each of the three, and some changes are published by nobody.*)
(*                                                                         *)
(* What changes the membership is module VoiceAuthority's business; here   *)
(* it changes at any time, also between the steps of a publisher.          *)
(***************************************************************************)
EXTENDS Naturals

CONSTANTS
  Membership,   \* what the account may be a member with, or none
  NoMembership,
  Publisher,    \* handlers that may publish at the same time
  MaxChanges,   \* bound: changes of the membership
  MaxVersion    \* bound: the version after which only changes are published

ASSUME MembershipAssumption == NoMembership \in Membership
ASSUME BoundAssumption == MaxChanges \in Nat /\ MaxVersion \in Nat

VARIABLES
  membership,   \* voice_current: the membership in Redis
  version,      \* voice_authority_version of the account
  publisher,    \* where each publisher stands, and what it holds
  latest,       \* latestAuthoritySnapshot of the account's Voice Director
  changes,      \* history: how often the membership changed
  counted,      \* history: how many changes the counter's value covers
  owed,         \* history: is a handler about to publish a change or for a client?
  astray        \* history: has a change or a publication been lost since that arose?

vars == <<membership, version, publisher, latest, changes, counted, owed, astray>>

\* "at" is history: the change the membership was read after.
Snapshot == [version : Nat, membership : Membership, at : Nat]
Nothing == [version |-> 0, membership |-> NoMembership, at |-> 0]
Idle == [phase |-> "idle", snapshot |-> Nothing]
Phase == {"idle", "increment", "read", "publish"}

-----------------------------------------------------------------------------
\* A script commits, replaces or deletes the session for a handler that goes on
\* to publish.
Change(m) ==
  /\ changes < MaxChanges /\ m # membership
  /\ membership' = m
  /\ changes' = changes + 1
  /\ owed' = TRUE /\ astray' = FALSE
  /\ UNCHANGED <<version, publisher, latest, counted>>

\* A reconciliation deletes the session, or it expires: nobody publishes that.
ChangeSilently ==
  /\ changes < MaxChanges /\ membership # NoMembership
  /\ membership' = NoMembership
  /\ changes' = changes + 1
  /\ astray' = TRUE
  /\ UNCHANGED <<version, publisher, latest, counted, owed>>

\* The client's transport has connected: it asks for a snapshot.
RequestSnapshot ==
  /\ version < MaxVersion
  /\ owed' = TRUE /\ astray' = FALSE
  /\ UNCHANGED <<membership, version, publisher, latest, changes, counted>>

\* The order of a publisher's round trips.
ReadFirst(phase) ==  \* mutant: the membership is read before the counter counts
  CASE phase = "idle" -> "read" [] phase = "read" -> "increment" [] OTHER -> "publish"

After(phase) ==
  CASE phase = "idle" -> "increment" [] phase = "increment" -> "read" [] OTHER -> "publish"

\* A handler that changed something or was asked to, or one with nothing new
\* to say (a repeated webhook, flags).
Begin(p) ==
  /\ publisher[p] = Idle
  /\ owed \/ version < MaxVersion
  /\ publisher' = [publisher EXCEPT ![p].phase = After("idle")]
  /\ UNCHANGED <<membership, version, latest, changes, counted, owed, astray>>

\* A handler dies, or returns an error, before it begins to publish.
GiveUp ==
  /\ owed
  /\ owed' = FALSE /\ astray' = TRUE
  /\ UNCHANGED <<membership, version, publisher, latest, changes, counted>>

\* INCR of the version counter.
Increment(p) ==
  /\ publisher[p].phase = "increment"
  /\ version' = version + 1
  /\ publisher' = [publisher EXCEPT ![p] =
       [phase |-> After("increment"), snapshot |-> [@.snapshot EXCEPT !.version = version + 1]]]
  /\ counted' = changes
  /\ owed' = FALSE
  /\ UNCHANGED <<membership, latest, changes, astray>>

\* get_voice_authority_snapshot: both records in one script.
Read(p) ==
  /\ publisher[p].phase = "read"
  /\ publisher' = [publisher EXCEPT ![p] =
       [phase |-> After("read"),
        snapshot |-> [@.snapshot EXCEPT !.membership = membership, !.at = changes]]]
  /\ UNCHANGED <<membership, version, latest, changes, counted, owed, astray>>

\* handleAuthorityEvent ignores a version it has passed.
AcceptsAny(s) == TRUE  \* mutant
Accepts(s) == s.version > latest.version

\* The event reaches the client, which may have to ignore it.
Deliver(p) ==
  /\ publisher[p].phase = "publish"
  /\ latest' = IF Accepts(publisher[p].snapshot) THEN publisher[p].snapshot ELSE latest
  /\ publisher' = [publisher EXCEPT ![p] = Idle]
  /\ UNCHANGED <<membership, version, changes, counted, owed, astray>>

\* The publisher dies, a round trip fails, or the event finds no connection of
\* the account that is subscribed.
Fail(p) ==
  /\ publisher[p] # Idle
  /\ publisher' = [publisher EXCEPT ![p] = Idle]
  /\ astray' = TRUE
  /\ UNCHANGED <<membership, version, latest, changes, counted, owed>>

Init ==
  /\ membership = NoMembership
  /\ version = 0
  /\ publisher = [p \in Publisher |-> Idle]
  /\ latest = Nothing
  /\ changes = 0 /\ counted = 0
  /\ owed = FALSE /\ astray = FALSE

Publish(p) == Increment(p) \/ Read(p) \/ Deliver(p)

Next ==
  \/ \E m \in Membership : Change(m)
  \/ ChangeSilently \/ RequestSnapshot \/ GiveUp
  \/ \E p \in Publisher : Begin(p) \/ Publish(p) \/ Fail(p)

Spec == Init /\ [][Next]_vars

\* A handler that owes a publication begins and goes on, unless it gives up or
\* fails.  Nothing is assumed of clients and of silent changes.
FairSpec ==
  /\ Spec
  /\ \A p \in Publisher : WF_vars(owed /\ Begin(p)) /\ WF_vars(Publish(p))

-----------------------------------------------------------------------------
\* The counter, the publishers and the client hold what they should.
TypeOK ==
  /\ membership \in Membership
  /\ version \in Nat /\ changes \in Nat /\ counted \in Nat
  /\ publisher \in [Publisher -> [phase : Phase, snapshot : Snapshot]]
  /\ latest \in Snapshot
  /\ owed \in BOOLEAN /\ astray \in BOOLEAN

\* When every change is counted, a client that holds the counter's version holds
\* the membership: because the counter is incremented before the membership is
\* read, the highest version never carries an old one.  And when no publisher
\* is under way or owed, a client that is behind has lost something since the
\* last change that is published or the last time it asked.
LatestIsCurrent ==
  /\ counted = changes
  /\ \/ latest.version = version
     \/ ~owed /\ ~astray /\ \A p \in Publisher : publisher[p] = Idle
  => latest.membership = membership

\* Unless silent changes and failed publications come for ever, or the last of
\* them was followed by no published change and no request of the client's, the
\* client has the membership at last, for good, in whatever order the last
\* publishers finished.
Converges == <>[]~astray => <>[](latest.membership = membership)

\* docs/adr/0003-unified-voice-session.md:65-67: "Destructive reconciliation
\* requires an explicit server command or a complete newer Authoritative Voice
\* Snapshot."  A snapshot the client accepts was read no earlier than the one it
\* replaces.  (The code does not keep this: the version is not that of the read.)
NeverBackwards == [][latest'.at >= latest.at]_latest
=============================================================================
