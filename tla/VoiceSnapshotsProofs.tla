------------------------ MODULE VoiceSnapshotsProofs ------------------------
(***************************************************************************)
(* VoiceSnapshots for any number of publishers, changes and versions.      *)
(***************************************************************************)
EXTENDS VoiceSnapshots, TLAPS

\* What the publishers must agree on for LatestIsCurrent to be inductive: a
\* version is never ahead of the counter, who is to publish the counter's own
\* version holds the membership, and until the client has that version somebody
\* is to publish it, unless it was lost.
Behind ==
  /\ latest.version <= version /\ counted <= changes
  /\ \A p \in Publisher : publisher[p].snapshot.version <= version

HoldsCurrent ==
  \A p \in Publisher :
    /\ publisher[p].phase = "publish"
    /\ publisher[p].snapshot.version = version
    /\ counted = changes
    => publisher[p].snapshot.membership = membership

Brought ==
  ~owed /\ ~astray /\ latest.version # version =>
    \E p \in Publisher : /\ publisher[p].phase \in {"read", "publish"}
                         /\ publisher[p].snapshot.version = version

HighestIsCurrent == counted = changes /\ latest.version = version => latest.membership = membership

IInv == TypeOK /\ Behind /\ HoldsCurrent /\ Brought /\ HighestIsCurrent

-----------------------------------------------------------------------------
\* The program starts, and stays, in well-formed states.
LEMMA IdleType == Nothing \in Snapshot /\ Idle \in [phase : Phase, snapshot : Snapshot]
<1>1. Nothing \in Snapshot
  BY MembershipAssumption DEF Nothing, Snapshot
<1> QED
  BY <1>1 DEF Idle, Phase

LEMMA InitTypeOK == Init => TypeOK
<1> SUFFICES ASSUME Init PROVE TypeOK
  OBVIOUS
<1>1. [p \in Publisher |-> Idle] \in [Publisher -> [phase : Phase, snapshot : Snapshot]]
  BY IdleType
<1> QED
  BY <1>1, MembershipAssumption, IdleType DEF Init, TypeOK

LEMMA NextTypeOK == TypeOK /\ [Next]_vars => TypeOK'
<1> SUFFICES ASSUME TypeOK, [Next]_vars PROVE TypeOK'
  OBVIOUS
<1> USE DEF TypeOK
<1>1. ASSUME NEW m \in Membership, Change(m) PROVE TypeOK'
  <2>1. owed' \in BOOLEAN /\ astray' \in BOOLEAN
    BY <1>1, Zenon DEF Change
  <2>2. changes' \in Nat /\ membership' \in Membership
    BY <1>1 DEF Change
  <2> QED
    BY <1>1, <2>1, <2>2 DEF Change
<1>8. CASE ChangeSilently \/ RequestSnapshot \/ GiveUp
  <2>1. owed' \in BOOLEAN /\ astray' \in BOOLEAN
    BY <1>8, Zenon DEF ChangeSilently, RequestSnapshot, GiveUp
  <2>2. changes' \in Nat /\ membership' \in Membership
    BY <1>8, MembershipAssumption DEF ChangeSilently, RequestSnapshot, GiveUp
  <2> QED
    BY <1>8, <2>1, <2>2 DEF ChangeSilently, RequestSnapshot, GiveUp
<1>2. ASSUME NEW p \in Publisher, Begin(p) PROVE TypeOK'
  BY <1>2 DEF Begin, After, Phase
<1>3. ASSUME NEW p \in Publisher, Increment(p) PROVE TypeOK'
  <2> DEFINE new == [publisher[p].snapshot EXCEPT !.version = version + 1]
  <2>1. new \in Snapshot
    BY DEF Snapshot
  <2>2. [phase |-> "read", snapshot |-> new] \in [phase : Phase, snapshot : Snapshot]
    BY <2>1 DEF Phase
  <2>3. publisher' = [publisher EXCEPT ![p] = [phase |-> "read", snapshot |-> new]]
    BY <1>3 DEF Increment, After
  <2> HIDE DEF new
  <2>4. publisher' \in [Publisher -> [phase : Phase, snapshot : Snapshot]]
    BY <2>2, <2>3
  <2>5. version' \in Nat /\ counted' \in Nat /\ UNCHANGED <<membership, latest, changes>>
    BY <1>3 DEF Increment
  <2>6. owed' \in BOOLEAN /\ astray' \in BOOLEAN
    BY <1>3 DEF Increment
  <2> QED
    BY <2>4, <2>5, <2>6
<1>4. ASSUME NEW p \in Publisher, Read(p) PROVE TypeOK'
  BY <1>4 DEF Read, After, Phase, Snapshot
<1>5. ASSUME NEW p \in Publisher, Deliver(p) PROVE TypeOK'
  BY <1>5, IdleType DEF Deliver
<1>6. ASSUME NEW p \in Publisher, Fail(p) PROVE TypeOK'
  BY <1>6, IdleType DEF Fail
<1>7. CASE UNCHANGED vars
  BY <1>7 DEF vars
<1> QED
  BY <1>1, <1>2, <1>3, <1>4, <1>5, <1>6, <1>7, <1>8 DEF Next, Publish

\* TypeOK holds of every behaviour.
THEOREM SnapshotsTypeOK == Spec => []TypeOK
  BY InitTypeOK, NextTypeOK, PTL DEF Spec

-----------------------------------------------------------------------------
LEMMA InitIInv == Init => IInv
<1> SUFFICES ASSUME Init PROVE IInv
  OBVIOUS
<1> QED
  BY InitTypeOK DEF IInv, Init, Behind, HoldsCurrent, Brought, HighestIsCurrent, Idle, Nothing

\* Who counts a version is to publish it, until it does or fails.
LEMMA NextBrought == ASSUME IInv, [Next]_vars PROVE Brought'
<1> USE DEF IInv, TypeOK, Snapshot, Brought
<1>1. ASSUME NEW m \in Membership, Change(m) PROVE Brought'
  BY <1>1 DEF Change
<1>8. CASE ChangeSilently \/ RequestSnapshot \/ GiveUp
  BY <1>8 DEF ChangeSilently, RequestSnapshot, GiveUp
<1>2. ASSUME NEW p \in Publisher, Begin(p) PROVE Brought'
  <2>1. \A q \in Publisher : publisher[q].phase \in {"read", "publish"} => publisher'[q] = publisher[q]
    BY <1>2 DEF Begin, Idle
  <2> QED
    BY <1>2, <2>1 DEF Begin
<1>3. ASSUME NEW p \in Publisher, Increment(p) PROVE Brought'
  <2>1. publisher'[p].phase = "read" /\ publisher'[p].snapshot.version = version'
    BY <1>3 DEF Increment, After
  <2> QED
    BY <2>1
<1>4. ASSUME NEW p \in Publisher, Read(p) PROVE Brought'
  BY <1>4 DEF Read, After
<1>5. ASSUME NEW p \in Publisher, Deliver(p) PROVE Brought'
  <2>1. ASSUME ~owed, ~astray, latest'.version # version
        PROVE  latest.version # version /\ publisher[p].snapshot.version # version
    <3>1. /\ latest.version \in Nat /\ version \in Nat /\ latest.version <= version
          /\ publisher[p].snapshot.version \in Nat /\ publisher[p].snapshot.version <= version
      BY DEF Behind
    <3>2. CASE publisher[p].snapshot.version > latest.version
      <4>1. latest' = publisher[p].snapshot
        BY <1>5, <3>2 DEF Deliver, Accepts
      <4> QED
        BY <2>1, <3>1, <3>2, <4>1
    <3>3. CASE ~(publisher[p].snapshot.version > latest.version)
      <4>1. latest' = latest
        BY <1>5, <3>3 DEF Deliver, Accepts
      <4> QED
        BY <2>1, <3>1, <3>3, <4>1
    <3> QED
      BY <3>2, <3>3
  <2>2. ASSUME ~owed, ~astray, latest'.version # version
        PROVE  \E q \in Publisher : /\ publisher'[q].phase \in {"read", "publish"}
                                   /\ publisher'[q].snapshot.version = version
    <3>1. PICK q \in Publisher : /\ publisher[q].phase \in {"read", "publish"}
                                /\ publisher[q].snapshot.version = version
      BY <2>1, <2>2
    <3>2. publisher'[q] = publisher[q]
      BY <1>5, <2>1, <2>2, <3>1 DEF Deliver
    <3> QED
      BY <3>1, <3>2
  <2> QED
    BY <1>5, <2>2 DEF Deliver
<1>6. ASSUME NEW p \in Publisher, Fail(p) PROVE Brought'
  BY <1>6 DEF Fail
<1>7. CASE UNCHANGED vars
  BY <1>7 DEF vars
<1> QED
  BY <1>1, <1>2, <1>3, <1>4, <1>5, <1>6, <1>7, <1>8 DEF Next, Publish

LEMMA NextIInv == IInv /\ [Next]_vars => IInv'
<1> SUFFICES ASSUME IInv, [Next]_vars PROVE (Behind /\ HoldsCurrent /\ HighestIsCurrent)'
  BY NextTypeOK, NextBrought DEF IInv
<1> USE DEF IInv, TypeOK, Snapshot, Phase
\* A change is not counted yet, so there is nothing to hold.
<1>1. ASSUME NEW m \in Membership, Change(m)
      PROVE  (Behind /\ HoldsCurrent /\ HighestIsCurrent)'
  BY <1>1 DEF Change, Behind, HoldsCurrent, HighestIsCurrent
<1>8. CASE ChangeSilently \/ RequestSnapshot \/ GiveUp
  BY <1>8 DEF ChangeSilently, RequestSnapshot, GiveUp, Behind, HoldsCurrent, HighestIsCurrent
<1>2. ASSUME NEW p \in Publisher, Begin(p)
      PROVE  (Behind /\ HoldsCurrent /\ HighestIsCurrent)'
  BY <1>2 DEF Begin, After, Behind, HoldsCurrent, HighestIsCurrent
\* The counter passes every version that is held, and the new one is not read.
<1>3. ASSUME NEW p \in Publisher, Increment(p)
      PROVE  (Behind /\ HoldsCurrent /\ HighestIsCurrent)'
  BY <1>3 DEF Increment, After, Behind, HoldsCurrent, HighestIsCurrent
<1>4. ASSUME NEW p \in Publisher, Read(p)
      PROVE  (Behind /\ HoldsCurrent /\ HighestIsCurrent)'
  BY <1>4 DEF Read, After, Behind, HoldsCurrent, HighestIsCurrent
<1>5. ASSUME NEW p \in Publisher, Deliver(p)
      PROVE  (Behind /\ HoldsCurrent /\ HighestIsCurrent)'
  BY <1>5 DEF Deliver, Accepts, Idle, Nothing, Behind, HoldsCurrent, HighestIsCurrent
<1>6. ASSUME NEW p \in Publisher, Fail(p)
      PROVE  (Behind /\ HoldsCurrent /\ HighestIsCurrent)'
  BY <1>6 DEF Fail, Idle, Nothing, Behind, HoldsCurrent, HighestIsCurrent
<1>7. CASE UNCHANGED vars
  BY <1>7 DEF vars, Behind, HoldsCurrent, HighestIsCurrent
<1> QED
  BY <1>1, <1>2, <1>3, <1>4, <1>5, <1>6, <1>7, <1>8 DEF Next, Publish

\* The highest version carries the membership, and is brought unless it is lost,
\* for any number of publishers that may fail anywhere: LatestIsCurrent holds of
\* every behaviour.
THEOREM SnapshotsLatestIsCurrent == Spec => []LatestIsCurrent
<1>1. IInv => LatestIsCurrent
  BY DEF IInv, Brought, HighestIsCurrent, LatestIsCurrent, Idle
<1> QED
  BY InitIInv, NextIInv, <1>1, PTL DEF Spec
=============================================================================
