---------------------------- MODULE VoiceAccount ----------------------------
(***************************************************************************)
(* What the voice authority promises about one account, without handlers   *)
(* and records: at most one operation is pending and at most one is the    *)
(* member, a member is made of the pending operation only, a pending join  *)
(* keeps the member it is to replace, and an operation that was used up    *)
(* does not come back.                                                     *)
(* VoiceAuthority implements this specification, and what VoiceDirector    *)
(* takes for the backend is no more than that.                             *)
(***************************************************************************)
CONSTANTS
  Again,  \* may an operation that was used up be reserved again?
  None    \* no operation

VARIABLES
  pending,  \* the operation that is reserved
  member,   \* the operation that is the member
  used      \* operations that were reserved or will never be

accountVars == <<pending, member, used>>

AccountInit == pending = None /\ member = None /\ used = {}

UseUp == used \subseteq used'

\* Another operation becomes the pending one; the member stays.
Reserve ==
  /\ pending' # None /\ pending' \in used'
  /\ Again \/ pending' \notin used
  /\ UseUp /\ UNCHANGED member

\* The pending operation becomes the member, in the place of the one before.
Commit ==
  /\ pending # None
  /\ member' = pending /\ pending' = None
  /\ UseUp

\* The pending operation is cancelled or expires.
Withdraw ==
  /\ pending # None
  /\ pending' = None
  /\ UseUp /\ UNCHANGED member

\* The member goes, and no join that counts on it is left.
Remove ==
  /\ member # None
  /\ member' = None /\ pending' = None
  /\ UseUp

\* Operations are used up without being reserved.
Refuse == UseUp /\ UNCHANGED <<pending, member>>

AccountNext == Reserve \/ Commit \/ Withdraw \/ Remove \/ Refuse

AccountSpec == AccountInit /\ [][AccountNext]_accountVars
=============================================================================
