---------------------------- MODULE HandoverProofs ----------------------------
(* replace_session and shutdown leave nothing behind, for any number of        *)
(* replacements in progress and wherever they are dropped.                     *)
EXTENDS ClientHandover, TLAPS

Steps == {"idle", "validate", "build", "lock", "swap", "drain", "end"}

(* What each call of replace_session answers for at each step: a session that  *)
(* exists, and one that is stopped already while it is drained.                *)
Owned ==
    /\ rep \in [Replacers -> [pc : Steps, s : Nat]]
    /\ \A r \in Replacers :
         /\ rep[r].pc \in {"lock", "swap", "drain"} => rep[r].s \in 1..built
         /\ rep[r].pc \notin {"lock", "swap", "drain"} => rep[r].s = 0
         /\ rep[r].pc = "drain" => rep[r].s \in stopFlag

(* The control lock: its holder swaps or drains, and nobody swaps once the     *)
(* client is closed.                                                           *)
Locked ==
    /\ \A r \in Replacers : rep[r].pc \in {"swap", "drain"} => control = r
    /\ stopPc = "drain" => control = Stopper
    /\ closed => \A r \in Replacers : rep[r].pc # "swap"

(* The progress of a shutdown. *)
Closing ==
    /\ closed \in BOOLEAN
    /\ stopPc \in {"idle", "lock", "drain", "done"}
    /\ stopPc \in {"drain", "done"} => closed /\ active \in stopFlag
    /\ stopPc = "done" => active \notin tasks

HInv ==
    /\ built \in Nat \ {0} /\ built <= MaxBuilt /\ active \in 1..built
    /\ Owned /\ Locked /\ Closing /\ NoAbandonedSession

LEMMA InitClean == HandoverInit => HInv
<1> SUFFICES ASSUME HandoverInit PROVE HInv
  OBVIOUS
<1>1. built \in Nat \ {0} /\ built <= MaxBuilt /\ active \in 1..built
  BY HandoverAssumption DEF HandoverInit
<1>2. Owned
  BY DEF HandoverInit, Owned, Steps
<1>3. Locked
  BY DEF HandoverInit, Locked
<1>4. Closing
  BY DEF HandoverInit, Closing
<1>5. NoAbandonedSession
  BY DEF HandoverInit, NoAbandonedSession
<1> QED BY <1>1, <1>2, <1>3, <1>4, <1>5 DEF HInv

LEMMA ReplaceBeginKeeps ==
  ASSUME HInv, NEW r \in Replacers, ReplaceBegin(r) PROVE HInv'
BY HandoverAssumption DEF HInv, ReplaceBegin, HandoverGoto, Ended, Owned, Locked, Closing,
   NoAbandonedSession, Pending, Steps

LEMMA ReplaceValidateKeeps ==
  ASSUME HInv, NEW r \in Replacers, ReplaceValidate(r) PROVE HInv'
BY HandoverAssumption DEF HInv, ReplaceValidate, HandoverGoto, Ended, Owned, Locked, Closing,
   NoAbandonedSession, Pending, Steps

LEMMA BuildSessionKeeps ==
  ASSUME HInv, NEW r \in Replacers, BuildSession(r) PROVE HInv'
BY HandoverAssumption DEF HInv, BuildSession, HandoverGoto, Ended, Owned, Locked, Closing,
   NoAbandonedSession, Pending, Steps

LEMMA ReplaceLockKeeps ==
  ASSUME HInv, NEW r \in Replacers, ReplaceLock(r) PROVE HInv'
BY HandoverAssumption DEF HInv, ReplaceLock, RefusedUnderLock, Stopping, HandoverGoto, Owned,
   Locked, Closing, NoAbandonedSession, Pending, Steps

LEMMA ReplaceSwapKeeps ==
  ASSUME HInv, NEW r \in Replacers, ReplaceSwap(r) PROVE HInv'
BY HandoverAssumption DEF HInv, ReplaceSwap, Stopping, HandoverGoto, Owned,
   Locked, Closing, NoAbandonedSession, Pending, Steps

LEMMA ReplaceDrainKeeps ==
  ASSUME HInv, NEW r \in Replacers, ReplaceDrain(r) PROVE HInv'
BY HandoverAssumption DEF HInv, ReplaceDrain, Ended, HandoverGoto, Owned,
   Locked, Closing, NoAbandonedSession, Pending, Steps

LEMMA ReplaceCancelKeeps ==
  ASSUME HInv, NEW r \in Replacers, ReplaceCancel(r) PROVE HInv'
BY HandoverAssumption DEF HInv, ReplaceCancel, DroppedWith, Sessions, Ended, HandoverGoto, Owned,
   Locked, Closing, NoAbandonedSession, Pending, Steps

LEMMA ShutdownKeeps ==
  ASSUME HInv, ShutdownBegin \/ ShutdownLock \/ ShutdownDrain \/ ShutdownCancel PROVE HInv'
<1>1. CASE ShutdownBegin
  BY <1>1, HandoverAssumption DEF HInv, ShutdownBegin, Owned, Locked, Closing,
     NoAbandonedSession, Pending, Steps
<1>2. CASE ShutdownLock
  BY <1>2, HandoverAssumption DEF HInv, ShutdownLock, Stopping, Owned, Locked, Closing,
     NoAbandonedSession, Pending, Steps
<1>3. CASE ShutdownDrain
  BY <1>3, HandoverAssumption DEF HInv, ShutdownDrain, Owned, Locked, Closing,
     NoAbandonedSession, Pending, Steps
<1>4. CASE ShutdownCancel
  BY <1>4, HandoverAssumption DEF HInv, ShutdownCancel, Owned, Locked, Closing,
     NoAbandonedSession, Pending, Steps
<1> QED BY <1>1, <1>2, <1>3, <1>4

LEMMA StepKeeps == HInv /\ [HandoverNext]_handoverVars => HInv'
<1> SUFFICES ASSUME HInv, [HandoverNext]_handoverVars PROVE HInv'
  OBVIOUS
<1>1. CASE \E r \in Replacers : \/ ReplaceBegin(r) \/ ReplaceValidate(r) \/ BuildSession(r)
                                \/ ReplaceLock(r) \/ ReplaceSwap(r) \/ ReplaceDrain(r)
                                \/ ReplaceCancel(r)
  BY <1>1, ReplaceBeginKeeps, ReplaceValidateKeeps, BuildSessionKeeps, ReplaceLockKeeps,
     ReplaceSwapKeeps, ReplaceDrainKeeps, ReplaceCancelKeeps
<1>2. CASE ShutdownBegin \/ ShutdownLock \/ ShutdownDrain \/ ShutdownCancel
  BY <1>2, ShutdownKeeps
<1>3. CASE UNCHANGED handoverVars
  BY <1>3 DEF handoverVars, HInv, Owned, Locked, Closing, NoAbandonedSession, Pending
<1> QED BY <1>1, <1>2, <1>3 DEF HandoverNext

(* Wherever replace_session and shutdown overlap or are dropped: a session     *)
(* that is not the active one has stopped or is still answered for, and the    *)
(* active one has stopped for good when shutdown has returned.                 *)
THEOREM HandoverAlwaysClean == HandoverSpec => []HandoverIsClean
<1>1. HInv => HandoverIsClean
  BY DEF HInv, Closing, HandoverIsClean, ShutdownIsFinal
<1> QED BY <1>1, InitClean, StepKeeps, PTL DEF HandoverSpec
=============================================================================
