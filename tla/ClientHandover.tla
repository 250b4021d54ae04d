--------------------------- MODULE ClientHandover ---------------------------
(* The active session of AtrustClient: replace_session and shutdown meet at   *)
(* the control lock and the closed flag.                                      *)
(* Every future may be dropped at an await. The lock of a session's           *)
(* background is never contended (its users hold control), so ClientSession's *)
(* shutdown runs up to the join of the node task in one step.                 *)
EXTENDS Naturals, FiniteSets

CONSTANTS Replacers,    \* calls of replace_session
          MaxBuilt,  \* bound: sessions ever built, the first one included
          NoOwner

Sessions == 1..MaxBuilt
Stopper  == "shutdown"

ASSUME HandoverAssumption ==
    /\ MaxBuilt \in Nat \ {0}
    /\ NoOwner \notin Replacers /\ Stopper \notin Replacers /\ Stopper # NoOwner

VARIABLES built,     \* number of sessions built
          stopFlag,  \* sessions whose stop signal is set and whose managers are retired
          tasks,     \* sessions whose background tasks run
          active,
          epoch,
          closed,
          control,   \* who holds the control lock
          rep,       \* replacer -> [pc, s]: the session it owns or drains
          stopPc

handoverVars == <<built, stopFlag, tasks, active, epoch, closed, control, rep, stopPc>>

HandoverTypeOK ==
    /\ built \in Sessions /\ active \in Sessions /\ epoch \in Sessions
    /\ stopFlag \subseteq Sessions /\ tasks \subseteq Sessions
    /\ closed \in BOOLEAN
    /\ control \in Replacers \cup {Stopper, NoOwner}
    /\ rep \in [Replacers ->
         [pc : {"idle", "validate", "build", "lock", "swap", "drain", "end"}, s : Sessions \cup {0}]]
    /\ stopPc \in {"idle", "lock", "drain", "done"}

HandoverInit ==
    /\ built = 1 /\ stopFlag = {} /\ tasks = {1}
    /\ active = 1 /\ epoch = 1
    /\ closed = FALSE /\ control = NoOwner
    /\ rep = [r \in Replacers |-> [pc |-> "idle", s |-> 0]]
    /\ stopPc = "idle"

HandoverGoto(r, pc, s) == rep' = [rep EXCEPT ![r] = [pc |-> pc, s |-> s]]
Ended(r) == HandoverGoto(r, "end", 0)

(* ClientSession::shutdown up to its first pending await: the stop signal is *)
(* sent, the managers are retired, the background is taken out.              *)
Stopping(s) == stopFlag' = stopFlag \cup {s}

(* replace_session: closed, or another gateway's session, is refused at once. *)
ReplaceBegin(r) ==
    /\ rep[r].pc = "idle"
    /\ \/ ~closed /\ HandoverGoto(r, "validate", 0)
       \/ Ended(r)
    /\ UNCHANGED <<built, stopFlag, tasks, active, epoch, closed, control, stopPc>>

(* online_info accepts the session or fails *)
ReplaceValidate(r) ==
    /\ rep[r].pc = "validate"
    /\ HandoverGoto(r, "build", 0) \/ Ended(r)
    /\ UNCHANGED <<built, stopFlag, tasks, active, epoch, closed, control, stopPc>>

(* build_session: nothing is spawned unless the resource table was loaded. *)
BuildSession(r) ==
    /\ rep[r].pc = "build"
    /\ \/ /\ built < MaxBuilt
          /\ built' = built + 1
          /\ tasks' = tasks \cup {built'}
          /\ HandoverGoto(r, "lock", built')
       \/ Ended(r) /\ UNCHANGED <<built, tasks>>
    /\ UNCHANGED <<stopFlag, active, epoch, closed, control, stopPc>>

RefusedNever == FALSE
(* the closed flag is read again under the control lock *)
RefusedUnderLock == closed

ReplaceLock(r) ==
    /\ rep[r].pc = "lock" /\ control = NoOwner
    /\ control' = r
    /\ IF RefusedUnderLock
         THEN Stopping(rep[r].s) /\ HandoverGoto(r, "drain", rep[r].s)
         ELSE HandoverGoto(r, "swap", rep[r].s) /\ UNCHANGED stopFlag
    /\ UNCHANGED <<built, tasks, active, epoch, closed, stopPc>>

(* Under the write lock: stop the old session, raise the epoch, install the  *)
(* new one; then shut the old one down.                                      *)
ReplaceSwap(r) ==
    /\ rep[r].pc = "swap"
    /\ Stopping(active)
    /\ epoch' = epoch + 1
    /\ active' = rep[r].s
    /\ HandoverGoto(r, "drain", active)
    /\ UNCHANGED <<built, tasks, closed, control, stopPc>>

(* node task, reconciler and refresh task joined, managers closed *)
ReplaceDrain(r) ==
    /\ rep[r].pc = "drain"
    /\ tasks' = tasks \ {rep[r].s}
    /\ control' = NoOwner
    /\ Ended(r)
    /\ UNCHANGED <<built, stopFlag, active, epoch, closed, stopPc>>

DropKeepsNext(r) == {}
(* The sessions an abandoned replacement takes with it: the one it built (by *)
(* ClientSession's drop), or the taken background of the one it drains.      *)
DroppedWith(r) == {rep[r].s} \cap Sessions

(* The caller drops the future at an await. *)
ReplaceCancel(r) ==
    /\ rep[r].pc \in {"validate", "build", "lock", "swap", "drain"}
    /\ stopFlag' = stopFlag \cup DroppedWith(r)
    /\ tasks' = tasks \ DroppedWith(r)
    /\ control' = IF control = r THEN NoOwner ELSE control
    /\ Ended(r)
    /\ UNCHANGED <<built, active, epoch, closed, stopPc>>

(* AtrustClient::shutdown *)
ShutdownBegin ==
    /\ stopPc = "idle" /\ stopPc' = "lock"
    /\ UNCHANGED <<built, stopFlag, tasks, active, epoch, closed, control, rep>>

ShutdownLock ==
    /\ stopPc = "lock" /\ control = NoOwner
    /\ control' = Stopper
    /\ closed' = TRUE
    /\ Stopping(active)
    /\ stopPc' = "drain"
    /\ UNCHANGED <<built, tasks, active, epoch, rep>>

ShutdownDrain ==
    /\ stopPc = "drain"
    /\ tasks' = tasks \ {active}
    /\ control' = NoOwner
    /\ stopPc' = "done"
    /\ UNCHANGED <<built, stopFlag, active, epoch, closed, rep>>

(* Dropping the future drops the background it took. It may be called again. *)
ShutdownCancel ==
    /\ stopPc \in {"lock", "drain"}
    /\ stopPc' = "idle"
    /\ IF stopPc = "drain" THEN tasks' = tasks \ {active} /\ control' = NoOwner
                           ELSE UNCHANGED <<tasks, control>>
    /\ UNCHANGED <<built, stopFlag, active, epoch, closed, rep>>

HandoverNext ==
    \/ \E r \in Replacers : \/ ReplaceBegin(r) \/ ReplaceValidate(r) \/ BuildSession(r)
                            \/ ReplaceLock(r) \/ ReplaceSwap(r) \/ ReplaceDrain(r)
                            \/ ReplaceCancel(r)
    \/ ShutdownBegin \/ ShutdownLock \/ ShutdownDrain \/ ShutdownCancel

HandoverSpec == HandoverInit /\ [][HandoverNext]_handoverVars

----------------------------------------------------------------------------
Pending(s) == \E r \in Replacers : rep[r].pc \in {"lock", "swap", "drain"} /\ rep[r].s = s

(* Whatever is dropped or refused, background tasks run only for the active  *)
(* session or for one that a replace_session in progress still answers for,  *)
(* and a session that can serve calls is the active one or not installed yet.*)
NoAbandonedSession ==
    \A s \in 1..built : /\ s \in tasks => s = active \/ Pending(s)
                        /\ s \notin stopFlag => s = active \/ Pending(s)

(* Once AtrustClient::shutdown has returned, the active session is stopped   *)
(* for good, even if a replacement was validated before or during shutdown.  *)
ShutdownIsFinal ==
    stopPc = "done" => active \in stopFlag /\ active \notin tasks

(* A session that is replaced or shut down leaves nothing running, wherever   *)
(* replace_session and shutdown overlap or are dropped.                       *)
HandoverIsClean == NoAbandonedSession /\ ShutdownIsFinal
=============================================================================
