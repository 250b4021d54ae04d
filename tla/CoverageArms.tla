----------------------------- MODULE CoverageArms -----------------------------
(* Two commands that run one stored session through several arms:             *)
(* sid-coverage (which cookies the gateway needs) and                          *)
(* minimal-material-coverage (which identifiers it binds to the session, with  *)
(* a baseline before, between and after the candidates). Gateway and nodes may *)
(* refuse at any stage, and the user may press Ctrl-C at any time.             *)
EXTENDS Naturals, Sequences, FiniteSets

CONSTANT SessionFiles   \* sets of cookie names a stored session holds

Names == {"sid", "sid.sig", "sid-legacy", "sid-legacy.sig", "other"}
Signature(name) == IF name = "sid" THEN "sid.sig" ELSE "sid-legacy.sig"

SidArms == <<"sid_only", "sid_with_signature", "sid_family", "full_cookies">>
(* MinimalMaterialArm::SEQUENCE *)
MinimalArms == <<"B0", "K1", "B0-check", "C1", "B0-check", "D1", "B0-check", "F1", "B0-final">>
IsBaseline(arm) == arm \in {"B0", "B0-check", "B0-final"}

VARIABLES which,      \* "sid" or "minimal"
          stored,     \* [cookies, selected]: the session file
          arm,        \* position of the arm; 0 before the first
          step,       \* next stage of the arm
          cookies,    \* the arm's jar
          identity,   \* the arm's [device, connection, key], else NoIdentity
          runtimes,   \* data-plane runtimes that run
          handler,    \* a Ctrl-C handler was installed once
          baselineFailed, \* baseline_failed
          armsEnding, \* "running", "ok", "failed", "interrupted" or "killed"
          ran         \* history: arm -> "none", "passed" or "failed"

armVars == <<which, stored, arm, step, cookies, identity, runtimes, handler, baselineFailed,
             armsEnding, ran>>

Arms == IF which = "sid" THEN SidArms ELSE MinimalArms
Steps == IF which = "sid"
         THEN <<"authConfig", "onlineInfo", "clientResource", "nodes", "getIp">>
         ELSE <<"authConfig", "onlineInfo", "clientResource", "routes", "nodes", "start",
                "l3", "tcp", "https">>
Refusable(s) == s \notin {"idle", "begin", "between", "interrupt", "shutdown"}

NoIdentity == [device |-> "none", connection |-> "none", key |-> "none"]

ArmsInit ==
    /\ which = "sid" /\ stored = [cookies |-> {"sid"}, selected |-> "sid"]
    /\ arm = 0 /\ step = "idle" /\ cookies = {} /\ identity = NoIdentity /\ runtimes = 0
    /\ handler = FALSE /\ baselineFailed = FALSE /\ armsEnding = "running"
    /\ ran = [k \in 1..9 |-> "none"]

(* the user names a command and a session file *)
StartArms ==
    /\ step = "idle" /\ step' = "begin"
    /\ which' \in {"sid", "minimal"}
    /\ stored' \in {s \in [cookies : SessionFiles, selected : {"sid", "sid-legacy"}] :
                     s.selected \in s.cookies}
    /\ UNCHANGED <<arm, cookies, identity, runtimes, handler, baselineFailed, armsEnding, ran>>

Same == UNCHANGED <<which, stored>>

(* SidCoverageArm::includes *)
Includes(a) ==
    {n \in stored.cookies :
       CASE a = "sid_only" -> n = stored.selected
         [] a = "sid_with_signature" -> n \in {stored.selected, Signature(stored.selected)}
         [] a = "sid_family" -> n # "other"
         [] OTHER -> TRUE}

(* the two cookies that minimal-material-coverage insists on *)
SidCookies == stored.cookies \cap {stored.selected, Signature(stored.selected)}

(* loading the file and parsing the targets; then the first arm *)
BeginCommand ==
    /\ armsEnding = "running" /\ step = "begin"
    /\ IF which = "minimal" /\ Cardinality(SidCookies) # 2
         THEN armsEnding' = "failed" /\ UNCHANGED step
         ELSE \/ armsEnding' = "failed" /\ UNCHANGED step
              \/ step' = "between" /\ UNCHANGED armsEnding
    /\ UNCHANGED <<arm, cookies, identity, runtimes, handler, baselineFailed, ran>> /\ Same

JarKept(chosen) == cookies \cup chosen
(* a transport of its own for each arm: the jar holds what is imported *)
JarOf(chosen) == chosen

BeginArm ==
    /\ armsEnding = "running" /\ step = "between" /\ arm < Len(Arms)
    /\ arm' = arm + 1 /\ step' = "authConfig"
    /\ cookies' = JarOf(IF which = "sid" THEN Includes(Arms[arm + 1]) ELSE SidCookies)
    /\ UNCHANGED <<identity, runtimes, handler, baselineFailed, armsEnding, ran>> /\ Same

(* minimal_material_for_arm; a connection id is named after its device *)
Material(a) ==
    CASE IsBaseline(a) -> [device |-> "stored", connection |-> "stored", key |-> "stored"]
      [] a = "K1" -> [device |-> "stored", connection |-> "stored", key |-> "fresh"]
      [] a = "C1" -> [device |-> "stored", connection |-> "stored-again", key |-> "stored"]
      [] a = "D1" -> [device |-> "fresh", connection |-> "fresh", key |-> "stored"]
      [] a = "F1" -> [device |-> "fresh", connection |-> "fresh", key |-> "fresh"]

Next1(s) == Steps[1 + CHOOSE i \in 1..(Len(Steps) - 1) : Steps[i] = s]
LastStep(s) == s = Steps[Len(Steps)]

(* A stage succeeds. The gateway may leave cookies in the jar; `start` makes   *)
(* the runtime, and the data-plane stages listen for Ctrl-C.                   *)
StagePasses ==
    /\ armsEnding = "running" /\ Refusable(step)
    /\ IF LastStep(step)
         THEN /\ ran' = [ran EXCEPT ![arm] = "passed"]
              /\ step' = IF which = "sid" THEN "between" ELSE "shutdown"
         ELSE step' = Next1(step) /\ UNCHANGED ran
    /\ cookies' \in {cookies, cookies \cup {"other"}}
    /\ identity' = IF step = "start" THEN Material(Arms[arm]) ELSE identity
    /\ runtimes' = runtimes + (IF step = "start" THEN 1 ELSE 0)
    /\ handler' = (handler \/ step = "start")
    /\ UNCHANGED <<arm, baselineFailed, armsEnding>> /\ Same

BaselineFailedNow(a) == IsBaseline(a)
BaselineFailed(a) == baselineFailed \/ IsBaseline(a)

(* A stage fails: the arm has failed; before the runtime nothing is left of it *)
StageFails ==
    /\ armsEnding = "running" /\ Refusable(step)
    /\ ran' = [ran EXCEPT ![arm] = "failed"]
    /\ baselineFailed' = BaselineFailed(Arms[arm])
    /\ step' = IF runtimes > 0 THEN "shutdown" ELSE "between"
    /\ UNCHANGED <<arm, cookies, identity, runtimes, handler, armsEnding>> /\ Same

Listening == step \in {"l3", "tcp", "https"}

(* Ctrl-C: seen by the select of the data-plane stages; elsewhere it ends the *)
(* process, but once a handler was installed it is swallowed.                 *)
CtrlC ==
    /\ armsEnding = "running" /\ step # "idle" /\ (Listening \/ ~handler)
    /\ IF Listening THEN step' = "interrupt" /\ UNCHANGED <<armsEnding, runtimes>>
                    ELSE armsEnding' = "killed" /\ runtimes' = 0 /\ UNCHANGED step
    /\ UNCHANGED <<arm, cookies, identity, handler, baselineFailed, ran>> /\ Same

RuntimesKept == runtimes
(* runtime.shutdown, whatever the outcome *)
RuntimesAfterArm == 0

ArmEnds ==
    /\ armsEnding = "running" /\ step \in {"shutdown", "interrupt"}
    /\ runtimes' = RuntimesAfterArm /\ identity' = NoIdentity
    /\ armsEnding' = IF step = "interrupt" THEN "interrupted" ELSE "running"
    /\ step' = "between"
    /\ UNCHANGED <<arm, cookies, handler, baselineFailed, ran>> /\ Same

(* a failed baseline makes the command fail; sid-coverage always succeeds *)
Verdict == IF which = "minimal" /\ baselineFailed THEN "failed" ELSE "ok"

EndCommand ==
    /\ armsEnding = "running" /\ step = "between" /\ arm = Len(Arms)
    /\ armsEnding' = Verdict
    /\ UNCHANGED <<arm, step, cookies, identity, runtimes, handler, baselineFailed, ran>> /\ Same

ArmsNext ==
    \/ StartArms \/ BeginCommand \/ BeginArm \/ StagePasses \/ StageFails
    \/ CtrlC \/ ArmEnds \/ EndCommand

ArmsSpec == ArmsInit /\ [][ArmsNext]_armVars

----------------------------------------------------------------------------
ArmsTypeOK ==
    /\ arm \in 0..Len(Arms) /\ cookies \subseteq Names /\ runtimes \in 0..2
    /\ armsEnding \in {"running", "ok", "failed", "interrupted", "killed"}
    /\ handler \in BOOLEAN /\ baselineFailed \in BOOLEAN

(* "candidate results are not attributable" unless the baselines hold: when   *)
(* minimal-material-coverage succeeds, every arm ran to a result and each     *)
(* candidate stands between two baselines that passed. An arm sees no cookie  *)
(* of the arm before it, no second runtime beside its own, and never a        *)
(* connection id of another device; nothing runs after the command.           *)
ArmsAreAttributable ==
    /\ armsEnding = "ok" =>
         \A k \in 1..Len(Arms) :
           /\ ran[k] # "none"
           /\ which = "minimal" /\ ~IsBaseline(Arms[k]) =>
                ran[k - 1] = "passed" /\ ran[k + 1] = "passed"
    /\ step = "authConfig" =>
         IF which = "minimal" THEN cookies = {stored.selected, Signature(stored.selected)}
         ELSE stored.selected \in cookies /\ (arm < 4 => "other" \notin cookies)
    /\ runtimes <= 1 /\ (armsEnding # "running" => runtimes = 0)
    /\ identity.device = "fresh" <=> identity.connection = "fresh"
=============================================================================
