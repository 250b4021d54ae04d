--------------------------- MODULE SessionCommands ---------------------------
(* The commands of the probe tool that log in, check, renew or copy a session. *)
(* A command is a sequence of stages; each may fail, and the failure of any    *)
(* stage ends the command, as `?` does. What a stage leaves behind is the      *)
(* state: two cookie jars, the material, the session files. Any answer of the  *)
(* gateway may also set or delete the SID cookie of the jar that asked.        *)
EXTENDS ControlPlane, Sequences, SequencesExt

CONSTANTS MaxSid,     \* bound: SIDs are 1..MaxSid; 0 is no cookie
          MaxU64,     \* the largest duration a u64 holds
          MaxSeconds, \* the 20 hours a renewal experiment may take
          Plans       \* [first, valid, every : 0..MaxU64, repeats : Nat] of session-renewal

StoredSid == 1        \* `sid` of the session file that is read
Sids == 0..MaxSid
Jars == {"process", "candidate"}
Outputs == {"s0", "s1"}

VARIABLES command,    \* the command of this process
          plan,       \* durations of session-renewal
          at,         \* its next stage
          attempt,    \* 1..3: attempt of a stage that is retried
          result,     \* "running", "passed" or "failed"
          jar,        \* jar -> [sid, from]: SID cookie, what was imported into it
          material,   \* SID of the material, 0 before there is one
          output,     \* file -> [state, sid, cookie, from, confirmed]: what is in it
          browser,    \* the browser is open
          sleptUntil,      \* last instant slept until
          accepted,   \* jars whose session onlineInfo confirmed (history)
          gone,       \* jars whose session the gateway called invalid (history)
          pestered    \* such a jar was used again (history)

commandVars == <<command, plan, at, attempt, result, jar, material, output, browser, sleptUntil,
                 accepted, gone, pestered>>
effects == <<jar, material, output, browser, sleptUntil, accepted, gone, pestered>>

----------------------------------------------------------------------------
(* Stages *)
Stage(op, on, j) == [op |-> op, on |-> on, jar |-> j, tries |-> 1, must |-> TRUE]
Local         == Stage("local", "", "process")
Request(e, j) == Stage("request", e, j)
RetriedRequest(e)    == [Request(e, "process") EXCEPT !.tries = 3]
Until(t)      == [Stage("sleep", "", "process") EXCEPT !.tries = t]

(* import_session_file *)
ImportFile == Stage("import", "store", "process")
RestoreSession ==
    <<ImportFile, Request("authConfig", "process"), Request("onlineInfo", "process"),
      Stage("stored", "", "process")>>

(* password_session: the failure of onlineInfo is only reported *)
PasswordSession ==
    <<Local, Request("authConfig", "process"), Request("psw", "process"),
      Request("authConfig", "process"), [Request("onlineInfo", "process") EXCEPT !.must = FALSE],
      Stage("sid", "", "process")>>

(* establish_e11_browser_session *)
EstablishE11(j, harvest, file) ==
    <<Stage("import", harvest, j), Request("authConfig", j), Request("onlineInfo", j),
      Request("clientResource", j), Stage("sid", "", j), Stage("save", file, j)>>

E11ShortWindow ==
    <<Stage("fresh", "s0", ""), Stage("fresh", "s1", ""), Local,
      Request("authConfig", "process"), Local, Stage("browser", "", "")>>
    \o EstablishE11("process", "first", "s0")
    \o <<Stage("new", "", "candidate"), Request("authConfig", "candidate"), Local>>
    \o EstablishE11("candidate", "second", "s1")

E11HeadlessTicketExchange ==
    <<Stage("fresh", "s1", ""), Local, ImportFile, Stage("stored", "", "process"),
      Request("authConfig", "process"), Request("onlineInfo", "process"),
      Request("clientResource", "process"), Local, Request("ticketExchange", "process"),
      Stage("new", "", "candidate"), Request("authConfig", "candidate"),
      Request("sessionIdExchange", "candidate"), Request("authConfig", "candidate"),
      Request("onlineInfo", "candidate"), Request("clientResource", "candidate"),
      Stage("sid", "", "candidate"), Stage("save", "s1", "candidate")>>

(* run_e11_auth_config_candidate, validate_e11_control_plane *)
Candidate  == <<RetriedRequest("authConfig"), RetriedRequest("onlineInfo")>>
Checkpoint == <<RetriedRequest("onlineInfo"), RetriedRequest("clientResource")>>

TotalSecondsWrapping(p) ==
    IF p.first >= p.valid THEN MaxU64 ELSE (p.valid + p.every * p.repeats) % (MaxU64 + 1)
(* e11_total_seconds; more than the budget is refused, and so is an overflow *)
TotalSeconds(p) ==
    IF p.first >= p.valid \/ p.every * p.repeats > MaxU64
       \/ p.valid + p.every * p.repeats > MaxU64
    THEN MaxU64 ELSE p.valid + p.every * p.repeats

Cycle(p, i) == Candidate \o <<Until(p.valid + p.every * i)>> \o Checkpoint

SessionRenewal(p) ==
    <<Stage("plan", "", ""), ImportFile, Stage("stored", "", "process")>>
    \o Candidate \o <<RetriedRequest("clientResource"), Stage("sid", "", "process"), Until(p.first)>>
    \o Candidate \o <<Until(p.valid)>> \o Checkpoint
    \o FlattenSeq([i \in 1..p.repeats |-> Cycle(p, i)])
    \o <<Stage("sid", "", "process"), Local, [Stage("node", "", "process") EXCEPT !.tries = 3]>>

Resources == <<Request("authConfig", "process"), Request("clientResource", "process")>>
(* resolve_data_node asks for the resources and selects a node *)
GetIpCommand(session) ==
    session \o <<Request("clientResource", "process"), Local, Stage("node", "", "process")>>

Program ==
    CASE command = "password" -> PasswordSession \o <<Stage("save", "s0", "process")>>
      [] command = "session-check" -> RestoreSession
      [] command = "client-resource" -> <<ImportFile>> \o Resources \o <<Local>>
      [] command = "get-ip" -> GetIpCommand(RestoreSession)
      [] command = "get-ip-password" -> GetIpCommand(PasswordSession)
      [] command = "e11-r2-short-window" -> E11ShortWindow
      [] command = "e11-headless" -> E11HeadlessTicketExchange
      [] command = "session-renewal" -> SessionRenewal(plan)
      [] command = "none" -> <<>>

Commands == {"password", "session-check", "client-resource", "get-ip", "get-ip-password",
             "e11-r2-short-window", "e11-headless", "session-renewal"}

----------------------------------------------------------------------------
Contents(state) == [state |-> state, sid |-> 0, cookie |-> 0, from |-> {}, confirmed |-> FALSE]
NoPlan == [first |-> 0, valid |-> 0, every |-> 0, repeats |-> 0]

CommandInit ==
    /\ command = "none" /\ plan = NoPlan /\ at = 1 /\ attempt = 1 /\ result = "none"
    /\ jar = [j \in Jars |-> [sid |-> 0, from |-> {}]]
    /\ material = 0 /\ output = [f \in Outputs |-> Contents("absent")]
    /\ browser = FALSE /\ sleptUntil = 0
    /\ accepted = {} /\ gone = {} /\ pestered = FALSE

(* the user starts a command; files of an earlier one may be there *)
StartCommand ==
    /\ result = "none" /\ result' = "running"
    /\ command' \in Commands
    /\ plan' \in (IF command' = "session-renewal" THEN Plans ELSE {NoPlan})
    /\ output' \in [Outputs -> {Contents("absent"), Contents("older")}]
    /\ UNCHANGED <<at, attempt, jar, material, browser, sleptUntil, accepted, gone, pestered>>

Doing(op) == result = "running" /\ at <= Len(Program) /\ Program[at].op = op
Now == Program[at]

Advance == at' = at + 1 /\ attempt' = 1 /\ UNCHANGED <<command, plan, result>>
Again   == attempt' = attempt + 1 /\ UNCHANGED <<command, plan, at, result>>
(* the browser is closed however the experiment ended *)
Fail == /\ result' = "failed" /\ browser' = FALSE
        /\ UNCHANGED <<command, plan, at, attempt, jar, material, output, sleptUntil>>
FailHere == Fail /\ UNCHANGED <<accepted, gone, pestered>>

Finish ==
    /\ result = "running" /\ at > Len(Program)
    /\ result' = "passed" /\ browser' = FALSE
    /\ UNCHANGED <<command, plan, at, attempt, jar, material, output, sleptUntil, accepted, gone,
                   pestered>>

(* arguments, environment, parsing, a challenge, a login page, a trace file *)
LocalStage == Doing("local") /\ (FailHere \/ (Advance /\ UNCHANGED effects))

CheckFresh ==
    /\ Doing("fresh")
    /\ IF output[Now.on].state = "absent" THEN Advance /\ UNCHANGED effects ELSE FailHere

CheckPlan ==
    /\ Doing("plan")
    /\ IF TotalSeconds(plan) <= MaxSeconds THEN Advance /\ UNCHANGED effects ELSE FailHere

Sleep ==
    /\ Doing("sleep") /\ Advance
    /\ sleptUntil' = Now.tries
    /\ UNCHANGED <<jar, material, output, browser, accepted, gone, pestered>>

OpenBrowser ==
    /\ Doing("browser")
    /\ \/ FailHere
       \/ /\ Advance /\ browser' = TRUE
          /\ UNCHANGED <<jar, material, output, sleptUntil, accepted, gone, pestered>>

NewJarShared == jar["process"]
(* a second transport with a jar of its own *)
NewJar == [sid |-> 0, from |-> {}]

NewTransport ==
    /\ Doing("new") /\ Advance
    /\ jar' = [jar EXCEPT !["candidate"] = NewJar]
    /\ UNCHANGED <<material, output, browser, sleptUntil, accepted, gone, pestered>>

(* a session file, or what a login in the browser harvested *)
Import ==
    /\ Doing("import")
    /\ \/ FailHere
       \/ /\ Advance
          /\ \E s \in Sids : jar' = [jar EXCEPT ![Now.jar] =
                                       [sid |-> s, from |-> @.from \cup {Now.on}]]
          /\ UNCHANGED <<material, output, browser, sleptUntil, accepted, gone, pestered>>

ControlEndpoints == {"authConfig", "onlineInfo", "clientResource", "ticketExchange",
              "sessionIdExchange", "psw"}
Results == [e \in ControlEndpoints |->
              {[error |-> Outcome(e, a), gone |-> SaysGone(a)] : a \in Answers}]

(* Whether another attempt follows an error: not for an invalid session. *)
TriesAgain(error) == attempt < Now.tries /\ ~IsSessionInvalid(error)

Ask ==
    /\ Doing("request")
    /\ \E r \in Results[Now.on] :
         /\ gone' = IF r.gone /\ Now.must THEN gone \cup {Now.jar} ELSE gone
         /\ pestered' = (pestered \/ Now.jar \in gone)
         /\ accepted' = IF r.error = Ok /\ Now.on = "onlineInfo"
                          THEN accepted \cup {Now.jar} ELSE accepted
         /\ IF r.error # Ok /\ (r.error = Captcha \/ (Now.must /\ ~TriesAgain(r.error)))
              THEN Fail
              ELSE /\ IF r.error = Ok \/ ~Now.must THEN Advance ELSE Again
                   /\ \E s \in Sids \cup {jar[Now.jar].sid} :
                        jar' = [jar EXCEPT ![Now.jar].sid = s]
                   /\ UNCHANGED <<material, output, browser, sleptUntil>>

(* build_session_material, or session_cookie_value: the jar's SID now *)
SidOf(j) == jar[j].sid

TakeSid ==
    /\ Doing("sid")
    /\ IF SidOf(Now.jar) = 0 THEN FailHere
       ELSE /\ Advance /\ material' = SidOf(Now.jar)
            /\ UNCHANGED <<jar, output, browser, sleptUntil, accepted, gone, pestered>>

(* StoredSession::to_material: the identifiers of the file *)
StoredMaterial ==
    /\ Doing("stored")
    /\ \/ FailHere
       \/ /\ Advance /\ material' = StoredSid
          /\ UNCHANGED <<jar, output, browser, sleptUntil, accepted, gone, pestered>>

(* save_session_file: the material together with all cookies of the jar *)
Save ==
    /\ Doing("save")
    /\ \/ FailHere
       \/ /\ Advance
          /\ output' = [output EXCEPT ![Now.on] =
                          [state |-> IF @.state = "absent" THEN "written" ELSE "replaced",
                           sid |-> material, cookie |-> SidOf(Now.jar),
                           from |-> jar[Now.jar].from, confirmed |-> Now.jar \in accepted]]
          /\ UNCHANGED <<jar, material, browser, sleptUntil, accepted, gone, pestered>>

(* get_ipv4 with the material's SID *)
AskNode ==
    /\ Doing("node")
    /\ \/ Advance /\ UNCHANGED effects
       \/ IF attempt < Now.tries THEN Again /\ UNCHANGED effects ELSE FailHere

CommandNext ==
    \/ StartCommand \/ LocalStage \/ CheckFresh \/ CheckPlan \/ Sleep \/ OpenBrowser
    \/ NewTransport \/ Import \/ Ask
    \/ TakeSid \/ StoredMaterial \/ Save \/ AskNode \/ Finish

CommandSpec == CommandInit /\ [][CommandNext]_commandVars

----------------------------------------------------------------------------
CommandTypeOK ==
    /\ at \in 1..(Len(Program) + 1) /\ attempt \in 1..3
    /\ result \in {"none", "running", "passed", "failed"} /\ material \in Sids
    /\ \A j \in Jars : jar[j].sid \in Sids /\ jar[j].from \subseteq {"store", "first", "second"}
    /\ browser \in BOOLEAN /\ accepted \subseteq Jars /\ gone \subseteq Jars

FileWritten(f) == output[f].state \in {"written", "replaced"}

(* A session file that an experiment leaves behind names the SID of the very  *)
(* cookies stored beside it, however often the gateway rotated it on the way, *)
(* was confirmed by onlineInfo (a password login only reports it) and did not *)
(* replace an older file; the second file owes nothing to the first session's *)
(* cookies. No browser outlives its experiment.                               *)
CandidatesStandAlone ==
    /\ \A f \in Outputs : FileWritten(f) =>
         /\ output[f].sid = output[f].cookie /\ output[f].sid # 0
         /\ command # "password" => output[f].confirmed /\ output[f].state = "written"
    /\ FileWritten("s1") => output["s1"].from \cap {"store", "first"} = {}
    /\ result \in {"passed", "failed"} => ~browser

(* "retrying cannot fix" a session the gateway no longer recognises: whichever *)
(* endpoint reports it, and in whichever form, that jar is not used again.     *)
(* A renewal that passed kept within its time and saw none of this, and asked  *)
(* the node with the SID its jar held at the end.                              *)
GoneSessionIsLeft ==
    /\ ~pestered
    /\ sleptUntil <= MaxSeconds
    /\ command = "session-renewal" /\ result = "passed" =>
         /\ gone = {} /\ material = jar["process"].sid
         /\ sleptUntil = plan.valid + plan.every * plan.repeats

=============================================================================
