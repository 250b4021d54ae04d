----------------------------- MODULE ControlPlane -----------------------------
(* What AuthClient makes of the gateway's answer to a request. An answer is    *)
(* the record of what the code looks at; an outcome is "ok", "captcha" or an   *)
(* error with the business code it carries.                                    *)
EXTENDS Naturals

Codes == {"absent", "zero", "gone", "other"}  \* "gone": SESSION_INVALID_CODE

Answers == [sent   : {"ok", "timeout", "failed"},        \* transport, headers included
            length : {"within", "announced", "streamed"},\* where max_response_body is exceeded
            status : {"2xx", "other"},
            json   : BOOLEAN,                            \* the body has the expected shape
            code   : Codes,
            field  : BOOLEAN,                            \* data, user name or ticket is there
            captcha : BOOLEAN]

Ok == [kind |-> "ok", code |-> "zero"]
Captcha == [kind |-> "captcha", code |-> "zero"]
Error(kind, code) == [kind |-> kind, code |-> code]
Unreadable == Error("other", "absent")

(* HttpTransport::execute, then is_success: an oversized body is refused       *)
(* before it is read, or at the chunk that exceeds the limit                   *)
Execute(a) == a.sent = "ok" /\ a.length = "within" /\ a.status = "2xx"

(* BusinessEnvelope: the code is mandatory *)
Business(a, needed) ==
    IF ~Execute(a) \/ ~a.json \/ a.code = "absent" THEN Unreadable
    ELSE IF a.code # "zero" THEN Error("rejected", a.code)
    ELSE IF needed /\ ~a.field THEN Unreadable ELSE Ok

(* AuthConfigEnvelope: the code is optional, data is not *)
AuthConfig(a) ==
    IF ~Execute(a) \/ ~a.json THEN Unreadable
    ELSE IF a.code \notin {"absent", "zero"} THEN Error("rejected", a.code)
    ELSE IF ~a.field THEN Unreadable ELSE Ok

OnlineInfo(a)        == Business(a, TRUE)    \* a user name
TicketExchange(a)    == Business(a, TRUE)    \* a sidTicket
SessionIdExchange(a) == Business(a, FALSE)

(* client_resource_body, then ClientResources::from_envelope *)
ClientResource(a) ==
    IF ~Execute(a) \/ ~a.json THEN Unreadable
    ELSE IF a.code \notin {"absent", "zero"} THEN Error("resource", a.code)
    ELSE IF ~a.field THEN Unreadable ELSE Ok

(* authenticate_password: a captcha counts before the code *)
AuthenticatePassword(a) ==
    IF ~Execute(a) \/ ~a.json \/ a.code = "absent" THEN Unreadable
    ELSE IF a.captcha THEN Captcha
    ELSE IF a.code # "zero" THEN Error("rejected", a.code)
    ELSE IF ~a.field THEN Unreadable ELSE Ok

Outcome(endpoint, a) ==
    CASE endpoint = "authConfig" -> AuthConfig(a)
      [] endpoint = "onlineInfo" -> OnlineInfo(a)
      [] endpoint = "clientResource" -> ClientResource(a)
      [] endpoint = "ticketExchange" -> TicketExchange(a)
      [] endpoint = "sessionIdExchange" -> SessionIdExchange(a)
      [] endpoint = "psw" -> AuthenticatePassword(a)

(* AuthError::is_session_invalid *)
IsSessionInvalid(e) == e.kind \in {"rejected", "resource"} /\ e.code = "gone"

(* the gateway said in a whole answer that it does not know the session *)
SaysGone(a) == Execute(a) /\ a.json /\ a.code = "gone"
=============================================================================
